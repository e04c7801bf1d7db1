-------------------------- MODULE MonitoringProofs --------------------------
(***************************************************************************)
(* Proofs about Monitoring, for every number of policies, checks, results, *)
(* operators' requests, recipients, endpoints and senders.                 *)
(*                                                                         *)
(* The alerts, the notifications and the outbox share the budget and the   *)
(* transaction that enqueues the notifications of an alert's event; each   *)
(* part has an inductive invariant of its own over MonitoringNext.         *)
(***************************************************************************)
EXTENDS Monitoring, FiniteSetTheorems, TLAPS

monitoringVars == <<vars, outboxVars>>

-----------------------------------------------------------------------------
(* Notifications *)

\* The statuses from which a row is sent once more, at the latest by hand.
Again == {"pending", "retrying", "failed"}
RowStatuses == Again \cup {"sending", "sent", "suppressed"}

\* What the receptions of a row are counted in.
RowType(d) == /\ {"status", "received", "unknown"} \subseteq DOMAIN d
              /\ d.status \in RowStatuses /\ d.received \in Nat /\ d.unknown \in Nat

\* The sends a row still stands for by itself.
Waits(d) == IF d.status \in Again THEN 1 ELSE 0

Claim == [kind : {"email", "webhook", None}, queue : Seq(Nat), reply : Replies \cup {None}]

\* Sender w is still to send row i, or to write down that its attempt failed.
HoldsRow(s, i) == \E n \in DOMAIN s.queue : s.queue[n] = i /\ ~(n = 1 /\ s.reply = "ok")
Holders(i) == {w \in Workers : HoldsRow(senders[w], i)}

SenderTypes ==
  /\ senders \in [Workers -> Claim]
  /\ \A w \in Workers : LET q == senders[w].queue IN
       /\ \A n \in DOMAIN q : q[n] \in 1..Len(deliveries)
       /\ \A m, n \in DOMAIN q : q[m] = q[n] => m = n

RowTypes == /\ deliveries = [i \in 1..Len(deliveries) |-> deliveries[i]]
            /\ Len(deliveries) \in Nat
            /\ \A i \in 1..Len(deliveries) : RowType(deliveries[i])

\* A row is sent at most once more by whoever holds it and by its status, each
\* in place of a reception whose end nobody saw.
SendsLeft ==
  \A i \in 1..Len(deliveries) :
    deliveries[i].received + Cardinality(Holders(i)) + Waits(deliveries[i])
      <= 1 + deliveries[i].unknown

SendInv == RowTypes /\ SenderTypes /\ SendsLeft

-----------------------------------------------------------------------------
(* What the steps do to a row *)

\* A row that is taken back is sent again, and its attempt counts as unseen.
LEMMA RecoveredRow ==
  ASSUME NEW d, RowType(d), d.status = "sending"
  PROVE  /\ RowType(Recovered(d)) /\ Recovered(d).received = d.received
         /\ Recovered(d).unknown = d.unknown + 1 /\ Waits(Recovered(d)) = 1
<1>1. Retried(d) \in Again
  BY DEF Retried, Again
<1>2. DOMAIN Recovered(d) = DOMAIN d
  BY DEF Recovered
<1>3. /\ Recovered(d).received = d.received /\ Recovered(d).unknown = d.unknown + 1
      /\ Recovered(d).status = Retried(d)
  BY DEF Recovered, RowType
<1> QED BY <1>1, <1>2, <1>3 DEF RowType, Waits, RowStatuses

\* A claimed row is its sender's.
LEMMA ClaimedRow ==
  ASSUME NEW d, RowType(d)
  PROVE  /\ RowType(Claimed(d)) /\ Claimed(d).received = d.received
         /\ Claimed(d).unknown = d.unknown /\ Waits(Claimed(d)) = 0
<1>1. DOMAIN Claimed(d) = DOMAIN d
  BY DEF Claimed
<1>2. /\ Claimed(d).received = d.received /\ Claimed(d).unknown = d.unknown
      /\ Claimed(d).status = "sending"
  BY DEF Claimed, RowType
<1> QED BY <1>1, <1>2 DEF RowType, Waits, RowStatuses, Again

\* The end of an attempt leaves the receptions, and after a success nothing waits.
LEMMA EndedRow ==
  ASSUME NEW d, RowType(d), NEW reply \in Replies
  PROVE  /\ RowType(AttemptEnd(d, reply)) /\ AttemptEnd(d, reply).received = d.received
         /\ AttemptEnd(d, reply).unknown = d.unknown
         /\ reply = "ok" => Waits(AttemptEnd(d, reply)) = 0
         /\ Waits(AttemptEnd(d, reply)) \in {0, 1}
<1>1. DOMAIN AttemptEnd(d, reply) = DOMAIN d
  BY DEF AttemptEnd
<1>2. /\ AttemptEnd(d, reply).received = d.received /\ AttemptEnd(d, reply).unknown = d.unknown
      /\ reply = "ok" => AttemptEnd(d, reply).status = "sent"
      /\ AttemptEnd(d, reply).status \in {"sent", "failed", "retrying"}
  BY DEF AttemptEnd, Retried, RowType, Replies
<1> QED BY <1>1, <1>2 DEF RowType, Waits, RowStatuses, Again

\* Time passes for a row.
LEMMA ElapsedRow ==
  ASSUME NEW d, RowType(d)
  PROVE  /\ RowType(Elapsed(d)) /\ Elapsed(d).received = d.received
         /\ Elapsed(d).unknown = d.unknown /\ Waits(Elapsed(d)) = Waits(d)
<1>1. DOMAIN Elapsed(d) = DOMAIN d
  BY DEF Elapsed
<1>2. /\ Elapsed(d).received = d.received /\ Elapsed(d).unknown = d.unknown
      /\ Elapsed(d).status = d.status
  BY DEF Elapsed, RowType
<1> QED BY <1>1, <1>2 DEF RowType, Waits

\* The senders that hold a row can be counted.
LEMMA HoldersCounted ==
  ASSUME NEW i
  PROVE  /\ IsFiniteSet(Holders(i)) /\ Cardinality(Holders(i)) \in Nat
         /\ IsFiniteSet(Holders(i)') /\ Cardinality(Holders(i)') \in Nat
<1>1. Holders(i) \in SUBSET Workers /\ Holders(i)' \in SUBSET Workers
  BY DEF Holders
<1> QED BY <1>1, FS_Subset, FS_CardinalityType, NotificationsAssumption

\* Some order of a finite set names its elements only.
LEMMA SomeOrder ==
  ASSUME NEW S, IsFiniteSet(S)
  PROVE  /\ InSomeOrder(S) \in [1..Cardinality(S) -> S] /\ Cardinality(S) \in Nat
<1>1. Cardinality(S) \in Nat /\ ExistsBijection(1..Cardinality(S), S)
  BY FS_CardinalityType
<1>2. PICK s \in Bijection(1..Cardinality(S), S) : TRUE
  BY <1>1 DEF ExistsBijection
<1>3. s \in [1..Cardinality(S) -> S] /\ {s[i] : i \in DOMAIN s} = S
  BY <1>2 DEF Bijection, Surjection, Injection
<1> QED BY <1>1, <1>3 DEF InSomeOrder

\* The values of a function on a finite set are finitely many.
LEMMA FiniteImage ==
  ASSUME NEW D, IsFiniteSet(D), NEW f, DOMAIN f = D PROVE IsFiniteSet({f[x] : x \in D})
<1> DEFINE T == {f[x] : x \in D}
           g == [x \in D |-> f[x]]
<1>1. g \in Surjection(D, T)
  BY DEF Surjection
<1> QED BY <1>1, FS_Surjection

\* A row as it is enqueued.
NewRow(d) == RowType(d) /\ d.received = 0 /\ d.unknown = 0

\* Events of alerts enqueue finitely many rows, all of them new.
LEMMA EnqueuedRows ==
  ASSUME NEW events, IsFiniteSet(events)
  PROVE  \E S : \E new \in Seq(S) : /\ Enqueued(events) = deliveries \o new
                                  /\ \A d \in S : NewRow(d)
<1> DEFINE Rows(ev) == email_enqueue_alert_event(ev.type, ev.inWindow)
                       \cup webhook_enqueue_alert_event(ev.type, ev.inWindow)
           All == UNION {Rows(ev) : ev \in events}
<1>1. \A ev \in events : IsFiniteSet(email_enqueue_alert_event(ev.type, ev.inWindow))
  <2> TAKE ev \in events
  <2> DEFINE f == [r \in Recipients |-> NewDelivery("email", r, None, 0, ev.type,
                                                    Suppressed(ev.type, ev.inWindow))]
  <2>1. IsFiniteSet({f[r] : r \in Recipients})
    <3> HIDE DEF f
    <3>1. DOMAIN f = Recipients
      BY DEF f
    <3> QED BY <3>1, FiniteImage, NotificationsAssumption
  <2>2. email_enqueue_alert_event(ev.type, ev.inWindow) \in {{}, {f[r] : r \in Recipients}}
    BY DEF email_enqueue_alert_event
  <2> HIDE DEF f
  <2> QED BY <2>1, <2>2, FS_EmptySet
<1>2. \A ev \in events : IsFiniteSet(webhook_enqueue_alert_event(ev.type, ev.inWindow))
  <2> TAKE ev \in events
  <2> DEFINE E == {x \in Endpoints : endpoints[x].present /\ endpoints[x].enabled
                                     /\ ~endpoints[x].deleted /\ ev.type \in endpoints[x].events}
             f == [e \in E |-> NewDelivery("webhook", e, endpoints[e].url, endpoints[e].secret,
                                           ev.type, Suppressed(ev.type, ev.inWindow))]
  <2>1. E \in SUBSET Endpoints
    OBVIOUS
  <2>2. IsFiniteSet(E)
    BY <2>1, FS_Subset, NotificationsAssumption
  <2>3. DOMAIN f = E
    OBVIOUS
  <2>4. webhook_enqueue_alert_event(ev.type, ev.inWindow) = {f[e] : e \in E}
    BY DEF webhook_enqueue_alert_event
  <2> HIDE DEF f, E
  <2> QED BY <2>2, <2>3, <2>4, FiniteImage
<1>3. \A ev \in events : IsFiniteSet(Rows(ev))
  BY <1>1, <1>2, FS_Union
<1>4. IsFiniteSet({Rows(ev) : ev \in events})
  <2> DEFINE f == [ev \in events |-> Rows(ev)]
  <2>1. DOMAIN f = events /\ {Rows(ev) : ev \in events} = {f[ev] : ev \in events}
    OBVIOUS
  <2>2. IsFiniteSet({f[ev] : ev \in events})
    <3> HIDE DEF f
    <3> QED BY <2>1, FiniteImage
  <2> HIDE DEF f, Rows
  <2> QED BY <2>1, <2>2
<1>5. IsFiniteSet(All)
  BY <1>3, <1>4, FS_UNION
<1>6. \A d \in All : NewRow(d)
  BY DEF email_enqueue_alert_event, webhook_enqueue_alert_event, NewDelivery, NewRow, RowType,
         RowStatuses, Again
<1>7. InSomeOrder(All) \in [1..Cardinality(All) -> All] /\ Cardinality(All) \in Nat
  BY <1>5, SomeOrder
<1>8. Enqueued(events) = deliveries \o InSomeOrder(All)
  BY DEF Enqueued
<1> HIDE DEF All
<1>9. InSomeOrder(All) \in Seq(All)
  BY <1>7
<1> QED BY <1>6, <1>8, <1>9

\* New rows after the old ones.
LEMMA Appended ==
  ASSUME RowTypes, NEW S, NEW new \in Seq(S)
  PROVE  /\ Len(deliveries \o new) \in Nat /\ Len(deliveries \o new) >= Len(deliveries)
         /\ deliveries \o new = [i \in 1..Len(deliveries \o new) |-> (deliveries \o new)[i]]
         /\ \A i \in 1..Len(deliveries) : (deliveries \o new)[i] = deliveries[i]
         /\ \A i \in 1..Len(deliveries \o new) :
              i > Len(deliveries) => (deliveries \o new)[i] \in S
<1> DEFINE T == S \cup {deliveries[i] : i \in 1..Len(deliveries)}
<1>1. deliveries \in Seq(T) /\ new \in Seq(T)
  BY DEF RowTypes
<1> HIDE DEF T
<1>2. /\ Len(deliveries \o new) = Len(deliveries) + Len(new)
      /\ deliveries \o new \in Seq(T)
  BY <1>1
<1>3. \A i \in 1..Len(deliveries) : (deliveries \o new)[i] = deliveries[i]
  BY <1>1
<1>4. \A i \in 1..Len(new) : new[i] \in S
  OBVIOUS
<1>5. \A i \in 1..Len(deliveries \o new) :
         i > Len(deliveries) => (deliveries \o new)[i] \in S
  <2> TAKE i \in 1..Len(deliveries \o new)
  <2> HAVE i > Len(deliveries)
  <2>1. Len(deliveries) \in Nat /\ Len(new) \in Nat
    BY <1>1
  <2>2. i - Len(deliveries) \in 1..Len(new)
    BY <1>2, <2>1
  <2>3. \A n \in 1..Len(new) : (deliveries \o new)[Len(deliveries) + n] = new[n]
    BY <1>1, <2>1
  <2>4. PICK n \in 1..Len(new) : n = i - Len(deliveries)
    BY <2>2
  <2>5. i = Len(deliveries) + n
    BY <2>1, <2>4
  <2>6. (deliveries \o new)[i] = new[n]
    BY <2>3, <2>5, Zenon
  <2> QED BY <1>4, <2>4, <2>6, Zenon
<1>6. deliveries \o new = [i \in 1..Len(deliveries \o new) |-> (deliveries \o new)[i]]
  <2>1. PICK s \in Seq(T) : s = deliveries \o new
    BY <1>2
  <2>2. s = [i \in 1..Len(s) |-> s[i]]
    OBVIOUS
  <2> QED BY <2>1, <2>2
<1>7. Len(deliveries) \in Nat /\ Len(new) \in Nat
  BY <1>1
<1> QED BY <1>2, <1>3, <1>5, <1>6, <1>7

-----------------------------------------------------------------------------
(* The steps keep the sends in bounds *)

\* Nothing is counted anew while the rows and the claims stay.
LEMMA RowsLeft ==
  ASSUME SendInv, UNCHANGED <<deliveries, senders>>
  PROVE  SendInv'
BY DEF SendInv, RowTypes, SenderTypes, SendsLeft, Holders, HoldsRow

\* The rows an event enqueues are held by nobody.
LEMMA EnqueueKeepsSends ==
  ASSUME SendInv, NEW S, NEW new \in Seq(S), \A d \in S : NewRow(d),
         deliveries' = deliveries \o new, UNCHANGED senders
  PROVE  SendInv'
<1>1. /\ Len(deliveries') \in Nat /\ Len(deliveries') >= Len(deliveries) /\ Len(deliveries) \in Nat
      /\ deliveries' = [i \in 1..Len(deliveries') |-> deliveries'[i]]
      /\ \A i \in 1..Len(deliveries) : deliveries'[i] = deliveries[i]
      /\ \A i \in 1..Len(deliveries') : i > Len(deliveries) => NewRow(deliveries'[i])
  BY Appended DEF SendInv, RowTypes
<1>2. \A i \in 1..Len(deliveries') : i \in 1..Len(deliveries) \/ i > Len(deliveries)
  BY <1>1
<1>3. RowTypes'
  BY <1>1, <1>2 DEF SendInv, RowTypes, NewRow
<1>4. 1..Len(deliveries) \subseteq 1..Len(deliveries')
  BY <1>1
<1>5. SenderTypes'
  BY <1>4 DEF SendInv, SenderTypes
<1>6. SendsLeft'
  <2> SUFFICES ASSUME NEW i \in 1..Len(deliveries')
               PROVE  deliveries'[i].received + Cardinality(Holders(i)') + Waits(deliveries'[i])
                        <= 1 + deliveries'[i].unknown
    BY DEF SendsLeft
  <2>1. Holders(i)' = Holders(i)
    BY DEF Holders
  <2>2. CASE i \in 1..Len(deliveries)
    BY <1>1, <2>1, <2>2 DEF SendInv, SendsLeft
  <2>3. CASE i > Len(deliveries)
    <3>1. Holders(i) = {}
      <4>1. i \notin 1..Len(deliveries)
        BY <1>1, <2>3
      <4> QED BY <4>1 DEF Holders, HoldsRow, SendInv, SenderTypes
    <3>2. Cardinality(Holders(i)) = 0
      BY <3>1, FS_EmptySet
    <3>3. NewRow(deliveries'[i])
      BY <1>1, <2>3
    <3> QED BY <2>1, <3>2, <3>3 DEF NewRow, Waits
  <2> QED BY <1>2, <2>2, <2>3
<1> QED BY <1>3, <1>5, <1>6 DEF SendInv

\* A sender's rows, and what its first one is.
LEMMA SenderFacts ==
  ASSUME SendInv, NEW w \in Workers
  PROVE  /\ senders[w] \in Claim /\ Len(senders[w].queue) \in Nat
         /\ DOMAIN senders[w].queue = 1..Len(senders[w].queue)
         /\ \A n \in DOMAIN senders[w].queue : senders[w].queue[n] \in 1..Len(deliveries)
         /\ senders[w].queue # << >> =>
              /\ 1 \in DOMAIN senders[w].queue
              /\ Head(senders[w].queue) = senders[w].queue[1]
              /\ Head(senders[w].queue) \in 1..Len(deliveries)
<1>1. senders[w] \in Claim
  BY DEF SendInv, SenderTypes
<1>2. senders[w].queue \in Seq(Nat)
  BY <1>1 DEF Claim
<1>3. /\ Len(senders[w].queue) \in Nat /\ DOMAIN senders[w].queue = 1..Len(senders[w].queue)
      /\ senders[w].queue # << >> =>
           1 \in DOMAIN senders[w].queue /\ Head(senders[w].queue) = senders[w].queue[1]
  BY <1>2
<1> QED BY <1>1, <1>3 DEF SendInv, SenderTypes

\* A step that changes the claim of w only: w holds the rows of its new claim, and
\* the other senders hold what they held.
LEMMA OneSender ==
  ASSUME SendInv, NEW w \in Workers, NEW claim \in Claim,
         senders' = [senders EXCEPT ![w] = claim]
  PROVE  /\ senders'[w] = claim
         /\ \A i : /\ HoldsRow(claim, i) => Holders(i)' = Holders(i) \cup {w}
                   /\ ~HoldsRow(claim, i) => Holders(i)' = Holders(i) \ {w}
<1>1. /\ \A v \in Workers : senders'[v] = IF v = w THEN claim ELSE senders[v]
  BY DEF SendInv, SenderTypes
<1>2. \A i : Holders(i)' = {v \in Workers : HoldsRow(senders'[v], i)}
  BY DEF Holders, HoldsRow
<1> QED BY <1>1, <1>2 DEF Holders

\* A send: the answer is kept with the claim, a reception is counted.
LEMMA SendKeepsSends ==
  ASSUME SendInv, NEW w \in Workers, send(w)
  PROVE  SendInv'
<1> DEFINE q == senders[w].queue
           i == Head(q)
<1>1. /\ q # << >> /\ senders[w].reply = None
      /\ i = q[1] /\ i \in 1..Len(deliveries) /\ 1 \in DOMAIN q /\ senders[w] \in Claim
  BY SenderFacts DEF send
<1>2. \A e, url : WebhookReplies(e, url) \subseteq Replies
  BY DEF WebhookReplies, Replies
<1>3. PICK reply \in Replies :
        /\ senders' = [senders EXCEPT ![w].reply = reply]
        /\ deliveries' = IF reply \in {"ok", "unclear"}
                         THEN [deliveries EXCEPT ![i].received = @ + 1,
                                 ![i].unknown = IF reply = "unclear" THEN @ + 1 ELSE @]
                         ELSE deliveries
  BY <1>2 DEF send
<1>4. PICK claim \in Claim : claim = [senders[w] EXCEPT !.reply = reply]
  BY <1>1 DEF Claim
<1>5. senders' = [senders EXCEPT ![w] = claim] /\ claim.queue = q /\ claim.reply = reply
  BY <1>1, <1>3, <1>4 DEF Claim
<1>6. /\ \A j : HoldsRow(claim, j) => Holders(j)' = Holders(j) \cup {w}
      /\ \A j : ~HoldsRow(claim, j) => Holders(j)' = Holders(j) \ {w}
  BY <1>5, OneSender
<1> DEFINE row == [deliveries[i] EXCEPT !.received = @ + 1,
                                        !.unknown = IF reply = "unclear" THEN @ + 1 ELSE @]
<1>7. /\ Len(deliveries) \in Nat /\ deliveries = [n \in 1..Len(deliveries) |-> deliveries[n]]
      /\ RowType(deliveries[i])
  BY <1>1 DEF SendInv, RowTypes
<1>8. /\ DOMAIN row = DOMAIN deliveries[i] /\ row.status = deliveries[i].status
      /\ row.received = deliveries[i].received + 1
      /\ row.unknown = deliveries[i].unknown + (IF reply = "unclear" THEN 1 ELSE 0)
  BY <1>7 DEF RowType
<1>9. RowType(row) /\ Waits(row) = Waits(deliveries[i])
  BY <1>7, <1>8, SMTT(30) DEF RowType, Waits
<1>10. deliveries' = IF reply \in {"ok", "unclear"} THEN [deliveries EXCEPT ![i] = row] ELSE deliveries
  BY <1>3
<1> HIDE DEF row, i
<1>11. /\ Len(deliveries') = Len(deliveries)
       /\ deliveries' = [n \in 1..Len(deliveries) |->
            IF n = i /\ reply \in {"ok", "unclear"} THEN row ELSE deliveries[n]]
  <2>1. PICK L \in Nat : L = Len(deliveries) /\ DOMAIN deliveries = 1..L
    BY <1>7
  <2>2. deliveries' = [n \in 1..L |->
            IF n = i /\ reply \in {"ok", "unclear"} THEN row ELSE deliveries[n]]
    BY <1>7, <1>10, <2>1
  <2>3. Len(deliveries') = L
    BY <2>2
  <2> QED BY <2>1, <2>2, <2>3
<1>12. RowTypes'
  BY <1>7, <1>9, <1>11 DEF SendInv, RowTypes
<1>13. SenderTypes'
  BY <1>5, <1>11 DEF SendInv, SenderTypes
<1>14. SendsLeft'
  <2> SUFFICES ASSUME NEW j \in 1..Len(deliveries)
               PROVE  deliveries'[j].received + Cardinality(Holders(j)') + Waits(deliveries'[j])
                        <= 1 + deliveries'[j].unknown
    BY <1>11 DEF SendsLeft
  <2>1. deliveries[j].received + Cardinality(Holders(j)) + Waits(deliveries[j])
          <= 1 + deliveries[j].unknown /\ RowType(deliveries[j])
    BY DEF SendInv, SendsLeft, RowTypes
  <2>2. IsFiniteSet(Holders(j)) /\ Cardinality(Holders(j)) \in Nat
    BY HoldersCounted
  <2>3. w \in Holders(j) <=> \E n \in DOMAIN q : q[n] = j
    <3>1. None # "ok"
      BY NotificationsAssumption
    <3>2. senders[w].reply # "ok"
      BY <1>1, <3>1, Zenon
    <3> QED BY <3>2, Zenon DEF Holders, HoldsRow
  <2>4. HoldsRow(claim, j) <=> \E n \in DOMAIN q : q[n] = j /\ ~(n = 1 /\ reply = "ok")
    BY <1>5 DEF HoldsRow
  <2>5. CASE reply = "ok" /\ j = i
    <3>1. w \in Holders(j) /\ Holders(j)' = Holders(j) \ {w}
      <4>1. \A n \in DOMAIN q : q[n] = j => n = 1
        BY <1>1, <2>5 DEF SendInv, SenderTypes
      <4>2. ~HoldsRow(claim, j)
        BY <2>4, <2>5, <4>1
      <4> QED BY <1>1, <1>6, <2>3, <2>5, <4>2
    <3>2. Cardinality(Holders(j)') = Cardinality(Holders(j)) - 1
      BY <2>2, <3>1, FS_RemoveElement
    <3>3. deliveries'[j] = row
      BY <1>11, <2>5
    <3> QED BY <1>8, <1>9, <2>1, <2>2, <2>5, <3>2, <3>3 DEF RowType, Waits
  <2>6. CASE ~(reply = "ok" /\ j = i)
    <3>1. HoldsRow(claim, j) <=> w \in Holders(j)
      BY <1>1, <2>3, <2>4, <2>6
    <3>2. Holders(j)' = Holders(j)
      BY <1>6, <3>1
    <3>3. CASE j = i /\ reply = "unclear"
      <4>1. deliveries'[j] = row
        BY <1>11, <3>3
      <4> QED BY <1>8, <1>9, <2>1, <2>2, <3>2, <3>3, <4>1 DEF RowType, Waits
    <3>4. CASE ~(j = i /\ reply = "unclear")
      <4>1. deliveries'[j] = deliveries[j]
        BY <1>11, <2>6, <3>4
      <4> QED BY <2>1, <3>2, <4>1
    <3> QED BY <3>3, <3>4
  <2> QED BY <2>5, <2>6
<1> QED BY <1>12, <1>13, <1>14 DEF SendInv

\* What is left of a sequence without its first element.
LEMMA TailFacts ==
  ASSUME NEW S, NEW s \in Seq(S), s # << >>
  PROVE  /\ Tail(s) \in Seq(S) /\ DOMAIN Tail(s) = 1..(Len(s) - 1) /\ Len(Tail(s)) = Len(s) - 1
         /\ \A n \in 1..(Len(s) - 1) : Tail(s)[n] = s[n + 1]
OBVIOUS

\* A step that changes row i only.
LEMMA OneRow ==
  ASSUME RowTypes, NEW i \in 1..Len(deliveries), NEW row, RowType(row),
         deliveries' = [deliveries EXCEPT ![i] = row]
  PROVE  /\ RowTypes' /\ Len(deliveries') = Len(deliveries) /\ deliveries'[i] = row
         /\ \A j \in 1..Len(deliveries) : j # i => deliveries'[j] = deliveries[j]
<1>1. PICK L \in Nat : L = Len(deliveries) /\ deliveries = [n \in 1..L |-> deliveries[n]]
  BY DEF RowTypes
<1>2. deliveries' = [n \in 1..L |-> IF n = i THEN row ELSE deliveries[n]]
  BY <1>1
<1>3. Len(deliveries') = L
  BY <1>2
<1> QED BY <1>1, <1>2, <1>3 DEF RowTypes

\* The first of a sender's rows is done with.
LEMMA CompleteKeepsSends ==
  ASSUME SendInv, NEW w \in Workers, _complete_attempt(w)
  PROVE  SendInv'
<1> DEFINE q == senders[w].queue
<1>1. /\ q # << >> /\ senders[w].reply # None
      /\ Head(q) = q[1] /\ Head(q) \in 1..Len(deliveries) /\ 1 \in DOMAIN q /\ senders[w] \in Claim
      /\ Len(q) \in Nat /\ DOMAIN q = 1..Len(q)
  BY SenderFacts DEF _complete_attempt
<1>2. PICK i \in 1..Len(deliveries) : i = Head(q) /\ i = q[1]
  BY <1>1
<1>3. PICK reply \in Replies : reply = senders[w].reply
  BY <1>1 DEF Claim
<1>4. PICK claim : claim = IF Len(q) = 1 THEN Idle
                           ELSE [senders[w] EXCEPT !.queue = Tail(q), !.reply = None]
  OBVIOUS
<1>5. senders' = [senders EXCEPT ![w] = claim]
  BY <1>4 DEF _complete_attempt
<1>6. q \in Seq(Nat)
  BY <1>1 DEF Claim
<1>7. /\ claim \in Claim /\ claim.reply = None
      /\ \A n \in DOMAIN claim.queue : n + 1 \in DOMAIN q /\ claim.queue[n] = q[n + 1]
      /\ \A n \in DOMAIN q : n # 1 => n - 1 \in DOMAIN claim.queue
  <2>1. CASE Len(q) = 1
    <3>1. claim = Idle
      BY <1>4, <2>1
    <3>2. << >> \in Seq(Nat) /\ DOMAIN << >> = {}
      OBVIOUS
    <3>3. claim \in Claim /\ claim.reply = None /\ claim.queue = << >>
      BY <3>1, <3>2 DEF Idle, Claim
    <3>4. \A n \in DOMAIN q : n = 1
      BY <1>1, <2>1
    <3> QED BY <3>2, <3>3, <3>4
  <2>2. CASE Len(q) # 1
    <3>1. PICK tail \in Seq(Nat) : tail = Tail(q)
      BY <1>1, <1>6, TailFacts
    <3>2. /\ Len(tail) = Len(q) - 1 /\ DOMAIN tail = 1..(Len(q) - 1)
          /\ \A n \in 1..(Len(q) - 1) : tail[n] = q[n + 1]
      BY <1>1, <1>6, <3>1, TailFacts
    <3>3. claim \in Claim /\ claim.reply = None /\ claim.queue = tail
      BY <1>1, <1>4, <2>2, <3>1 DEF Claim
    <3>4. PICK L \in Nat : L = Len(q) /\ DOMAIN q = 1..L /\ DOMAIN tail = 1..(L - 1)
      BY <1>1, <3>2
    <3>5. \A n \in 1..(L - 1) : n + 1 \in 1..L
      BY <3>4
    <3>6. \A n \in 1..L : n # 1 => n - 1 \in 1..(L - 1)
      BY <3>4
    <3> QED BY <3>2, <3>3, <3>4, <3>5, <3>6
  <2> QED BY <2>1, <2>2
<1>8. None # "ok"
  BY NotificationsAssumption
<1>9. \A j : HoldsRow(claim, j) <=> \E n \in DOMAIN q : n # 1 /\ q[n] = j
  <2> TAKE j
  <2>1. ASSUME HoldsRow(claim, j) PROVE \E n \in DOMAIN q : n # 1 /\ q[n] = j
    <3>1. PICK n \in DOMAIN claim.queue : claim.queue[n] = j
      BY <2>1 DEF HoldsRow
    <3>2. n + 1 \in DOMAIN q /\ q[n + 1] = j
      BY <1>7, <3>1
    <3>3. n + 1 # 1
      <4>1. DOMAIN claim.queue \subseteq Nat \ {0}
        BY <1>7 DEF Claim
      <4> QED BY <3>1, <4>1
    <3> QED BY <3>2, <3>3
  <2>2. ASSUME NEW n \in DOMAIN q, n # 1, q[n] = j PROVE HoldsRow(claim, j)
    <3>1. n - 1 \in DOMAIN claim.queue /\ claim.queue[n - 1] = q[(n - 1) + 1]
      BY <1>7, <2>2
    <3>2. (n - 1) + 1 = n
      BY <1>1
    <3>3. claim.reply # "ok"
      BY <1>7, <1>8
    <3> QED BY <2>2, <3>1, <3>2, <3>3 DEF HoldsRow
  <2> QED BY <2>1, <2>2
<1>10. /\ \A j : HoldsRow(claim, j) => Holders(j)' = Holders(j) \cup {w}
       /\ \A j : ~HoldsRow(claim, j) => Holders(j)' = Holders(j) \ {w}
  BY <1>5, <1>7, OneSender
<1>11. PICK row : row = AttemptEnd(deliveries[i], reply)
  OBVIOUS
<1>12. RowType(deliveries[i])
  BY DEF SendInv, RowTypes
<1>13. /\ RowType(row) /\ row.received = deliveries[i].received
       /\ row.unknown = deliveries[i].unknown
       /\ reply = "ok" => Waits(row) = 0
       /\ Waits(row) \in {0, 1}
  BY <1>11, <1>12, EndedRow
<1>14. deliveries' = [deliveries EXCEPT ![i] = row]
  BY <1>2, <1>3, <1>11 DEF _complete_attempt
<1>15. /\ RowTypes' /\ Len(deliveries') = Len(deliveries) /\ deliveries'[i] = row
       /\ \A j \in 1..Len(deliveries) : j # i => deliveries'[j] = deliveries[j]
  BY <1>13, <1>14, OneRow DEF SendInv
<1>16. \A m, n \in DOMAIN q : q[m] = q[n] => m = n
  BY DEF SendInv, SenderTypes
<1>17. SenderTypes'
  <2>1. senders' \in [Workers -> Claim] /\ \A v \in Workers : v # w => senders'[v] = senders[v]
    BY <1>5, <1>7 DEF SendInv, SenderTypes
  <2>2. senders'[w] = claim
    BY <1>5 DEF SendInv, SenderTypes
  <2>3. \A n \in DOMAIN claim.queue : claim.queue[n] \in 1..Len(deliveries)
    BY <1>7 DEF SendInv, SenderTypes
  <2>4. \A m, n \in DOMAIN claim.queue : claim.queue[m] = claim.queue[n] => m = n
    <3> TAKE m, n \in DOMAIN claim.queue
    <3> HAVE claim.queue[m] = claim.queue[n]
    <3>1. m + 1 \in DOMAIN q /\ n + 1 \in DOMAIN q /\ q[m + 1] = q[n + 1]
      BY <1>7
    <3>2. m + 1 = n + 1
      BY <1>16, <3>1
    <3>3. m \in Nat /\ n \in Nat
      BY <1>7 DEF Claim
    <3> QED BY <3>2, <3>3
  <2> QED BY <1>15, <2>1, <2>2, <2>3, <2>4 DEF SendInv, SenderTypes
<1>18. SendsLeft'
  <2> SUFFICES ASSUME NEW j \in 1..Len(deliveries)
               PROVE  deliveries'[j].received + Cardinality(Holders(j)') + Waits(deliveries'[j])
                        <= 1 + deliveries'[j].unknown
    BY <1>15 DEF SendsLeft
  <2>1. deliveries[j].received + Cardinality(Holders(j)) + Waits(deliveries[j])
          <= 1 + deliveries[j].unknown /\ RowType(deliveries[j])
    BY DEF SendInv, SendsLeft, RowTypes
  <2>2. IsFiniteSet(Holders(j)) /\ Cardinality(Holders(j)) \in Nat
    BY HoldersCounted
  <2>3. w \in Holders(j) <=> \E n \in DOMAIN q : q[n] = j /\ ~(n = 1 /\ reply = "ok")
    BY <1>3 DEF Holders, HoldsRow
  <2>4. CASE j # i
    <3>1. HoldsRow(claim, j) <=> w \in Holders(j)
      BY <1>2, <1>9, <2>3, <2>4
    <3>2. Holders(j)' = Holders(j)
      BY <1>10, <3>1
    <3> QED BY <1>15, <2>1, <2>4, <3>2
  <2>5. CASE j = i
    <3>1. ~HoldsRow(claim, j)
      BY <1>1, <1>2, <1>9, <1>16, <2>5
    <3>2. Holders(j)' = Holders(j) \ {w}
      BY <1>10, <3>1
    <3>3. w \in Holders(j) <=> reply # "ok"
      BY <1>1, <1>2, <1>16, <2>3, <2>5
    <3>4. Cardinality(Holders(j)') = IF reply # "ok" THEN Cardinality(Holders(j)) - 1
                                     ELSE Cardinality(Holders(j))
      BY <2>2, <3>2, <3>3, FS_RemoveElement
    <3>5. deliveries'[j] = row
      BY <1>15, <2>5
    <3>6. Waits(deliveries[j]) \in {0, 1}
      BY DEF Waits
    <3> QED BY <1>13, <2>1, <2>2, <2>5, <3>4, <3>5, <3>6 DEF RowType
  <2> QED BY <2>4, <2>5
<1> QED BY <1>15, <1>17, <1>18 DEF SendInv

\* A sender that stops lets go of its rows, which stay claimed.
LEMMA StopKeepsSends ==
  ASSUME SendInv, NEW w \in Workers, sender_stops(w)
  PROVE  SendInv'
<1>1. Idle \in Claim /\ Idle.queue = << >> /\ DOMAIN << >> = {}
  <2>1. << >> \in Seq(Nat) /\ DOMAIN << >> = {}
    OBVIOUS
  <2> QED BY <2>1 DEF Idle, Claim
<1>2. senders' = [senders EXCEPT ![w] = Idle] /\ deliveries' = deliveries
  BY DEF sender_stops
<1>3. \A i : ~HoldsRow(Idle, i)
  BY <1>1 DEF HoldsRow
<1>4. \A i : Holders(i)' = Holders(i) \ {w}
  BY <1>1, <1>2, <1>3, OneSender
<1>5. SenderTypes'
  BY <1>1, <1>2 DEF SendInv, SenderTypes
<1>6. SendsLeft'
  <2> SUFFICES ASSUME NEW j \in 1..Len(deliveries)
               PROVE  deliveries[j].received + Cardinality(Holders(j)') + Waits(deliveries[j])
                        <= 1 + deliveries[j].unknown
    BY <1>2 DEF SendsLeft
  <2>1. deliveries[j].received + Cardinality(Holders(j)) + Waits(deliveries[j])
          <= 1 + deliveries[j].unknown /\ RowType(deliveries[j])
    BY DEF SendInv, SendsLeft, RowTypes
  <2>2. IsFiniteSet(Holders(j)) /\ Cardinality(Holders(j)) \in Nat
    BY HoldersCounted
  <2>3. Cardinality(Holders(j)') <= Cardinality(Holders(j)) /\ Cardinality(Holders(j)') \in Nat
    BY <1>4, <2>2, FS_RemoveElement, HoldersCounted
  <2> QED BY <2>1, <2>2, <2>3, SMTT(30) DEF RowType, Waits
<1>7. RowTypes'
  BY <1>2 DEF SendInv, RowTypes
<1> QED BY <1>5, <1>6, <1>7 DEF SendInv

\* Retrying by hand turns one way of waiting into another.
LEMMA RetryKeepsSends ==
  ASSUME SendInv, NEW i \in DOMAIN deliveries, NEW kind, NEW r, RetryFailed(i, kind, r)
  PROVE  SendInv'
<1>1. i \in 1..Len(deliveries) /\ RowType(deliveries[i])
  BY DEF SendInv, RowTypes
<1>2. PICK row : row = [deliveries[i] EXCEPT !.status = "retrying", !.next = 0, !.lease = 0, !.retry = r,
                          !.max = IF @ > deliveries[i].attempts THEN @ ELSE deliveries[i].attempts + 1]
  OBVIOUS
<1>3. /\ deliveries' = [deliveries EXCEPT ![i] = row] /\ senders' = senders
      /\ deliveries[i].status = "failed"
  BY <1>2 DEF RetryFailed
<1>4. /\ DOMAIN row = DOMAIN deliveries[i] /\ row.status = "retrying"
      /\ row.received = deliveries[i].received /\ row.unknown = deliveries[i].unknown
  BY <1>1, <1>2 DEF RowType
<1>5. RowType(row) /\ Waits(row) = Waits(deliveries[i])
  BY <1>1, <1>3, <1>4 DEF RowType, Waits, RowStatuses, Again
<1>6. /\ RowTypes' /\ Len(deliveries') = Len(deliveries) /\ deliveries'[i] = row
      /\ \A j \in 1..Len(deliveries) : j # i => deliveries'[j] = deliveries[j]
  BY <1>1, <1>3, <1>5, OneRow DEF SendInv
<1>7. SenderTypes'
  BY <1>3, <1>6 DEF SendInv, SenderTypes
<1>8. \A j : Holders(j)' = Holders(j)
  BY <1>3 DEF Holders
<1>9. SendsLeft'
  <2> SUFFICES ASSUME NEW j \in 1..Len(deliveries)
               PROVE  deliveries'[j].received + Cardinality(Holders(j)) + Waits(deliveries'[j])
                        <= 1 + deliveries'[j].unknown
    BY <1>6, <1>8 DEF SendsLeft
  <2>1. CASE j = i
    BY <1>4, <1>5, <1>6, <2>1 DEF SendInv, SendsLeft
  <2>2. CASE j # i
    BY <1>6, <2>2 DEF SendInv, SendsLeft
  <2> QED BY <2>1, <2>2
<1> QED BY <1>6, <1>7, <1>9 DEF SendInv

\* Time moves what is left of waits and leases only.
LEMMA TimeKeepsSends ==
  ASSUME SendInv, time_passes PROVE SendInv'
<1>1. PICK L \in Nat : L = Len(deliveries) /\ DOMAIN deliveries = 1..L
  BY DEF SendInv, RowTypes
<1>2. deliveries' = [i \in 1..L |-> Elapsed(deliveries[i])] /\ senders' = senders
  BY <1>1 DEF time_passes
<1>3. Len(deliveries') = L
  BY <1>2
<1>4. \A i \in 1..L : /\ RowType(deliveries'[i]) /\ deliveries'[i].received = deliveries[i].received
                      /\ deliveries'[i].unknown = deliveries[i].unknown
                      /\ Waits(deliveries'[i]) = Waits(deliveries[i])
  BY <1>1, <1>2, ElapsedRow DEF SendInv, RowTypes
<1>5. RowTypes'
  BY <1>2, <1>3, <1>4 DEF RowTypes
<1>6. SenderTypes'
  BY <1>1, <1>2, <1>3 DEF SendInv, SenderTypes
<1>7. \A j : Holders(j)' = Holders(j)
  BY <1>2 DEF Holders
<1>8. SendsLeft'
  BY <1>1, <1>3, <1>4, <1>7 DEF SendInv, SendsLeft
<1> QED BY <1>5, <1>6, <1>8 DEF SendInv

\* Taking back lapsed claims and claiming what is due.
LEMMA ClaimKeepsSends ==
  ASSUME SendInv, NEW w \in Workers, NEW kind \in {"email", "webhook"}, claim_due(w, kind)
  PROVE  SendInv'
<1> DEFINE back == First({i \in DOMAIN deliveries : Lapsed(deliveries[i], kind)}, Batch)
<1>1. PICK rows : rows = _recover_expired_claims(kind)
  OBVIOUS
<1>2. PICK due : due = First({i \in DOMAIN rows : Claimable(rows[i], kind)}, Batch)
  OBVIOUS
<1>3. PICK queue \in [1..Cardinality(due) -> due] :
        /\ \A i, j \in DOMAIN queue : i < j => queue[i] < queue[j]
        /\ senders' = IF due = {} THEN senders
                      ELSE [senders EXCEPT ![w] = [kind |-> kind, queue |-> queue, reply |-> None]]
  BY <1>1, <1>2 DEF claim_due, Ascending
<1>4. /\ senders[w] = Idle
      /\ deliveries' = [i \in DOMAIN rows |-> IF i \in due THEN Claimed(rows[i]) ELSE rows[i]]
  BY <1>1, <1>2 DEF claim_due
<1>5. PICK L \in Nat : L = Len(deliveries) /\ DOMAIN deliveries = 1..L
  BY DEF SendInv, RowTypes
<1>6. rows = [i \in 1..L |-> IF i \in back THEN Recovered(deliveries[i]) ELSE deliveries[i]]
  BY <1>1, <1>5 DEF _recover_expired_claims
<1>7. \A i \in back : i \in 1..L /\ deliveries[i].status = "sending"
  BY <1>5 DEF First, Lapsed
<1>8. due \subseteq 1..L /\ \A i \in due : rows[i].status \in {"pending", "retrying"}
  BY <1>2, <1>6 DEF First, Claimable
<1> HIDE DEF back
<1>9. \A i \in 1..L : /\ RowType(deliveries[i]) /\ RowType(rows[i])
                      /\ rows[i].received + Waits(rows[i]) + deliveries[i].unknown
                           <= deliveries[i].received + Waits(deliveries[i]) + rows[i].unknown
                      /\ rows[i].received = deliveries[i].received
  <2> TAKE i \in 1..L
  <2>1. RowType(deliveries[i])
    BY <1>5 DEF SendInv, RowTypes
  <2>2. CASE i \in back
    <3>1. rows[i] = Recovered(deliveries[i]) /\ deliveries[i].status = "sending"
      BY <1>6, <1>7, <2>2
    <3>2. Waits(deliveries[i]) \in {0, 1}
      BY DEF Waits
    <3> QED BY <2>1, <3>1, <3>2, RecoveredRow DEF RowType
  <2>3. CASE i \notin back
    <3>1. rows[i] = deliveries[i]
      BY <1>6, <2>3
    <3> QED BY <2>1, <3>1 DEF RowType, Waits
  <2> QED BY <2>2, <2>3
<1>10. deliveries' = [i \in 1..L |-> IF i \in due THEN Claimed(rows[i]) ELSE rows[i]]
  BY <1>4, <1>6
<1>11. Len(deliveries') = L
  BY <1>10
<1>12. \A i \in due : Waits(rows[i]) = 1
  BY <1>8 DEF Waits, Again
<1>13. \A i \in 1..L : /\ RowType(deliveries'[i])
                       /\ deliveries'[i].received = rows[i].received
                       /\ deliveries'[i].unknown = rows[i].unknown
                       /\ Waits(deliveries'[i]) = IF i \in due THEN 0 ELSE Waits(rows[i])
  <2> TAKE i \in 1..L
  <2>1. CASE i \in due
    BY <1>9, <1>10, <2>1, ClaimedRow
  <2>2. CASE i \notin due
    BY <1>9, <1>10, <2>2
  <2> QED BY <2>1, <2>2
<1>14. RowTypes'
  BY <1>10, <1>11, <1>13 DEF RowTypes
<1>15. IsFiniteSet(due) /\ Cardinality(due) \in Nat
  <2>1. IsFiniteSet(1..L)
    BY FS_Interval
  <2> QED BY <1>8, <2>1, FS_Subset, FS_CardinalityType
<1>16. queue \in Seq(Nat) /\ DOMAIN queue = 1..Cardinality(due)
  <2>1. due \subseteq Nat
    BY <1>8
  <2>2. PICK n \in Nat : n = Cardinality(due)
    BY <1>15
  <2>3. queue \in [1..n -> Nat]
    BY <1>3, <2>1, <2>2
  <2> QED BY <2>2, <2>3
<1>17. PICK claim \in Claim : claim = [kind |-> kind, queue |-> queue, reply |-> None]
  BY <1>16 DEF Claim
<1>18. claim.queue = queue /\ claim.reply = None
  BY <1>17 DEF Claim
<1>19. \A m, n \in DOMAIN queue : queue[m] = queue[n] => m = n
  <2> TAKE m, n \in DOMAIN queue
  <2>1. m \in Nat /\ n \in Nat /\ queue[m] \in Nat /\ queue[n] \in Nat
    BY <1>15, <1>16
  <2>2. (m < n => queue[m] < queue[n]) /\ (n < m => queue[n] < queue[m])
    BY <1>3
  <2> QED BY <2>1, <2>2
<1>20. SenderTypes'
  <2>1. senders' = senders \/ senders' = [senders EXCEPT ![w] = claim]
    BY <1>3, <1>17
  <2>2. \A n \in DOMAIN queue : queue[n] \in 1..L
    BY <1>3, <1>8
  <2>3. CASE senders' = senders
    BY <1>5, <1>11, <2>3 DEF SendInv, SenderTypes
  <2>4. CASE senders' = [senders EXCEPT ![w] = claim]
    BY <1>5, <1>11, <1>18, <1>19, <2>2, <2>4, ZenonT(30) DEF SendInv, SenderTypes
  <2> QED BY <2>1, <2>3, <2>4
<1>21. \A i : w \notin Holders(i)
  BY <1>4 DEF Holders, HoldsRow, Idle
<1>22. \A i : (i \in due => Cardinality(Holders(i)') <= Cardinality(Holders(i)) + 1)
              /\ (i \notin due => Holders(i)' = Holders(i))
  <2> TAKE i
  <2>1. CASE due = {}
    BY <1>3, <2>1 DEF Holders
  <2>2. CASE due # {}
    <3>1. senders' = [senders EXCEPT ![w] = claim]
      BY <1>3, <1>17, <2>2
    <3>2. HoldsRow(claim, i) => i \in due
      BY <1>3, <1>18 DEF HoldsRow
    <3>3. /\ HoldsRow(claim, i) => Holders(i)' = Holders(i) \cup {w}
          /\ ~HoldsRow(claim, i) => Holders(i)' = Holders(i) \ {w}
      BY <3>1, OneSender
    <3>4. Holders(i)' = Holders(i) \/ (Holders(i)' = Holders(i) \cup {w} /\ i \in due)
      BY <1>21, <3>2, <3>3
    <3>5. /\ Cardinality(Holders(i)) \in Nat
          /\ Cardinality(Holders(i) \cup {w}) <= Cardinality(Holders(i)) + 1
      <4>1. PICK H : H = Holders(i)
        OBVIOUS
      <4>2. IsFiniteSet(H) /\ Cardinality(H) \in Nat
        BY <4>1, HoldersCounted
      <4>3. Cardinality(H \cup {w}) = IF w \in H THEN Cardinality(H) ELSE Cardinality(H) + 1
        BY <4>2, FS_AddElement
      <4> QED BY <4>1, <4>2, <4>3
    <3>6. Holders(i)' = Holders(i) => Cardinality(Holders(i)') <= Cardinality(Holders(i)) + 1
      BY <3>5
    <3>7. i \notin due => Holders(i)' = Holders(i)
      BY <3>4
    <3> QED BY <3>4, <3>5, <3>6, <3>7
  <2> QED BY <2>1, <2>2
<1>23. SendsLeft'
  <2> SUFFICES ASSUME NEW i \in 1..L
               PROVE  deliveries'[i].received + Cardinality(Holders(i)') + Waits(deliveries'[i])
                        <= 1 + deliveries'[i].unknown
    BY <1>11 DEF SendsLeft
  <2>1. deliveries[i].received + Cardinality(Holders(i)) + Waits(deliveries[i])
          <= 1 + deliveries[i].unknown
    BY <1>5 DEF SendInv, SendsLeft
  <2>2. Cardinality(Holders(i)) \in Nat /\ Cardinality(Holders(i)') \in Nat
    BY HoldersCounted
  <2>3. /\ Waits(rows[i]) \in {0, 1} /\ Waits(deliveries[i]) \in {0, 1}
        /\ deliveries[i].received \in Nat /\ deliveries[i].unknown \in Nat
        /\ rows[i].received \in Nat /\ rows[i].unknown \in Nat
    BY <1>9 DEF Waits, RowType
  <2>4. /\ deliveries'[i].received = rows[i].received /\ deliveries'[i].unknown = rows[i].unknown
        /\ Waits(deliveries'[i]) = IF i \in due THEN 0 ELSE Waits(rows[i])
        /\ i \in due => Waits(rows[i]) = 1
    BY <1>12, <1>13
  <2>5. /\ i \in due => Cardinality(Holders(i)') <= Cardinality(Holders(i)) + 1
        /\ i \notin due => Cardinality(Holders(i)') = Cardinality(Holders(i))
    BY <1>22
  <2>6. rows[i].received + Waits(rows[i]) + deliveries[i].unknown
          <= deliveries[i].received + Waits(deliveries[i]) + rows[i].unknown
    BY <1>9
  <2>7. PICK r, u, p, h, k \in Nat :
          /\ r = rows[i].received /\ u = rows[i].unknown /\ p = Waits(rows[i])
          /\ h = Cardinality(Holders(i)) /\ k = Cardinality(Holders(i)')
    BY <2>2, <2>3
  <2>8. r + h + p <= 1 + u
    <3>1. PICK a, b, c \in Nat : /\ a = deliveries[i].received /\ b = deliveries[i].unknown
                                 /\ c = Waits(deliveries[i])
      BY <2>3
    <3>2. r + p + b <= a + c + u /\ a + h + c <= 1 + b
      BY <2>1, <2>6, <2>7, <3>1
    <3>3. /\ r \in Nat /\ u \in Nat /\ p \in Nat /\ h \in Nat
          /\ a \in Nat /\ b \in Nat /\ c \in Nat
      OBVIOUS
    <3> QED BY <3>2, <3>3
  <2>9. k <= IF i \in due THEN h + 1 ELSE h
    BY <2>5, <2>7
  <2>10. r + k + (IF i \in due THEN 0 ELSE p) <= 1 + u
    BY <2>4, <2>7, <2>8, <2>9, SMTT(30)
  <2> QED BY <2>4, <2>7, <2>10
<1> QED BY <1>14, <1>20, <1>23 DEF SendInv

-----------------------------------------------------------------------------
(* What a step of the system is to the notifications *)

NotificationStep ==
  \/ UNCHANGED <<deliveries, senders>>
  \/ (\E new : alerts' = new /\ deliveries' = Enqueued(NewEvents(new))) /\ UNCHANGED senders
  \/ \E w \in Workers : \/ \E kind \in {"email", "webhook"} : claim_due(w, kind)
                        \/ send(w) \/ _complete_attempt(w) \/ sender_stops(w)
  \/ \E i \in DOMAIN deliveries, kind \in {"email", "webhook"}, r \in RetryRequests :
       RetryFailed(i, kind, r)
  \/ time_passes

\* The steps of the agent, of the server's sweeps and of retention.
LEMMA AgentNotifies ==
  ASSUME AgentNext PROVE NotificationStep
<1> USE DEF notificationVars, NotificationStep, SetAlerts, apply_check_result_to_alert
<1>1. ASSUME NEW k \in Keys, NEW s \in AgentStatuses, NEW skew \in Skews, make_result(k, s, skew)
      PROVE  NotificationStep
  BY <1>1 DEF make_result
<1>2. ASSUME NEW t \in Slots, NEW i \in DOMAIN results, submit_monitoring_results(t, i)
      PROVE  NotificationStep
  BY <1>2 DEF submit_monitoring_results
<1>3. ASSUME NEW t \in Slots, store_result(t) PROVE NotificationStep
  BY <1>3 DEF store_result
<1>4. ASSUME NEW t \in Slots, NEW k \in Keys, evaluate_checks(t, k) PROVE NotificationStep
  BY <1>4 DEF evaluate_checks
<1>5. ASSUME NEW t \in Slots, store_evaluation(t) PROVE NotificationStep
  BY <1>5 DEF store_evaluation
<1>6. ASSUME heartbeat PROVE NotificationStep
  BY <1>6 DEF heartbeat
<1>7. ASSUME NEW scan, NEW newest, submit_inventory(scan, newest) PROVE NotificationStep
  BY <1>7 DEF submit_inventory
<1>8. ASSUME prune_check_results PROVE NotificationStep
  BY <1>8 DEF prune_check_results
<1>9. ASSUME Tick PROVE NotificationStep
  BY <1>9 DEF Tick
<1> USE DEF NotificationStep
<1> QED BY <1>1, <1>2, <1>3, <1>4, <1>5, <1>6, <1>7, <1>8, <1>9 DEF AgentNext

\* The steps of operators.
LEMMA OperatorNotifies ==
  ASSUME OperatorNext PROVE NotificationStep
<1>1. ASSUME NEW new, SetAlerts(new) PROVE NotificationStep
  BY <1>1 DEF SetAlerts, NotificationStep
<1>2. ASSUME UNCHANGED notificationVars PROVE NotificationStep
  BY <1>2 DEF notificationVars, NotificationStep
<1>3. ASSUME NEW p \in Policies, NEW c \in CheckLists, create_monitoring_policy(p, c)
      PROVE  NotificationStep
  BY <1>2, <1>3 DEF create_monitoring_policy
<1>4. ASSUME NEW p \in Policies, NEW c \in CheckLists, NEW on \in BOOLEAN,
             revise_monitoring_policy(p, c, on)
      PROVE  NotificationStep
  BY <1>1, <1>4 DEF revise_monitoring_policy
<1>5. ASSUME NEW p \in Policies, delete_monitoring_policy(p) PROVE NotificationStep
  BY <1>1, <1>5 DEF delete_monitoring_policy
<1>6. ASSUME NEW w \in WindowTerms, create_maintenance_window(w) \/ delete_maintenance_window(w)
      PROVE  NotificationStep
  BY <1>2, <1>6 DEF create_maintenance_window, delete_maintenance_window
<1>7. ASSUME NEW r \in ActionRequests, NEW a \in Pairs, NEW kind, compose_action(r, a, kind)
      PROVE  NotificationStep
  BY <1>2, <1>7 DEF compose_action
<1>8. ASSUME NEW r \in ActionRequests,
             acknowledge_monitoring_alert(r) \/ assign_monitoring_alert(r)
               \/ comment_on_monitoring_alert(r) \/ resolve_monitoring_alert(r)
      PROVE  NotificationStep
  BY <1>1, <1>8 DEF acknowledge_monitoring_alert, assign_monitoring_alert,
                    comment_on_monitoring_alert, resolve_monitoring_alert, Annotate, Act
<1> QED BY <1>3, <1>4, <1>5, <1>6, <1>7, <1>8 DEF OperatorNext

\* The steps of senders, of time and of those who administer the endpoints.
LEMMA SendersNotify ==
  ASSUME SendersNext PROVE NotificationStep
<1>1. ASSUME NEW w \in Workers, SenderStep(w) PROVE NotificationStep
  BY <1>1 DEF SenderStep, NotificationStep
<1>2. ASSUME NEW w \in Workers, sender_stops(w) PROVE NotificationStep
  BY <1>2 DEF NotificationStep
<1>3. ASSUME TimePasses PROVE NotificationStep
  BY <1>3 DEF TimePasses, NotificationStep
<1>4. ASSUME NEW i \in DOMAIN deliveries, NEW r \in RetryRequests,
             retry_monitoring_alert_email_delivery(i, r)
               \/ retry_monitoring_alert_webhook_delivery(i, r)
      PROVE  NotificationStep
  BY <1>4 DEF retry_monitoring_alert_email_delivery, retry_monitoring_alert_webhook_delivery,
              NotificationStep
<1>5. ASSUME NEW e \in Endpoints,
             \/ \E term \in EndpointTerms : create_webhook_endpoint(e, term) \/ update_webhook_endpoint(e, term)
             \/ rotate_webhook_endpoint_secret(e) \/ delete_webhook_endpoint(e)
      PROVE  NotificationStep
  BY <1>5 DEF create_webhook_endpoint, update_webhook_endpoint, rotate_webhook_endpoint_secret,
              delete_webhook_endpoint, NotificationStep
<1> QED BY <1>1, <1>2, <1>3, <1>4, <1>5 DEF SendersNext

\* A step of the outbox, or none, leaves the notifications alone.
LEMMA StepNotifies ==
  ASSUME [MonitoringNext]_monitoringVars PROVE NotificationStep
<1>1. CASE UNCHANGED monitoringVars
  BY <1>1 DEF monitoringVars, vars, notificationVars, NotificationStep
<1>2. CASE OutboxNext /\ UNCHANGED <<clock, lastSeen, patched, policies, windows, results, stored,
                                     observed, forgotten, alerts, actions, txns, notificationVars>>
  BY <1>2 DEF notificationVars, NotificationStep
<1>3. CASE Next
  BY <1>3, AgentNotifies, OperatorNotifies, SendersNotify DEF Next
<1> QED BY <1>1, <1>2, <1>3 DEF MonitoringNext

-----------------------------------------------------------------------------

\* There are no rows and no claims at the start.
LEMMA SendsInitially == MonitoringInit => SendInv
<1> SUFFICES ASSUME MonitoringInit PROVE SendInv
  OBVIOUS
<1>1. deliveries = << >> /\ senders = [w \in Workers |-> Idle]
  BY DEF MonitoringInit, Init, NotificationsInit
<1>2. Idle \in Claim /\ Idle.queue = << >> /\ DOMAIN << >> = {} /\ Len(<< >>) = 0
  <2>1. << >> \in Seq(Nat) /\ DOMAIN << >> = {} /\ Len(<< >>) = 0
    OBVIOUS
  <2> QED BY <2>1 DEF Idle, Claim
<1>3. RowTypes
  <2>1. << >> = [i \in 1..0 |-> << >>[i]] /\ Len(<< >>) = 0
    OBVIOUS
  <2> QED BY <1>1, <2>1 DEF RowTypes
<1>4. SenderTypes
  BY <1>1, <1>2 DEF SenderTypes
<1>5. SendsLeft
  BY <1>1, <1>2 DEF SendsLeft
<1> QED BY <1>3, <1>4, <1>5 DEF SendInv

\* The events of an update are finitely many, one per alert at most.
LEMMA FiniteEvents ==
  ASSUME NEW new PROVE IsFiniteSet(NewEvents(new))
<1> DEFINE D == {x \in Pairs : Len(new[x].events) > Len(alerts[x].events)}
           f == [a \in D |-> [type |-> new[a].events[Len(new[a].events)].type,
                              inWindow |-> new[a].suppressed, alert |-> a]]
<1>1. IsFiniteSet(Pairs)
  BY FS_Product, AlertsAssumption DEF Pairs
<1>2. IsFiniteSet(D)
  <2>1. D \in SUBSET Pairs
    OBVIOUS
  <2> HIDE DEF D
  <2> QED BY <1>1, <2>1, FS_Subset
<1>3. NewEvents(new) = {f[a] : a \in D} /\ DOMAIN f = D
  BY DEF NewEvents
<1> HIDE DEF D, f
<1> QED BY <1>2, <1>3, FiniteImage

\* Every step of the agent and the server keeps the sends in bounds.
LEMMA SendsStep == SendInv /\ [MonitoringNext]_monitoringVars => SendInv'
<1> SUFFICES ASSUME SendInv, [MonitoringNext]_monitoringVars PROVE SendInv'
  OBVIOUS
<1>1. NotificationStep
  BY StepNotifies
<1>2. CASE UNCHANGED <<deliveries, senders>>
  BY <1>2, RowsLeft
<1>3. ASSUME NEW new, deliveries' = Enqueued(NewEvents(new)), UNCHANGED senders PROVE SendInv'
  <2>1. PICK S : \E x \in Seq(S) : Enqueued(NewEvents(new)) = deliveries \o x /\ \A d \in S : NewRow(d)
    BY FiniteEvents, EnqueuedRows
  <2>2. PICK x \in Seq(S) : Enqueued(NewEvents(new)) = deliveries \o x /\ \A d \in S : NewRow(d)
    BY <2>1
  <2> QED BY <1>3, <2>2, EnqueueKeepsSends
<1>4. ASSUME NEW w \in Workers, NEW kind \in {"email", "webhook"}, claim_due(w, kind) PROVE SendInv'
  BY <1>4, ClaimKeepsSends
<1>5. ASSUME NEW w \in Workers, send(w) PROVE SendInv'
  BY <1>5, SendKeepsSends
<1>6. ASSUME NEW w \in Workers, _complete_attempt(w) PROVE SendInv'
  BY <1>6, CompleteKeepsSends
<1>7. ASSUME NEW w \in Workers, sender_stops(w) PROVE SendInv'
  BY <1>7, StopKeepsSends
<1>8. ASSUME NEW i \in DOMAIN deliveries, NEW kind \in {"email", "webhook"}, NEW r \in RetryRequests,
             RetryFailed(i, kind, r)
      PROVE  SendInv'
  BY <1>8, RetryKeepsSends
<1>9. CASE time_passes
  BY <1>9, TimeKeepsSends
<1> QED BY <1>1, <1>2, <1>3, <1>4, <1>5, <1>6, <1>7, <1>8, <1>9 DEF NotificationStep

(* A receiver hears of an event more than once only when the end of an earlier
   attempt was not seen, for any number of senders that overlap, stop, lose their
   claims and complete late, and any number of retries by hand: claim_due, send and
   _complete_attempt of email_notifications.py and webhook_notifications.py. *)
THEOREM ReceptionsBounded == MonitoringSpec => []RepeatsExplained
<1>1. SendInv => RepeatsExplained
  <2> SUFFICES ASSUME SendInv, NEW i \in DOMAIN deliveries
               PROVE  deliveries[i].received <= 1 + deliveries[i].unknown
    BY DEF RepeatsExplained
  <2>1. i \in 1..Len(deliveries)
    BY DEF SendInv, RowTypes
  <2>2. /\ deliveries[i].received + Cardinality(Holders(i)) + Waits(deliveries[i])
             <= 1 + deliveries[i].unknown
        /\ deliveries[i].received \in Nat /\ deliveries[i].unknown \in Nat
    BY <2>1 DEF SendInv, SendsLeft, RowTypes, RowType
  <2>3. Cardinality(Holders(i)) \in Nat
    BY HoldersCounted
  <2>4. Waits(deliveries[i]) \in {0, 1}
    BY DEF Waits
  <2> QED BY <2>2, <2>3, <2>4
<1> QED BY SendsInitially, SendsStep, <1>1, PTL DEF MonitoringSpec, monitoringVars

-----------------------------------------------------------------------------
(* Results and alerts: what they are made of *)

IsSeq(s) == Len(s) \in Nat /\ s = [n \in 1..Len(s) |-> s[n]]

ResultType(r) == /\ r.policy \in Policies /\ r.key \in Keys
                 /\ r.status \in Statuses /\ r.at \in Int

AlertFields == {"state", "gen", "occurrences", "total", "opened", "at", "last", "status",
                "version", "events", "failures", "suppressed"}

AlertType(al) ==
  /\ AlertFields \subseteq DOMAIN al
  /\ al.state \in {"absent", "open", "acknowledged", "resolved"}
  /\ al.gen \in Nat /\ al.version \in Nat /\ al.occurrences \in Nat /\ al.total \in Nat
  /\ al.opened \in Int /\ al.at \in Int /\ al.last \in Nat /\ al.status \in Statuses
  /\ IsSeq(al.events)

ActionType(ac) == ac.alert \in Pairs /\ ac.version \in Nat /\ ac.saw \in Nat

ResultTypes ==
  /\ clock \in Nat
  /\ IsSeq(results) /\ \A i \in 1..Len(results) : ResultType(results[i])
  /\ IsSeq(stored) /\ \A n \in 1..Len(stored) : stored[n] \in 1..Len(results)
  /\ observed \subseteq {stored[n] : n \in 1..Len(stored)}
  /\ txns = [t \in Slots |-> txns[t]]
  /\ \A t \in Slots : txns[t].op \in {"submit", "sweep"} => txns[t].id \in 1..Len(results)

AlertTypes ==
  /\ alerts = [a \in Pairs |-> alerts[a]]
  /\ \A a \in Pairs : AlertType(alerts[a]) /\ (alerts[a].state = "absent" => alerts[a] = NoAlert)
  /\ actions = [r \in ActionRequests |-> actions[r]]
  /\ \A r \in ActionRequests : actions[r] # None => ActionType(actions[r])

\* An element after a sequence's others.
LEMMA AppendFacts ==
  ASSUME NEW s, IsSeq(s), NEW x
  PROVE  /\ IsSeq(Append(s, x)) /\ Len(Append(s, x)) = Len(s) + 1
         /\ Append(s, x)[Len(s) + 1] = x
         /\ \A n \in 1..Len(s) : Append(s, x)[n] = s[n]
         /\ \A n \in 1..Len(Append(s, x)) : n \in 1..Len(s) \/ n = Len(s) + 1
<1> DEFINE T == {s[n] : n \in 1..Len(s)} \cup {x}
<1>1. s \in Seq(T) /\ x \in T /\ Len(s) \in Nat
  BY DEF IsSeq
<1> HIDE DEF T
<1>2. PICK u \in Seq(T) : u = Append(s, x)
  <2>1. Append(s, x) \in Seq(T)
    BY <1>1
  <2> QED BY <2>1
<1>3. Len(u) = Len(s) + 1 /\ u[Len(s) + 1] = x /\ \A n \in 1..Len(s) : u[n] = s[n]
  BY <1>1, <1>2
<1>4. Len(u) \in Nat /\ u = [n \in 1..Len(u) |-> u[n]]
  OBVIOUS
<1>5. \A n \in 1..Len(u) : n \in 1..Len(s) \/ n = Len(s) + 1
  BY <1>1, <1>3
<1> QED BY <1>2, <1>3, <1>4, <1>5 DEF IsSeq

-----------------------------------------------------------------------------
(* The updates of an alert *)

\* The events grow by at most one, made in the alert's generation, and a new
\* generation comes with a new version.
Appends(old, new, request) == \E ev : ev.request = request /\ new = Append(old, ev)

Follows(al, new, request) ==
  /\ AlertType(new)
  /\ new.version >= al.version /\ (new.version = al.version => new.gen = al.gen)
  /\ (new.state = "absent" => new = al)
  /\ \/ new.events = al.events
     \/ Appends(al.events, new.events, request)

\* Writing an event changes the history of the alert and nothing else.
LEMMA WithEventUpdate ==
  ASSUME NEW al, AlertType(al), NEW type, NEW request, NEW saw,
         NEW new, new = WithEvent(al, type, request, saw)
  PROVE  /\ AlertType(new)
         /\ \E ev : /\ ev.request = request /\ ev.gen = al.gen /\ ev.saw = saw
                    /\ new.events = Append(al.events, ev)
         /\ new.state = al.state /\ new.gen = al.gen /\ new.version = al.version
         /\ new.occurrences = al.occurrences /\ new.total = al.total
         /\ new.opened = al.opened /\ new.at = al.at /\ new.last = al.last
         /\ new.status = al.status /\ new.failures = al.failures
<1>1. PICK ev : ev = [type |-> type, gen |-> al.gen, request |-> request, saw |-> saw]
  OBVIOUS
<1>2. ev.request = request /\ ev.gen = al.gen /\ ev.saw = saw
  BY <1>1
<1>3. new = [al EXCEPT !.events = Append(al.events, ev)]
  BY <1>1 DEF WithEvent
<1>4. /\ DOMAIN new = DOMAIN al /\ new.events = Append(al.events, ev)
      /\ new.state = al.state /\ new.gen = al.gen /\ new.version = al.version
      /\ new.occurrences = al.occurrences /\ new.total = al.total
      /\ new.opened = al.opened /\ new.at = al.at /\ new.last = al.last
      /\ new.status = al.status /\ new.failures = al.failures
  BY <1>3 DEF AlertType, AlertFields
<1>5. IsSeq(new.events)
  BY <1>4, AppendFacts DEF AlertType
<1>6. AlertType(new)
  BY <1>4, <1>5 DEF AlertType
<1> QED BY <1>2, <1>4, <1>6

\* Resolving an alert, by whoever does.
LEMMA ResolveUpdate ==
  ASSUME NEW al, AlertType(al), NEW type, NEW request, NEW saw,
         NEW new, new = Resolve(al, type, request, saw)
  PROVE  /\ AlertType(new)
         /\ \E ev : /\ ev.request = request /\ ev.gen = al.gen /\ ev.saw = saw
                    /\ new.events = Append(al.events, ev)
         /\ new.state = "resolved" /\ new.gen = al.gen /\ new.version = al.version + 1
         /\ new.occurrences = al.occurrences /\ new.total = al.total
         /\ new.opened = al.opened /\ new.at = al.at /\ new.last = al.last
         /\ new.status = al.status /\ new.failures = al.failures
<1>1. PICK mid : mid = [al EXCEPT !.state = "resolved", !.suppressed = FALSE, !.version = @ + 1]
  OBVIOUS
<1>2. /\ DOMAIN mid = DOMAIN al /\ mid.events = al.events
      /\ mid.state = "resolved" /\ mid.gen = al.gen /\ mid.version = al.version + 1
      /\ mid.occurrences = al.occurrences /\ mid.total = al.total
      /\ mid.opened = al.opened /\ mid.at = al.at /\ mid.last = al.last
      /\ mid.status = al.status /\ mid.failures = al.failures
  BY <1>1 DEF AlertType, AlertFields
<1>3. AlertType(mid)
  BY <1>2 DEF AlertType
<1>4. new = WithEvent(mid, type, request, saw)
  BY <1>1 DEF Resolve
<1> QED BY <1>2, <1>3, <1>4, WithEventUpdate

\* A new generation.
LEMMA ReopenUpdate ==
  ASSUME NEW al, AlertType(al), NEW r, r.at \in Int, NEW new, new = Reopened(al, r)
  PROVE  /\ AlertType(new)
         /\ Appends(al.events, new.events, None)
         /\ new.state = "open" /\ new.gen = al.gen + 1 /\ new.version = al.version + 1
         /\ new.occurrences = 1 /\ new.total = al.total
         /\ new.at = al.at /\ new.last = al.last
         /\ new.status = al.status /\ new.failures = al.failures
<1>1. PICK mid : mid = [al EXCEPT !.state = "open", !.gen = @ + 1, !.occurrences = 1,
                                  !.opened = r.at, !.version = @ + 1]
  OBVIOUS
<1>2. /\ DOMAIN mid = DOMAIN al /\ mid.events = al.events
      /\ mid.state = "open" /\ mid.gen = al.gen + 1 /\ mid.version = al.version + 1
      /\ mid.occurrences = 1 /\ mid.total = al.total
      /\ mid.opened = r.at /\ mid.at = al.at /\ mid.last = al.last
      /\ mid.status = al.status /\ mid.failures = al.failures
  BY <1>1 DEF AlertType, AlertFields
<1>3. AlertType(mid)
  BY <1>2 DEF AlertType
<1>4. PICK type : new = WithEvent(mid, type, None, 0)
  BY <1>1 DEF Reopened
<1> QED BY <1>2, <1>3, <1>4, WithEventUpdate DEF Appends

\* The shell of an alert that was not there: its version is new.
LEMMA ShellUpdate ==
  ASSUME NEW al, AlertType(al), NEW r, r.status \in Statuses,
         NEW new, new = _ensure_alert_shell(al, r)
  PROVE  /\ AlertType(new) /\ new.state # "absent"
         /\ al.state # "absent" => new = al
         /\ al.state = "absent" =>
              /\ new.events = << >> /\ new.version = 1 /\ new.gen = 0 /\ new.last = 0
              /\ new.total = 0 /\ new.occurrences = 0 /\ new.failures = {}
              /\ new.state = "resolved" /\ new.status = r.status
<1>1. CASE al.state # "absent"
  BY <1>1 DEF _ensure_alert_shell
<1>2. CASE al.state = "absent"
  <2>1. new = [NoAlert EXCEPT !.state = "resolved", !.status = r.status, !.version = 1]
    BY <1>2 DEF _ensure_alert_shell
  <2>2. /\ AlertFields \subseteq DOMAIN new
        /\ new.events = << >> /\ new.version = 1 /\ new.gen = 0 /\ new.last = 0
        /\ new.total = 0 /\ new.occurrences = 0 /\ new.failures = {} /\ new.opened = 0
        /\ new.state = "resolved" /\ new.status = r.status /\ new.at = 0
    BY <2>1 DEF NoAlert, AlertFields
  <2>3. IsSeq(<< >>)
    <3>1. Len(<< >>) = 0 /\ << >> = [n \in 1..0 |-> << >>[n]]
      OBVIOUS
    <3> QED BY <3>1 DEF IsSeq
  <2>4. AlertType(new)
    BY <2>2, <2>3 DEF AlertType
  <2> QED BY <1>2, <2>2, <2>4
<1> QED BY <1>1, <1>2

\* A late result is counted and changes nothing else.
LEMMA LateUpdate ==
  ASSUME NEW al, AlertType(al), NEW i
  PROVE  LET new == CountedLate(al, i)
         IN  /\ AlertType(new) /\ new.events = al.events /\ new.state = al.state
             /\ new.gen = al.gen /\ new.version = al.version
             /\ new.at = al.at /\ new.last = al.last /\ new.status = al.status
             /\ \/ new.total = al.total /\ new.failures = al.failures
                   /\ new.occurrences = al.occurrences
                \/ new.total = al.total + 1 /\ new.failures = al.failures \cup {i}
                   /\ new.occurrences <= al.occurrences + 1
<1>1. CASE results[i].status = "ok"
  BY <1>1 DEF CountedLate
<1>2. CASE results[i].status # "ok"
  <2> DEFINE n   == IF Unresolved(al) /\ results[i].at >= al.opened
                    THEN al.occurrences + 1 ELSE al.occurrences
             new == [al EXCEPT !.total = al.total + 1, !.failures = al.failures \cup {i}, !.occurrences = n]
  <2>1. CountedLate(al, i) = new
    BY <1>2 DEF CountedLate
  <2>2. n \in Nat /\ n <= al.occurrences + 1
    BY DEF AlertType
  <2> HIDE DEF n
  <2>3. /\ DOMAIN new = DOMAIN al /\ new.events = al.events /\ new.state = al.state
        /\ new.gen = al.gen /\ new.version = al.version /\ new.opened = al.opened
        /\ new.at = al.at /\ new.last = al.last /\ new.status = al.status
        /\ new.total = al.total + 1 /\ new.failures = al.failures \cup {i} /\ new.occurrences = n
    BY DEF AlertType, AlertFields
  <2>4. AlertType(new)
    BY <2>2, <2>3 DEF AlertType
  <2> HIDE DEF new
  <2> QED BY <2>1, <2>2, <2>3, <2>4
<1> QED BY <1>1, <1>2

\* A result in order is shown, and settles whether the alert stands.
LEMMA NowUpdate ==
  ASSUME NEW al, AlertType(al), al.state # "absent", NEW i \in Nat, ResultType(results[i])
  PROVE  LET new == CountedNow(al, i)
         IN  /\ Follows(al, new, None)
             /\ new.at = results[i].at /\ new.last = i /\ new.status = results[i].status
             /\ new.status = "ok" => ~Unresolved(new)
             /\ \/ new.total = al.total /\ new.failures = al.failures
                   /\ new.occurrences = al.occurrences
                \/ new.total = al.total + 1 /\ new.failures = al.failures \cup {i}
                   /\ (new.occurrences <= al.occurrences + 1 \/ new.occurrences = 1)
<1> DEFINE r   == results[i]
           now == [al EXCEPT !.status = r.status, !.at = r.at, !.last = i]
           hit == [now EXCEPT !.suppressed = active_maintenance_windows(r.at) # {},
                              !.total = @ + 1, !.failures = @ \cup {i}]
<1>1. /\ DOMAIN now = DOMAIN al /\ now.events = al.events /\ now.state = al.state
      /\ now.gen = al.gen /\ now.version = al.version /\ now.opened = al.opened
      /\ now.at = r.at /\ now.last = i /\ now.status = r.status
      /\ now.total = al.total /\ now.failures = al.failures /\ now.occurrences = al.occurrences
  BY DEF AlertType, AlertFields
<1>2. AlertType(now)
  BY <1>1 DEF AlertType, ResultType
<1>3. /\ DOMAIN hit = DOMAIN now /\ hit.events = now.events /\ hit.state = now.state
      /\ hit.gen = now.gen /\ hit.version = now.version /\ hit.opened = now.opened
      /\ hit.at = now.at /\ hit.last = now.last /\ hit.status = now.status
      /\ hit.total = now.total + 1 /\ hit.failures = now.failures \cup {i}
      /\ hit.occurrences = now.occurrences
  <2> HIDE DEF now
  <2> QED BY <1>2 DEF AlertType, AlertFields
<1>4. AlertType(hit)
  <2> HIDE DEF now, hit
  <2> QED BY <1>2, <1>3 DEF AlertType
<1>5. CASE r.status = "ok" /\ ~Unresolved(al)
  <2> DEFINE new == [now EXCEPT !.suppressed = FALSE]
  <2>1. CountedNow(al, i) = new
    BY <1>5 DEF CountedNow
  <2> HIDE DEF now
  <2>2. /\ DOMAIN new = DOMAIN now /\ new.events = now.events /\ new.state = now.state
        /\ new.gen = now.gen /\ new.version = now.version /\ new.opened = now.opened
        /\ new.at = now.at /\ new.last = now.last /\ new.status = now.status
        /\ new.total = now.total /\ new.failures = now.failures
        /\ new.occurrences = now.occurrences
    BY <1>2 DEF AlertType, AlertFields
  <2> HIDE DEF new
  <2>3. AlertType(new)
    BY <1>2, <2>2 DEF AlertType
  <2> QED BY <1>1, <1>5, <2>1, <2>2, <2>3 DEF Follows, AlertType, Unresolved
<1>6. CASE r.status = "ok" /\ Unresolved(al)
  <2>1. CountedNow(al, i) = Resolve(now, "automatic_recovery", None, 0)
    BY <1>6 DEF CountedNow
  <2> HIDE DEF now
  <2>3. PICK new : new = Resolve(now, "automatic_recovery", None, 0)
    OBVIOUS
  <2>4. /\ AlertType(new) /\ new.state = "resolved" /\ new.gen = now.gen
        /\ Appends(now.events, new.events, None)
        /\ new.version = now.version + 1 /\ new.total = now.total
        /\ new.occurrences = now.occurrences /\ new.failures = now.failures
        /\ new.at = now.at /\ new.last = now.last /\ new.status = now.status
    BY <1>2, <2>3, ResolveUpdate DEF Appends
  <2> QED BY <1>1, <1>6, <2>1, <2>3, <2>4 DEF Follows, AlertType, Unresolved
<1>7. CASE r.status # "ok" /\ Unresolved(al)
  <2> DEFINE new == [hit EXCEPT !.occurrences = hit.occurrences + 1]
  <2>1. CountedNow(al, i) = new
    BY <1>7 DEF CountedNow
  <2> HIDE DEF now, hit
  <2>2. /\ DOMAIN new = DOMAIN hit /\ new.events = hit.events /\ new.state = hit.state
        /\ new.gen = hit.gen /\ new.version = hit.version /\ new.opened = hit.opened
        /\ new.at = hit.at /\ new.last = hit.last /\ new.status = hit.status
        /\ new.total = hit.total /\ new.failures = hit.failures
        /\ new.occurrences = hit.occurrences + 1
    BY <1>4 DEF AlertType, AlertFields
  <2> HIDE DEF new
  <2>3. AlertType(new)
    BY <1>4, <2>2 DEF AlertType
  <2> QED BY <1>1, <1>3, <1>7, <2>1, <2>2, <2>3 DEF Follows, AlertType
<1>8. CASE r.status # "ok" /\ ~Unresolved(al)
  <2>1. CountedNow(al, i) = Reopened(hit, r)
    BY <1>8 DEF CountedNow
  <2>2. r.at \in Int
    BY DEF ResultType
  <2> HIDE DEF now, hit, r
  <2>3. PICK new : new = Reopened(hit, r)
    OBVIOUS
  <2>4. /\ AlertType(new)
        /\ Appends(hit.events, new.events, None)
        /\ new.state = "open" /\ new.gen = hit.gen + 1 /\ new.version = hit.version + 1
        /\ new.occurrences = 1 /\ new.total = hit.total
        /\ new.at = hit.at /\ new.last = hit.last
        /\ new.status = hit.status /\ new.failures = hit.failures
    BY <1>4, <2>2, <2>3, ReopenUpdate
  <2> QED BY <1>1, <1>3, <1>8, <2>1, <2>3, <2>4 DEF Follows, AlertType, r
<1> QED BY <1>5, <1>6, <1>7, <1>8

\* Somebody other than an operator resolves an alert that stands.
LEMMA ResolveFollows ==
  ASSUME NEW al, AlertType(al), NEW type, NEW new, new = Resolve(al, type, None, 0)
  PROVE  Follows(al, new, None) /\ new.state = "resolved"
<1>1. /\ AlertType(new) /\ Appends(al.events, new.events, None)
      /\ new.state = "resolved" /\ new.gen = al.gen /\ new.version = al.version + 1
  BY ResolveUpdate DEF Appends
<1> QED BY <1>1 DEF Follows, AlertType

\* What result i makes of the alert al of its own check.
OwnAlert(al, i) ==
  IF (results[i].status = "ok" /\ al.state = "absent") \/ i \in observed THEN al
  ELSE LET shell == _ensure_alert_shell(al, results[i])
       IN  IF OutOfOrder(shell, i) THEN CountedLate(shell, i) ELSE CountedNow(shell, i)

\* The alert of the check the result is of.
LEMMA OwnUpdate ==
  ASSUME NEW i \in Nat \ {0}, ResultType(results[i]), i \notin observed, NEW al, AlertType(al),
         al.state = "absent" => al = NoAlert,
         ~(results[i].status = "ok" /\ al.state = "absent"),
         NEW new, new = OwnAlert(al, i)
  PROVE  /\ Follows(al, new, None) /\ new.state # "absent"
         /\ \/ /\ al.state # "absent" /\ OutOfOrder(al, i) /\ new.at = al.at /\ new.last = al.last
               /\ new.status = al.status /\ new.state = al.state
            \/ /\ ~OutOfOrder(al, i) /\ new.at = results[i].at /\ new.last = i
               /\ new.status = "ok" => ~Unresolved(new)
         /\ \/ new.total = al.total /\ new.failures = al.failures
               /\ new.occurrences = al.occurrences
            \/ new.total = al.total + 1 /\ new.failures = al.failures \cup {i}
               /\ (new.occurrences <= al.occurrences + 1 \/ new.occurrences = 1)
<1>1. PICK shell : shell = _ensure_alert_shell(al, results[i])
  OBVIOUS
<1>2. /\ AlertType(shell) /\ shell.state # "absent"
      /\ al.state # "absent" => shell = al
      /\ al.state = "absent" =>
           /\ shell.events = << >> /\ shell.version = 1 /\ shell.gen = 0 /\ shell.last = 0
           /\ shell.total = 0 /\ shell.occurrences = 0 /\ shell.failures = {}
  BY <1>1, ShellUpdate DEF ResultType
<1>3. al.state = "absent" =>
        /\ al.events = << >> /\ al.version = 0 /\ al.gen = 0 /\ al.last = 0
        /\ al.total = 0 /\ al.occurrences = 0 /\ al.failures = {}
  BY DEF NoAlert
<1>4. OutOfOrder(shell, i) <=> al.state # "absent" /\ OutOfOrder(al, i)
  BY <1>2, <1>3 DEF OutOfOrder
<1>5. shell.total = al.total /\ shell.occurrences = al.occurrences /\ shell.failures = al.failures
  <2>1. CASE al.state = "absent"
    BY <1>2, <1>3, <2>1
  <2>2. CASE al.state # "absent"
    BY <1>2, <2>2
  <2> QED BY <2>1, <2>2
<1>6. ASSUME Follows(shell, new, None) PROVE Follows(al, new, None) /\ new.state # "absent"
  <2>1. CASE al.state # "absent"
    BY <1>2, <1>6, <2>1 DEF Follows
  <2>2. CASE al.state = "absent"
    <3>1. /\ AlertType(new) /\ new.version >= 1 /\ new.version \in Nat /\ new.state # "absent"
          /\ new.events = << >> \/ Appends(<< >>, new.events, None)
      BY <1>2, <1>6, <2>2 DEF Follows, AlertType
    <3>2. new.version >= al.version /\ new.version # al.version
      BY <1>3, <2>2, <3>1
    <3>3. new.events = al.events \/ Appends(al.events, new.events, None)
      BY <1>3, <2>2, <3>1
    <3> QED BY <2>2, <3>1, <3>2, <3>3 DEF Follows
  <2> QED BY <2>1, <2>2
<1>7. CASE OutOfOrder(shell, i)
  <2>1. new = CountedLate(shell, i) /\ shell = al
    BY <1>1, <1>2, <1>4, <1>7 DEF OwnAlert
  <2>2. /\ AlertType(new) /\ new.events = shell.events /\ new.state = shell.state
        /\ new.gen = shell.gen /\ new.version = shell.version
        /\ new.at = shell.at /\ new.last = shell.last /\ new.status = shell.status
        /\ \/ new.total = shell.total /\ new.failures = shell.failures
              /\ new.occurrences = shell.occurrences
           \/ new.total = shell.total + 1 /\ new.failures = shell.failures \cup {i}
              /\ new.occurrences <= shell.occurrences + 1
    BY <1>2, <2>1, LateUpdate
  <2>3. Follows(shell, new, None)
    BY <1>2, <2>2, SMTT(30) DEF Follows, AlertType
  <2> QED BY <1>4, <1>5, <1>6, <1>7, <2>1, <2>2, <2>3
<1>8. CASE ~OutOfOrder(shell, i)
  <2>1. new = CountedNow(shell, i)
    BY <1>1, <1>8 DEF OwnAlert
  <2>2. /\ Follows(shell, new, None)
        /\ new.at = results[i].at /\ new.last = i
        /\ new.status = "ok" => ~Unresolved(new)
        /\ \/ new.total = shell.total /\ new.failures = shell.failures
              /\ new.occurrences = shell.occurrences
           \/ new.total = shell.total + 1 /\ new.failures = shell.failures \cup {i}
              /\ (new.occurrences <= shell.occurrences + 1 \/ new.occurrences = 1)
    BY <1>2, <2>1, NowUpdate
  <2>3. ~OutOfOrder(al, i)
    BY <1>3, <1>4, <1>8 DEF OutOfOrder
  <2> QED BY <1>5, <1>6, <2>2, <2>3
<1> QED BY <1>7, <1>8

\* The alerts after result i: those of other checks stay, those of other
\* policies for this check are resolved if they stand.
LEMMA AppliedAlerts ==
  ASSUME NEW i \in DOMAIN results, NEW a \in Pairs, NEW new, new = Applied(i)[a]
  PROVE  \/ new = alerts[a] /\ a # <<results[i].policy, results[i].key>>
         \/ /\ a # <<results[i].policy, results[i].key>> /\ Unresolved(alerts[a])
            /\ new = Resolve(alerts[a], "policy_superseded", None, 0)
         \/ a = <<results[i].policy, results[i].key>> /\ new = OwnAlert(alerts[a], i)
<1>1. a = <<a[1], a[2]>>
  BY DEF Pairs
<1>2. new = IF a[2] # results[i].key THEN alerts[a]
            ELSE IF a[1] # results[i].policy
                 THEN IF Unresolved(alerts[a]) THEN Resolve(alerts[a], "policy_superseded", None, 0)
                      ELSE alerts[a]
                 ELSE OwnAlert(alerts[a], i)
  BY DEF Applied, OwnAlert
<1>3. a = <<results[i].policy, results[i].key>> <=> a[1] = results[i].policy /\ a[2] = results[i].key
  BY <1>1
<1> QED BY <1>2, <1>3

-----------------------------------------------------------------------------
(* What the steps do to the results *)

\* A result on its way into the table is one the server has made, once, or one
\* of the agent that is recent enough.
Arrives(t, i) == txns[t].op \in {"submit", "sweep"} /\ txns[t].id = i

Arrivals ==
  /\ \A i \in 1..Len(results) : results[i].by \in {"agent", "server"}
  /\ \A t \in Slots :
       /\ txns[t].op = "submit" =>
            results[txns[t].id].by = "agent" /\ ~Stale(results[txns[t].id])
       /\ txns[t].op = "sweep" =>
            /\ results[txns[t].id].by = "server"
            /\ \A n \in 1..Len(stored) : stored[n] # txns[t].id
            /\ \A u \in Slots : txns[u].op = "sweep" /\ txns[u].id = txns[t].id => u = t

ResultInv == ResultTypes /\ Arrivals

\* Results are made and never changed.
Grow == /\ Len(results') >= Len(results) /\ \A i \in 1..Len(results) : results'[i] = results[i]
        /\ clock' >= clock

\* An enumeration of a finite set of numbers leaves none out.
LEMMA AscendingAll ==
  ASSUME NEW S, IsFiniteSet(S), S \subseteq Nat, NEW s \in Ascending(S)
  PROVE  /\ Cardinality(S) \in Nat /\ s \in [1..Cardinality(S) -> S]
         /\ \A x \in S : \E n \in 1..Cardinality(S) : s[n] = x
<1>1. Cardinality(S) \in Nat
  BY FS_CardinalityType
<1>2. PICK c \in Nat : c = Cardinality(S)
  BY <1>1
<1>3. s \in [1..c -> S] /\ \A i, j \in 1..c : i < j => s[i] < s[j]
  BY <1>2 DEF Ascending
<1>4. s \in Injection(1..c, S)
  <2> SUFFICES ASSUME NEW i \in 1..c, NEW j \in 1..c, s[i] = s[j] PROVE i = j
    BY <1>3 DEF Injection, IsInjective
  <2>1. s[i] \in Nat /\ s[j] \in Nat /\ i \in Nat /\ j \in Nat
    <3>1. s[i] \in S /\ s[j] \in S
      BY <1>3
    <3>2. s[i] \in Nat /\ s[j] \in Nat
      BY <3>1
    <3>3. i \in Nat /\ j \in Nat
      OBVIOUS
    <3> QED BY <3>2, <3>3
  <2>2. ~(s[i] < s[j]) /\ ~(s[j] < s[i])
    BY <2>1
  <2>3. ~(i < j) /\ ~(j < i)
    BY <1>3, <2>2
  <2> QED BY <2>1, <2>3
<1>5. Cardinality(1..c) = c
  BY <1>2, FS_Interval
<1>6. s \in Surjection(1..c, S)
  BY <1>2, <1>4, <1>5, FS_Injection
<1> QED BY <1>1, <1>2, <1>3, <1>6 DEF Surjection

\* A new result; the others stay.
LEMMA ResultAdded ==
  ASSUME ResultTypes, NEW r, ResultType(r), results' = Append(results, r),
         UNCHANGED <<clock, stored, observed>>
  PROVE  /\ IsSeq(results') /\ \A i \in 1..Len(results') : ResultType(results'[i])
         /\ Len(results') = Len(results) + 1 /\ results'[Len(results) + 1] = r
         /\ Len(results) \in Nat /\ Grow
         /\ \A i \in 1..Len(results) : i \in 1..Len(results')
         /\ \A i \in 1..Len(results') : i \in 1..Len(results) \/ i = Len(results) + 1
         /\ \A n \in 1..Len(stored) : stored[n] \in 1..Len(results')
<1>1. IsSeq(results) /\ Len(results) \in Nat /\ clock \in Nat
  BY DEF ResultTypes, IsSeq
<1>2. PICK new : new = Append(results, r)
  OBVIOUS
<1>3. /\ IsSeq(new) /\ Len(new) = Len(results) + 1 /\ new[Len(results) + 1] = r
      /\ \A n \in 1..Len(results) : new[n] = results[n]
      /\ \A n \in 1..Len(new) : n \in 1..Len(results) \/ n = Len(results) + 1
  BY <1>1, <1>2, AppendFacts
<1>4. \A i \in 1..Len(new) : ResultType(new[i])
  BY <1>3 DEF ResultTypes
<1>5. \A i \in 1..Len(results) : i \in 1..Len(new)
  BY <1>1, <1>3
<1>6. Grow
  BY <1>1, <1>2, <1>3 DEF Grow
<1> QED BY <1>1, <1>2, <1>3, <1>4, <1>5, <1>6 DEF ResultTypes

\* The agent makes a result.
LEMMA MakeKeepsResults ==
  ASSUME ResultInv, NEW k \in Keys, NEW status \in AgentStatuses, NEW skew \in Skews,
         make_result(k, status, skew)
  PROVE  ResultInv' /\ Grow
<1>1. PICK pr \in resolve_effective_policy[k] :
        results' = Append(results, NewResult(pr[1], pr[2], k, status, clock + skew))
  BY DEF make_result
<1>2. pr[1] \in Policies
  BY <1>1 DEF resolve_effective_policy, _applicable_policies
<1>3. PICK r : r = NewResult(pr[1], pr[2], k, status, clock + skew)
  OBVIOUS
<1>4. ResultType(r) /\ r.by = "agent"
  BY <1>2, <1>3, AlertsAssumption DEF NewResult, ResultType, ResultInv, ResultTypes
<1>5. UNCHANGED <<clock, stored, observed, txns>>
  BY DEF make_result
<1>6. /\ IsSeq(results') /\ \A i \in 1..Len(results') : ResultType(results'[i])
      /\ Len(results') = Len(results) + 1 /\ results'[Len(results) + 1] = r
      /\ Len(results) \in Nat /\ Grow
      /\ \A i \in 1..Len(results) : i \in 1..Len(results')
      /\ \A i \in 1..Len(results') : i \in 1..Len(results) \/ i = Len(results) + 1
      /\ \A n \in 1..Len(stored) : stored[n] \in 1..Len(results')
  BY <1>1, <1>3, <1>4, <1>5, ResultAdded DEF ResultInv
<1>7. ResultTypes'
  BY <1>5, <1>6 DEF ResultInv, ResultTypes
<1>8. \A t \in Slots : txns[t].op \in {"submit", "sweep"} => results'[txns[t].id] = results[txns[t].id]
  BY <1>6 DEF ResultInv, ResultTypes, Grow
<1>9. Arrivals'
  BY <1>4, <1>5, <1>6, <1>8 DEF ResultInv, Arrivals, Grow, Stale
<1> QED BY <1>6, <1>7, <1>9 DEF ResultInv

\* A submission that has passed the checks.
LEMMA SubmitKeepsResults ==
  ASSUME ResultInv, NEW t \in Slots, NEW i \in DOMAIN results, submit_monitoring_results(t, i)
  PROVE  ResultInv' /\ Grow
<1>1. i \in 1..Len(results)
  BY DEF ResultInv, ResultTypes, IsSeq
<1>2. PICK new : new = [op |-> "submit", id |-> i]
  OBVIOUS
<1>3. /\ txns' = [txns EXCEPT ![t] = new] /\ new.op = "submit" /\ new.id = i
      /\ UNCHANGED <<clock, results, stored, observed>>
      /\ results[i].by = "agent" /\ ~Stale(results[i])
  BY <1>2 DEF submit_monitoring_results, Acceptable
<1>4. txns'[t] = new /\ \A u \in Slots : u # t => txns'[u] = txns[u]
  BY <1>3 DEF ResultInv, ResultTypes
<1>5. ResultTypes'
  BY <1>1, <1>3, <1>4 DEF ResultInv, ResultTypes
<1>6. Arrivals'
  BY <1>3, <1>4 DEF ResultInv, Arrivals, Stale
<1>7. Grow
  BY <1>3 DEF Grow, ResultInv, ResultTypes, IsSeq
<1> QED BY <1>5, <1>6, <1>7 DEF ResultInv

\* The end of a request, with or without its result in the table.
LEMMA EndKeepsResults ==
  ASSUME ResultInv, NEW t \in Slots, txns' = [txns EXCEPT ![t] = Free],
         UNCHANGED <<clock, results>>,
         \/ UNCHANGED <<stored, observed>>
         \/ \E i \in 1..Len(results) : Arrives(t, i) /\ stored' = Append(stored, i)
                                      /\ observed' \subseteq observed \cup {i}
  PROVE  ResultInv' /\ Grow
<1>1. /\ txns'[t] = Free /\ \A u \in Slots : u # t => txns'[u] = txns[u]
      /\ txns' = [u \in Slots |-> txns'[u]] /\ Free.op = "free"
  BY DEF ResultInv, ResultTypes, Free
<1>2. Grow
  BY DEF Grow, ResultInv, ResultTypes, IsSeq
<1>3. CASE UNCHANGED <<stored, observed>>
  <2>1. ResultTypes'
    BY <1>1, <1>3 DEF ResultInv, ResultTypes
  <2>2. Arrivals'
    BY <1>1, <1>3 DEF ResultInv, Arrivals, Stale
  <2> QED BY <1>2, <2>1, <2>2 DEF ResultInv
<1>4. ASSUME NEW i \in 1..Len(results), Arrives(t, i), stored' = Append(stored, i),
             observed' \subseteq observed \cup {i}
      PROVE  ResultInv'
  <2>1. PICK new : new = Append(stored, i)
    OBVIOUS
  <2>2. /\ IsSeq(new) /\ Len(new) = Len(stored) + 1 /\ new[Len(stored) + 1] = i
        /\ \A n \in 1..Len(stored) : new[n] = stored[n]
        /\ \A n \in 1..Len(new) : n \in 1..Len(stored) \/ n = Len(stored) + 1
    BY <2>1, AppendFacts DEF ResultInv, ResultTypes
  <2>3. Len(stored) \in Nat
    BY DEF ResultInv, ResultTypes, IsSeq
  <2>4. \A n \in 1..Len(new) : new[n] \in 1..Len(results)
    BY <1>4, <2>2 DEF ResultInv, ResultTypes
  <2>5. observed' \subseteq {new[n] : n \in 1..Len(new)}
    <3> SUFFICES ASSUME NEW x \in observed' PROVE \E n \in 1..Len(new) : new[n] = x
      OBVIOUS
    <3>1. CASE x = i
      <4>1. Len(stored) + 1 \in 1..Len(new)
        BY <2>2, <2>3
      <4> QED BY <2>2, <3>1, <4>1
    <3>2. CASE x \in observed
      <4>1. PICK n \in 1..Len(stored) : stored[n] = x
        BY <3>2 DEF ResultInv, ResultTypes
      <4>2. n \in 1..Len(new)
        BY <2>2, <2>3, <4>1
      <4> QED BY <2>2, <4>1, <4>2
    <3> QED BY <1>4, <3>1, <3>2
  <2>6. ResultTypes'
    BY <1>1, <1>4, <2>1, <2>2, <2>4, <2>5 DEF ResultInv, ResultTypes
  <2>7. ASSUME NEW u \in Slots, u # t, txns[u].op = "sweep" PROVE txns[u].id # i
    BY <1>4, <2>7 DEF ResultInv, Arrivals, Arrives
  <2>8. Arrivals'
    <3>1. \A u \in Slots : txns'[u].op = "submit" =>
             results[txns'[u].id].by = "agent" /\ ~Stale(results[txns'[u].id])
      BY <1>1 DEF ResultInv, Arrivals
    <3>2. ASSUME NEW u \in Slots, txns'[u].op = "sweep"
          PROVE  /\ results[txns'[u].id].by = "server"
                 /\ \A n \in 1..Len(new) : new[n] # txns'[u].id
                 /\ \A v \in Slots : txns'[v].op = "sweep" /\ txns'[v].id = txns'[u].id => v = u
      <4>1. u # t /\ txns'[u] = txns[u]
        BY <1>1, <3>2
      <4>2. txns[u].id # i
        BY <2>7, <3>2, <4>1
      <4>3. \A n \in 1..Len(new) : new[n] # txns[u].id
        BY <2>2, <3>2, <4>1, <4>2 DEF ResultInv, Arrivals
      <4> QED BY <1>1, <3>2, <4>1, <4>3 DEF ResultInv, Arrivals
    <3> QED BY <1>4, <2>1, <3>1, <3>2 DEF ResultInv, Arrivals, Stale
  <2> QED BY <2>6, <2>8 DEF ResultInv
<1> QED BY <1>2, <1>3, <1>4

\* The server's own samples have a status of the enumeration.
LEMMA SampleStatus ==
  ASSUME ResultTypes, NEW raw \in Statuses, NEW i \in 1..Len(results)
  PROVE  /\ FirstSample(raw).status \in Statuses
         /\ _apply_hysteresis(raw, results[i]).status \in Statuses
<1>1. FirstSample(raw).status \in {raw, "unknown"}
  BY DEF FirstSample
<1>2. _apply_hysteresis(raw, results[i]).status \in {raw, results[i].status}
  BY DEF _apply_hysteresis
<1> QED BY <1>1, <1>2 DEF ResultTypes, ResultType, Statuses

\* The sweep evaluates a check of its own.
LEMMA EvaluateKeepsResults ==
  ASSUME ResultInv, NEW t \in Slots, NEW k \in Keys, evaluate_checks(t, k)
  PROVE  ResultInv' /\ Grow
<1> DEFINE Before(pr) == {n \in Latest(k) : results[n].policy = pr[1] /\ results[n].rev = pr[2]}
           Sample(pr) == IF Before(pr) = {} THEN FirstSample(RawStatus(k))
                         ELSE _apply_hysteresis(RawStatus(k), results[CHOOSE n \in Before(pr) : TRUE])
<1>1. PICK pr \in resolve_effective_policy[k] :
        /\ results' = Append(results, [by |-> "server", policy |-> pr[1], rev |-> pr[2], key |-> k,
                                       at |-> clock, status |-> Sample(pr).status,
                                       pending |-> Sample(pr).pending, count |-> Sample(pr).count])
        /\ txns' = [txns EXCEPT ![t] = [op |-> "sweep", id |-> Len(results')]]
  BY DEF evaluate_checks
<1>2. pr[1] \in Policies
  BY <1>1 DEF resolve_effective_policy, _applicable_policies
<1>3. RawStatus(k) \in Statuses
  BY DEF RawStatus, PatchStatus, classify_numeric, Statuses
<1>4. Before(pr) \subseteq 1..Len(results)
  BY DEF Latest, ResultInv, ResultTypes, IsSeq
<1>5. PICK st : st = Sample(pr).status
  OBVIOUS
<1>6. st \in Statuses
  <2> HIDE DEF Before
  <2>1. CASE Before(pr) = {}
    <3>1. PICK i : i \in 1..Len(results) \/ 1..Len(results) = {}
      OBVIOUS
    <3> QED BY <1>3, <1>5, <2>1 DEF FirstSample, Statuses
  <2>2. CASE Before(pr) # {}
    <3>1. PICK i \in 1..Len(results) : i = CHOOSE n \in Before(pr) : TRUE
      BY <1>4, <2>2
    <3>2. st = _apply_hysteresis(RawStatus(k), results[i]).status
      BY <1>5, <2>2, <3>1
    <3> QED BY <1>3, <3>1, <3>2, SampleStatus DEF ResultInv
  <2> QED BY <2>1, <2>2
<1>7. PICK r : r = [by |-> "server", policy |-> pr[1], rev |-> pr[2], key |-> k, at |-> clock,
                    status |-> Sample(pr).status, pending |-> Sample(pr).pending,
                    count |-> Sample(pr).count]
  OBVIOUS
<1> HIDE DEF Before, Sample
<1>8. ResultType(r) /\ r.by = "server"
  BY <1>2, <1>5, <1>6, <1>7 DEF ResultType, ResultInv, ResultTypes
<1>9. UNCHANGED <<clock, stored, observed>> /\ results' = Append(results, r)
  BY <1>1, <1>7 DEF evaluate_checks
<1>10. /\ IsSeq(results') /\ \A i \in 1..Len(results') : ResultType(results'[i])
       /\ Len(results') = Len(results) + 1 /\ results'[Len(results) + 1] = r
       /\ Len(results) \in Nat /\ Grow
       /\ \A i \in 1..Len(results) : i \in 1..Len(results')
       /\ \A i \in 1..Len(results') : i \in 1..Len(results) \/ i = Len(results) + 1
       /\ \A n \in 1..Len(stored) : stored[n] \in 1..Len(results')
  BY <1>8, <1>9, ResultAdded DEF ResultInv
<1>11. PICK new : new = [op |-> "sweep", id |-> Len(results')]
  OBVIOUS
<1>12. new.op = "sweep" /\ new.id = Len(results) + 1 /\ txns' = [txns EXCEPT ![t] = new]
  BY <1>1, <1>10, <1>11
<1>13. /\ txns'[t] = new /\ \A u \in Slots : u # t => txns'[u] = txns[u]
       /\ txns' = [u \in Slots |-> txns'[u]]
  BY <1>12 DEF ResultInv, ResultTypes
<1>14. Len(results) + 1 \in 1..Len(results')
  BY <1>10
<1>15. \A i \in 1..Len(results) : i # Len(results) + 1
  BY <1>10
<1>16. ResultTypes'
  BY <1>9, <1>10, <1>12, <1>13, <1>14 DEF ResultInv, ResultTypes
<1>17. \A u \in Slots : u # t /\ txns[u].op \in {"submit", "sweep"} =>
          results'[txns[u].id] = results[txns[u].id] /\ txns[u].id # new.id
  BY <1>10, <1>12, <1>15 DEF ResultInv, ResultTypes, Grow
<1>18. \A n \in 1..Len(stored) : stored[n] # new.id
  BY <1>12, <1>15 DEF ResultInv, ResultTypes
<1>19. \A i \in 1..Len(results') : results'[i].by \in {"agent", "server"}
  BY <1>8, <1>10 DEF ResultInv, Arrivals, Grow
<1>20. Arrivals'
  <2>1. ASSUME NEW u \in Slots, txns'[u].op = "submit"
        PROVE  /\ results'[txns'[u].id].by = "agent"
               /\ ~(results'[txns'[u].id].at + MaxAge < clock)
    <3>1. u # t
      BY <1>12, <1>13, <2>1
    <3>2. txns'[u] = txns[u] /\ txns[u].op = "submit"
      BY <1>13, <2>1, <3>1
    <3>3. results'[txns[u].id] = results[txns[u].id]
      BY <1>17, <3>1, <3>2
    <3>4. results[txns[u].id].by = "agent" /\ ~Stale(results[txns[u].id])
      BY <3>2 DEF ResultInv, Arrivals
    <3> QED BY <3>2, <3>3, <3>4 DEF Stale
  <2>2. ASSUME NEW u \in Slots, txns'[u].op = "sweep"
        PROVE  /\ results'[txns'[u].id].by = "server"
               /\ \A n \in 1..Len(stored) : stored[n] # txns'[u].id
               /\ \A v \in Slots : txns'[v].op = "sweep" /\ txns'[v].id = txns'[u].id => v = u
    <3>1. CASE u = t
      BY <1>8, <1>10, <1>12, <1>13, <1>17, <1>18, <3>1
    <3>2. CASE u # t
      <4>1. txns'[u] = txns[u] /\ txns[u].op = "sweep" /\ txns[u].id # new.id
        BY <1>13, <1>17, <2>2, <3>2
      <4>2. /\ results'[txns[u].id].by = "server"
            /\ \A n \in 1..Len(stored) : stored[n] # txns[u].id
        BY <1>17, <3>2, <4>1 DEF ResultInv, Arrivals
      <4>3. ASSUME NEW v \in Slots, txns'[v].op = "sweep", txns'[v].id = txns[u].id PROVE v = u
        <5>1. v # t
          BY <1>13, <4>1, <4>3
        <5> QED BY <1>13, <4>1, <4>3, <5>1 DEF ResultInv, Arrivals
      <4> QED BY <4>1, <4>2, <4>3
    <3> QED BY <3>1, <3>2
  <2> QED BY <1>9, <1>19, <2>1, <2>2 DEF Arrivals, Stale
<1> QED BY <1>10, <1>16, <1>20 DEF ResultInv

Rows(kept) == [n \in DOMAIN kept |-> stored[kept[n]]]

\* The sequence retention leaves: the rows of an enumeration of some places.
LEMMA RowsKept ==
  ASSUME ResultTypes, NEW places \in SUBSET DOMAIN stored, NEW kept \in Ascending(places),
         NEW new, new = Rows(kept)
  PROVE  /\ IsSeq(new) /\ \A n \in 1..Len(new) : new[n] \in 1..Len(results)
         /\ \A m \in places : \E n \in 1..Len(new) : new[n] = stored[m]
         /\ \A n \in 1..Len(new) : \E m \in 1..Len(stored) : new[n] = stored[m]
<1>1. DOMAIN stored = 1..Len(stored) /\ Len(stored) \in Nat
  BY DEF ResultTypes, IsSeq
<1>2. IsFiniteSet(places)
  <2>1. IsFiniteSet(1..Len(stored))
    BY <1>1, FS_Interval
  <2>2. places \in SUBSET (1..Len(stored))
    BY <1>1
  <2> QED BY <2>1, <2>2, FS_Subset
<1>3. places \subseteq Nat
  BY <1>1
<1>4. PICK c \in Nat : c = Cardinality(places)
  BY <1>2, FS_CardinalityType
<1>5. /\ kept \in [1..c -> places]
      /\ \A m \in places : \E n \in 1..c : kept[n] = m
  BY <1>2, <1>3, <1>4, AscendingAll
<1>6. new = [n \in 1..c |-> stored[kept[n]]]
  BY <1>5 DEF Rows
<1>7. \A n \in 1..c : kept[n] \in 1..Len(stored) /\ new[n] = stored[kept[n]]
  BY <1>1, <1>5, <1>6
<1>8. \A n \in 1..c : new[n] \in 1..Len(results)
  BY <1>7 DEF ResultTypes
<1>9. new \in [1..c -> 1..Len(results)]
  BY <1>6, <1>8
<1>10. new \in Seq(1..Len(results)) /\ Len(new) = c
  BY <1>4, <1>9
<1>11. IsSeq(new)
  BY <1>4, <1>6, <1>7, <1>10 DEF IsSeq
<1>12. ASSUME NEW m \in places PROVE \E n \in 1..Len(new) : new[n] = stored[m]
  <2>1. PICK n \in 1..c : kept[n] = m
    BY <1>5
  <2>2. new[n] = stored[m] /\ n \in 1..Len(new)
    BY <1>7, <1>10, <2>1
  <2> QED BY <2>2
<1>13. \A n \in 1..Len(new) : \E m \in 1..Len(stored) : new[n] = stored[m]
  BY <1>7, <1>10
<1> QED BY <1>8, <1>10, <1>11, <1>12, <1>13

\* Retention.
LEMMA PruneKeepsResults ==
  ASSUME ResultInv, prune_check_results
  PROVE  ResultInv' /\ Grow /\ observed' \subseteq observed
<1> DEFINE doomed == {n \in DOMAIN stored : Doomed(n)}
<1>1. /\ \E kept \in Ascending(DOMAIN stored \ doomed) :
             stored' = [n \in DOMAIN kept |-> stored[kept[n]]]
      /\ observed' = observed \ {stored[n] : n \in doomed}
      /\ UNCHANGED <<clock, results, txns>>
  BY DEF prune_check_results
<1> HIDE DEF doomed
<1>2. PICK kept \in Ascending(DOMAIN stored \ doomed) :
        stored' = [n \in DOMAIN kept |-> stored[kept[n]]]
  BY <1>1
<1>3. PICK new : new = Rows(kept)
  OBVIOUS
<1>4. stored' = new
  BY <1>2, <1>3 DEF Rows
<1>5. /\ IsSeq(new) /\ \A n \in 1..Len(new) : new[n] \in 1..Len(results)
      /\ \A m \in DOMAIN stored \ doomed : \E n \in 1..Len(new) : new[n] = stored[m]
      /\ \A n \in 1..Len(new) : \E m \in 1..Len(stored) : new[n] = stored[m]
  <2>1. PICK places \in SUBSET DOMAIN stored : places = DOMAIN stored \ doomed
    OBVIOUS
  <2>2. ResultTypes /\ kept \in Ascending(places)
    BY <1>2, <2>1 DEF ResultInv
  <2>3. /\ IsSeq(new) /\ \A n \in 1..Len(new) : new[n] \in 1..Len(results)
        /\ \A m \in places : \E n \in 1..Len(new) : new[n] = stored[m]
        /\ \A n \in 1..Len(new) : \E m \in 1..Len(stored) : new[n] = stored[m]
    BY <1>3, <2>1, <2>2, RowsKept
  <2> QED BY <2>1, <2>3
<1>6. DOMAIN stored = 1..Len(stored)
  BY DEF ResultInv, ResultTypes, IsSeq
<1>7. observed' \subseteq {new[n] : n \in 1..Len(new)}
  <2> SUFFICES ASSUME NEW x \in observed' PROVE \E n \in 1..Len(new) : new[n] = x
    OBVIOUS
  <2>1. PICK m \in 1..Len(stored) : stored[m] = x
    BY <1>1 DEF ResultInv, ResultTypes
  <2>2. m \notin doomed
    BY <1>1, <2>1
  <2> QED BY <1>5, <1>6, <2>1, <2>2
<1>8. ResultTypes'
  <2>1. IsSeq(stored)' /\ \A n \in 1..Len(stored') : stored'[n] \in 1..Len(results')
    BY <1>1, <1>4, <1>5
  <2>2. observed' \subseteq {stored'[n] : n \in 1..Len(stored')}
    BY <1>4, <1>7
  <2>3. /\ clock' \in Nat /\ IsSeq(results)' /\ \A i \in 1..Len(results') : ResultType(results'[i])
        /\ txns' = [t \in Slots |-> txns'[t]]
        /\ \A t \in Slots : txns'[t].op \in {"submit", "sweep"} => txns'[t].id \in 1..Len(results')
    BY <1>1 DEF ResultInv, ResultTypes
  <2> QED BY <2>1, <2>2, <2>3 DEF ResultTypes
<1>9. Arrivals'
  <2>1. \A t \in Slots : txns[t].op = "sweep" => \A n \in 1..Len(new) : new[n] # txns[t].id
    BY <1>5 DEF ResultInv, Arrivals
  <2> QED BY <1>1, <1>4, <2>1 DEF ResultInv, Arrivals, Stale
<1>10. Grow
  BY <1>1 DEF Grow, ResultInv, ResultTypes, IsSeq
<1> QED BY <1>1, <1>8, <1>9, <1>10 DEF ResultInv

\* A tick, between requests.
LEMMA TickKeepsResults ==
  ASSUME ResultInv, Tick PROVE ResultInv' /\ Grow
<1>1. /\ clock' = clock + 1 /\ UNCHANGED <<results, stored, observed, txns>>
      /\ \A t \in Slots : txns[t].op = "free"
  BY DEF Tick, Free
<1>2. ResultTypes'
  BY <1>1 DEF ResultInv, ResultTypes
<1>3. Arrivals'
  BY <1>1 DEF ResultInv, Arrivals
<1>4. Grow
  BY <1>1 DEF Grow, ResultInv, ResultTypes, IsSeq
<1> QED BY <1>2, <1>3, <1>4 DEF ResultInv

\* The others do not touch the results.
LEMMA OthersKeepResults ==
  ASSUME ResultInv, UNCHANGED <<clock, results, stored, observed, txns>>
  PROVE  ResultInv' /\ Grow
<1>1. ResultTypes'
  BY DEF ResultInv, ResultTypes
<1>2. Arrivals'
  BY DEF ResultInv, Arrivals, Stale
<1>3. Grow
  BY DEF Grow, ResultInv, ResultTypes, IsSeq
<1> QED BY <1>1, <1>2, <1>3 DEF ResultInv

-----------------------------------------------------------------------------
(* What the steps do to the alerts *)

\* What an alert has counted stays; it may be resolved and not reopened.
Counts(al, new) ==
  /\ new.at = al.at /\ new.last = al.last /\ new.status = al.status
  /\ new.total = al.total /\ new.occurrences = al.occurrences /\ new.failures = al.failures
  /\ Unresolved(new) => Unresolved(al)

\* The alert `new` after the action of request r on alert al.
Answers(al, new, r) ==
  /\ AlertType(new) /\ (al.state # "absent" => new.state # "absent")
  /\ new.gen = al.gen /\ new.version = al.version + 1 /\ Counts(al, new)
  /\ \E ev : /\ ev.request = r /\ ev.gen = al.gen /\ ev.saw = actions[r].saw
            /\ new.events = Append(al.events, ev)

Composes ==
  \E r \in ActionRequests, a \in Pairs : \E kind :
    /\ alerts[a].state # "absent"
    /\ actions' = [actions EXCEPT ![r] = [alert |-> a, kind |-> kind, version |-> alerts[a].version,
                                         saw |-> alerts[a].gen]]

Takes(i) ==
  /\ \E t \in Slots : Arrives(t, i)
  /\ i \notin observed
  /\ i \in 1..Len(results)
  /\ \E n \in 1..Len(stored') : stored'[n] = i
  /\ observed' = IF results[i].status = "ok" /\ alerts[<<results[i].policy, results[i].key>>].state = "absent"
                 THEN observed ELSE observed \cup {i}
  /\ alerts' = Applied(i)
  /\ UNCHANGED forgotten

Acts(r) == /\ actions[r] # None /\ Admits(r)
           /\ \E new : /\ Answers(alerts[actions[r].alert], new, r)
                      /\ alerts' = [alerts EXCEPT ![actions[r].alert] = new]

AlertStep ==
  \/ UNCHANGED alerts /\ observed' \subseteq observed /\ (UNCHANGED actions \/ Composes)
  \/ /\ UNCHANGED <<actions, clock, results, observed>>
     /\ \E p, keys, type : alerts' = PolicyAlerts(p, keys, type)
  \/ UNCHANGED <<actions, clock, results, observed>> /\ \E r \in ActionRequests : Acts(r)
  \/ UNCHANGED <<actions, clock, results>> /\ \E i : Takes(i)

ResultStep == ResultInv' /\ Grow /\ AlertStep

\* The row of a result that is appended.
LEMMA RowAppended ==
  ASSUME ResultTypes, NEW i, stored' = Append(stored, i)
  PROVE  \E n \in 1..Len(stored') : stored'[n] = i
<1>1. IsSeq(stored) /\ Len(stored) \in Nat
  BY DEF ResultTypes, IsSeq
<1>2. PICK new : new = Append(stored, i)
  OBVIOUS
<1>3. Len(new) = Len(stored) + 1 /\ new[Len(stored) + 1] = i
  BY <1>1, <1>2, AppendFacts
<1>4. Len(stored) + 1 \in 1..Len(new)
  BY <1>1, <1>3
<1> QED BY <1>2, <1>3, <1>4

\* A result of the agent is stored, or its row is there already.
LEMMA StoreResult ==
  ASSUME ResultInv, NEW t \in Slots, store_result(t)
  PROVE  ResultStep
<1>1. PICK i : i = txns[t].id
  OBVIOUS
<1>2. i \in 1..Len(results) /\ Arrives(t, i)
  BY <1>1 DEF store_result, ResultInv, ResultTypes, Arrives
<1>3. DOMAIN stored = 1..Len(stored)
  BY DEF ResultInv, ResultTypes, IsSeq
<1>4. txns' = [txns EXCEPT ![t] = Free] /\ UNCHANGED <<clock, results, forgotten, actions>>
  BY DEF store_result
<1>5. CASE i \in {stored[n] : n \in DOMAIN stored}
  <2>1. UNCHANGED <<stored, observed, alerts>>
    BY <1>1, <1>5 DEF store_result
  <2> QED BY <1>4, <2>1, EndKeepsResults DEF ResultStep, AlertStep
<1>6. CASE i \notin {stored[n] : n \in DOMAIN stored}
  <2>1. stored' = Append(stored, i) /\ apply_check_result_to_alert(i)
    BY <1>1, <1>6 DEF store_result
  <2>2. \A n \in 1..Len(stored) : stored[n] # i
    BY <1>3, <1>6
  <2>3. i \notin observed
    BY <2>2 DEF ResultInv, ResultTypes
  <2>4. Takes(i)
    BY <1>2, <1>4, <2>1, <2>3, RowAppended DEF ResultInv, Takes, apply_check_result_to_alert, SetAlerts
  <2>5. observed' \subseteq observed \cup {i}
    BY <2>4 DEF Takes
  <2> QED BY <1>2, <1>4, <2>1, <2>4, <2>5, EndKeepsResults DEF ResultStep, AlertStep
<1> QED BY <1>5, <1>6

\* An evaluation of the server is stored.
LEMMA StoreEvaluation ==
  ASSUME ResultInv, NEW t \in Slots, store_evaluation(t)
  PROVE  ResultStep
<1>1. PICK i : i = txns[t].id
  OBVIOUS
<1>2. i \in 1..Len(results) /\ Arrives(t, i) /\ txns[t].op = "sweep"
  BY <1>1 DEF store_evaluation, ResultInv, ResultTypes, Arrives
<1>3. \A n \in 1..Len(stored) : stored[n] # i
  BY <1>1, <1>2 DEF ResultInv, Arrivals
<1>4. /\ txns' = [txns EXCEPT ![t] = Free] /\ UNCHANGED <<clock, results, forgotten, actions>>
      /\ stored' = Append(stored, i)
  BY <1>1 DEF store_evaluation
<1>5. CASE CheckType[results[i].key] = "patch_age" /\ results[i].status = "unknown"
  <2>1. UNCHANGED <<observed, alerts>>
    BY <1>1, <1>5 DEF store_evaluation
  <2> QED BY <1>2, <1>4, <2>1, EndKeepsResults DEF ResultStep, AlertStep
<1>6. CASE ~(CheckType[results[i].key] = "patch_age" /\ results[i].status = "unknown")
  <2>1. apply_check_result_to_alert(i)
    BY <1>1, <1>6 DEF store_evaluation
  <2>2. i \notin observed
    BY <1>3 DEF ResultInv, ResultTypes
  <2>3. Takes(i)
    BY <1>2, <1>4, <2>1, <2>2, RowAppended DEF ResultInv, Takes, apply_check_result_to_alert, SetAlerts
  <2>4. observed' \subseteq observed \cup {i}
    BY <2>3 DEF Takes
  <2> QED BY <1>2, <1>4, <2>3, <2>4, EndKeepsResults DEF ResultStep, AlertStep
<1> QED BY <1>5, <1>6

\* The steps of the agent, of the server's sweeps and of retention.
LEMMA AgentSteps ==
  ASSUME ResultInv, AgentNext PROVE ResultStep
<1>1. ASSUME NEW k \in Keys, NEW s \in AgentStatuses, NEW skew \in Skews, make_result(k, s, skew)
      PROVE  ResultStep
  <2>1. UNCHANGED <<alerts, observed, actions>>
    BY <1>1 DEF make_result
  <2> QED BY <1>1, <2>1, MakeKeepsResults DEF ResultStep, AlertStep
<1>2. ASSUME NEW t \in Slots, NEW i \in DOMAIN results, submit_monitoring_results(t, i)
      PROVE  ResultStep
  <2>1. UNCHANGED <<alerts, observed, actions>>
    BY <1>2 DEF submit_monitoring_results
  <2> QED BY <1>2, <2>1, SubmitKeepsResults DEF ResultStep, AlertStep
<1>3. ASSUME NEW t \in Slots, store_result(t) PROVE ResultStep
  BY <1>3, StoreResult
<1>4. ASSUME NEW t \in Slots, NEW k \in Keys, evaluate_checks(t, k) PROVE ResultStep
  <2>1. UNCHANGED <<alerts, observed, actions>>
    BY <1>4 DEF evaluate_checks
  <2> QED BY <1>4, <2>1, EvaluateKeepsResults DEF ResultStep, AlertStep
<1>5. ASSUME NEW t \in Slots, store_evaluation(t) PROVE ResultStep
  BY <1>5, StoreEvaluation
<1>6. ASSUME UNCHANGED <<alerts, actions, clock, results, stored, observed, txns>> PROVE ResultStep
  BY <1>6, OthersKeepResults DEF ResultStep, AlertStep
<1>7. CASE heartbeat
  BY <1>6, <1>7 DEF heartbeat
<1>8. ASSUME NEW scan, NEW newest, submit_inventory(scan, newest) PROVE ResultStep
  BY <1>6, <1>8 DEF submit_inventory
<1>9. CASE prune_check_results
  <2>1. UNCHANGED <<alerts, actions>>
    BY <1>9 DEF prune_check_results
  <2> QED BY <1>9, <2>1, PruneKeepsResults DEF ResultStep, AlertStep
<1>10. CASE Tick
  <2>1. UNCHANGED <<alerts, observed, actions>>
    BY <1>10 DEF Tick
  <2> QED BY <1>10, <2>1, TickKeepsResults DEF ResultStep, AlertStep
<1> QED BY <1>1, <1>2, <1>3, <1>4, <1>5, <1>7, <1>8, <1>9, <1>10 DEF AgentNext

\* The event of an operator's action.
LEMMA EventAnswers ==
  ASSUME NEW al, AlertType(al), NEW r, NEW type, NEW mid, NEW new,
         /\ DOMAIN mid = DOMAIN al /\ mid.events = al.events /\ mid.gen = al.gen
         /\ mid.version = al.version + 1 /\ mid.occurrences = al.occurrences
         /\ mid.total = al.total /\ mid.opened = al.opened /\ mid.at = al.at
         /\ mid.last = al.last /\ mid.status = al.status /\ mid.failures = al.failures,
         mid.state \in {"open", "acknowledged", "resolved", al.state},
         Unresolved(mid) => Unresolved(al),
         new = WithEvent(mid, type, r, actions[r].saw)
  PROVE  Answers(al, new, r)
<1>1. AlertType(mid)
  BY DEF AlertType
<1>2. /\ AlertType(new)
      /\ \E ev : /\ ev.request = r /\ ev.gen = mid.gen /\ ev.saw = actions[r].saw
                /\ new.events = Append(mid.events, ev)
      /\ new.state = mid.state /\ new.gen = mid.gen /\ new.version = mid.version
      /\ new.occurrences = mid.occurrences /\ new.total = mid.total
      /\ new.opened = mid.opened /\ new.at = mid.at /\ new.last = mid.last
      /\ new.status = mid.status /\ new.failures = mid.failures
  BY <1>1, WithEventUpdate
<1>3. Counts(al, new)
  BY <1>2 DEF Counts, Unresolved
<1>4. al.state # "absent" => new.state # "absent"
  BY <1>2
<1> QED BY <1>2, <1>3, <1>4 DEF Answers

\* An action that changes nothing but the state and the version of the alert.
LEMMA ActionAnswers ==
  ASSUME AlertTypes, NEW r \in ActionRequests, actions[r] # None,
         NEW state \in {"acknowledged", "resolved", alerts[actions[r].alert].state},
         NEW type, NEW al, al = alerts[actions[r].alert],
         state = "acknowledged" => al.state = "open" \/ al.state = state,
         NEW new,
         \/ /\ state = "resolved" /\ new = Resolve(al, type, r, actions[r].saw)
         \/ /\ state = al.state
            /\ new = WithEvent([al EXCEPT !.version = @ + 1], type, r, actions[r].saw)
         \/ /\ state = "acknowledged"
            /\ new = WithEvent([al EXCEPT !.state = "acknowledged", !.version = @ + 1],
                               type, r, actions[r].saw)
  PROVE  Answers(al, new, r)
<1>1. AlertType(al)
  BY DEF AlertTypes, ActionType
<1>2. ASSUME state = "resolved", new = Resolve(al, type, r, actions[r].saw) PROVE Answers(al, new, r)
  <2>1. PICK mid : mid = [al EXCEPT !.state = "resolved", !.suppressed = FALSE, !.version = @ + 1]
    OBVIOUS
  <2>2. /\ DOMAIN mid = DOMAIN al /\ mid.events = al.events /\ mid.gen = al.gen
        /\ mid.version = al.version + 1 /\ mid.occurrences = al.occurrences
        /\ mid.total = al.total /\ mid.opened = al.opened /\ mid.at = al.at
        /\ mid.last = al.last /\ mid.status = al.status /\ mid.failures = al.failures
        /\ mid.state = "resolved"
    BY <1>1, <2>1 DEF AlertType, AlertFields
  <2>3. new = WithEvent(mid, type, r, actions[r].saw) /\ ~Unresolved(mid)
    BY <1>2, <2>1, <2>2 DEF Resolve, Unresolved
  <2> QED BY <1>1, <2>2, <2>3, EventAnswers
<1>3. ASSUME new = WithEvent([al EXCEPT !.version = @ + 1], type, r, actions[r].saw)
      PROVE  Answers(al, new, r)
  <2>1. PICK mid : mid = [al EXCEPT !.version = @ + 1]
    OBVIOUS
  <2>2. /\ DOMAIN mid = DOMAIN al /\ mid.events = al.events /\ mid.gen = al.gen
        /\ mid.version = al.version + 1 /\ mid.occurrences = al.occurrences
        /\ mid.total = al.total /\ mid.opened = al.opened /\ mid.at = al.at
        /\ mid.last = al.last /\ mid.status = al.status /\ mid.failures = al.failures
        /\ mid.state = al.state
    BY <1>1, <2>1 DEF AlertType, AlertFields
  <2>3. new = WithEvent(mid, type, r, actions[r].saw) /\ (Unresolved(mid) => Unresolved(al))
    BY <1>3, <2>1, <2>2 DEF Unresolved
  <2> QED BY <1>1, <2>2, <2>3, EventAnswers
<1>4. ASSUME state = "acknowledged",
             new = WithEvent([al EXCEPT !.state = "acknowledged", !.version = @ + 1],
                             type, r, actions[r].saw)
      PROVE  Answers(al, new, r)
  <2>1. PICK mid : mid = [al EXCEPT !.state = "acknowledged", !.version = @ + 1]
    OBVIOUS
  <2>2. /\ DOMAIN mid = DOMAIN al /\ mid.events = al.events /\ mid.gen = al.gen
        /\ mid.version = al.version + 1 /\ mid.occurrences = al.occurrences
        /\ mid.total = al.total /\ mid.opened = al.opened /\ mid.at = al.at
        /\ mid.last = al.last /\ mid.status = al.status /\ mid.failures = al.failures
        /\ mid.state = "acknowledged"
    BY <1>1, <2>1 DEF AlertType, AlertFields
  <2>3. new = WithEvent(mid, type, r, actions[r].saw) /\ (Unresolved(mid) => Unresolved(al))
    BY <1>4, <2>1, <2>2 DEF Unresolved
  <2> QED BY <1>1, <2>2, <2>3, EventAnswers
<1> QED BY <1>2, <1>3, <1>4

\* The steps of operators.
LEMMA OperatorSteps ==
  ASSUME ResultInv, AlertTypes, OperatorNext PROVE ResultStep
<1>1. ASSUME UNCHANGED <<clock, results, stored, observed, txns>>, AlertStep PROVE ResultStep
  BY <1>1, OthersKeepResults DEF ResultStep
<1>2. ASSUME NEW p \in Policies, NEW c \in CheckLists, create_monitoring_policy(p, c) PROVE ResultStep
  BY <1>1, <1>2 DEF create_monitoring_policy, AlertStep
<1>3. ASSUME NEW p \in Policies, NEW c \in CheckLists, NEW on \in BOOLEAN,
             revise_monitoring_policy(p, c, on)
      PROVE  ResultStep
  <2>1. \E keys, type : alerts' = PolicyAlerts(p, keys, type)
    BY <1>3 DEF revise_monitoring_policy, SetAlerts
  <2>2. UNCHANGED <<clock, results, stored, observed, txns, actions>>
    BY <1>3 DEF revise_monitoring_policy
  <2> QED BY <1>1, <2>1, <2>2 DEF AlertStep
<1>4. ASSUME NEW p \in Policies, delete_monitoring_policy(p) PROVE ResultStep
  <2>1. \E keys, type : alerts' = PolicyAlerts(p, keys, type)
    BY <1>4 DEF delete_monitoring_policy, SetAlerts
  <2>2. UNCHANGED <<clock, results, stored, observed, txns, actions>>
    BY <1>4 DEF delete_monitoring_policy
  <2> QED BY <1>1, <2>1, <2>2 DEF AlertStep
<1>5. ASSUME NEW w \in WindowTerms, create_maintenance_window(w) \/ delete_maintenance_window(w)
      PROVE  ResultStep
  BY <1>1, <1>5 DEF create_maintenance_window, delete_maintenance_window, AlertStep
<1>6. ASSUME NEW r \in ActionRequests, NEW a \in Pairs, NEW kind, compose_action(r, a, kind)
      PROVE  ResultStep
  <2>1. Composes
    BY <1>6 DEF compose_action, Composes
  <2>2. UNCHANGED <<alerts, clock, results, stored, observed, txns>>
    BY <1>6 DEF compose_action
  <2> QED BY <1>1, <2>1, <2>2 DEF AlertStep
<1>7. ASSUME NEW r \in ActionRequests,
             acknowledge_monitoring_alert(r) \/ assign_monitoring_alert(r)
               \/ comment_on_monitoring_alert(r) \/ resolve_monitoring_alert(r)
      PROVE  ResultStep
  <2>1. PICK al : al = alerts[actions[r].alert]
    OBVIOUS
  <2>2. /\ actions[r] # None /\ Admits(r)
        /\ UNCHANGED <<clock, results, stored, observed, txns, actions>>
    BY <1>7 DEF acknowledge_monitoring_alert, assign_monitoring_alert,
                comment_on_monitoring_alert, resolve_monitoring_alert, Annotate, Act
  <2>3. ASSUME NEW new, Answers(al, new, r), alerts' = [alerts EXCEPT ![actions[r].alert] = new]
        PROVE  ResultStep
    <3>1. Acts(r)
      BY <2>1, <2>2, <2>3 DEF Acts
    <3> QED BY <1>1, <2>2, <3>1 DEF AlertStep
  <2>4. CASE acknowledge_monitoring_alert(r)
    <3>1. PICK new : new = WithEvent([al EXCEPT !.state = "acknowledged", !.version = @ + 1],
                                     "acknowledged", r, actions[r].saw)
      OBVIOUS
    <3>2. al.state = "open" /\ alerts' = [alerts EXCEPT ![actions[r].alert] = new]
      BY <2>1, <2>4, <3>1 DEF acknowledge_monitoring_alert, Act, SetAlerts
    <3>3. Answers(al, new, r)
      BY <2>1, <2>2, <3>1, <3>2, ActionAnswers
    <3> QED BY <2>3, <3>2, <3>3
  <2>5. ASSUME NEW kind, NEW type, Annotate(r, kind, type) PROVE ResultStep
    <3>1. PICK new : new = WithEvent([al EXCEPT !.version = @ + 1], type, r, actions[r].saw)
      OBVIOUS
    <3>2. alerts' = [alerts EXCEPT ![actions[r].alert] = new]
      BY <2>1, <2>5, <3>1 DEF Annotate, Act, SetAlerts
    <3>3. Answers(al, new, r)
      BY <2>1, <2>2, <3>1, ActionAnswers
    <3> QED BY <2>3, <3>2, <3>3
  <2>6. CASE resolve_monitoring_alert(r)
    <3>1. PICK new : new = Resolve(al, "manual_resolution", r, actions[r].saw)
      OBVIOUS
    <3>2. alerts' = [alerts EXCEPT ![actions[r].alert] = new]
      BY <2>1, <2>6, <3>1 DEF resolve_monitoring_alert, Act, SetAlerts
    <3>3. Answers(al, new, r)
      BY <2>1, <2>2, <3>1, ActionAnswers
    <3> QED BY <2>3, <3>2, <3>3
  <2> QED BY <1>7, <2>4, <2>5, <2>6 DEF assign_monitoring_alert, comment_on_monitoring_alert
<1> QED BY <1>2, <1>3, <1>4, <1>5, <1>6, <1>7 DEF OperatorNext

\* What a step does to the results and the alerts.
LEMMA ResultsStep ==
  ASSUME ResultInv, AlertTypes, [MonitoringNext]_monitoringVars PROVE ResultStep
<1>1. ASSUME UNCHANGED <<alerts, actions, clock, results, stored, observed, txns>> PROVE ResultStep
  BY <1>1, OthersKeepResults DEF ResultStep, AlertStep
<1>2. CASE UNCHANGED monitoringVars
  BY <1>1, <1>2 DEF monitoringVars, vars, alertVars
<1>3. CASE OutboxNext /\ UNCHANGED <<clock, lastSeen, patched, policies, windows, results, stored,
                                     observed, forgotten, alerts, actions, txns, notificationVars>>
  BY <1>1, <1>3
<1>4. CASE SendersNext
  BY <1>1, <1>4 DEF SendersNext, SenderStep, TimePasses, alertVars
<1>5. CASE Next
  BY <1>4, <1>5, AgentSteps, OperatorSteps DEF Next
<1> QED BY <1>2, <1>3, <1>5 DEF MonitoringNext

-----------------------------------------------------------------------------
(* Operators' actions *)

\* Alert a after a step: what operators did not do, or the action of one request.
Answered(a) ==
  \E r \in ActionRequests : /\ actions[r] # None /\ actions[r].alert = a /\ Admits(r)
                           /\ Answers(alerts[a], alerts'[a], r)

\* An alert that is left alone follows itself.
LEMMA StaysFollows ==
  ASSUME NEW al, AlertType(al) PROVE Follows(al, al, None)
BY DEF Follows, AlertType

\* A result is taken.
LEMMA TakesFollows ==
  ASSUME ResultInv, AlertTypes, NEW i, Takes(i), NEW a \in Pairs
  PROVE  Follows(alerts[a], alerts'[a], None) /\ alerts' = [x \in Pairs |-> alerts'[x]]
<1>1. PICK new : new = Applied(i)[a]
  OBVIOUS
<1>2. alerts'[a] = new /\ alerts' = [x \in Pairs |-> alerts'[x]]
  BY <1>1 DEF Takes, Applied
<1>3. i \in DOMAIN results /\ ResultType(results[i]) /\ i \notin observed /\ i \in Nat \ {0}
  BY DEF Takes, ResultInv, ResultTypes, IsSeq
<1>4. PICK al : al = alerts[a]
  OBVIOUS
<1>5. AlertType(al) /\ (al.state = "absent" => al = NoAlert)
  BY <1>4 DEF AlertTypes
<1>6. CASE new = al
  BY <1>2, <1>4, <1>5, <1>6, StaysFollows
<1>7. CASE new = Resolve(al, "policy_superseded", None, 0)
  BY <1>2, <1>4, <1>5, <1>7, ResolveFollows
<1>8. CASE new = OwnAlert(al, i)
  <2>1. CASE results[i].status = "ok" /\ al.state = "absent"
    BY <1>6, <1>8, <2>1 DEF OwnAlert
  <2>2. CASE ~(results[i].status = "ok" /\ al.state = "absent")
    BY <1>2, <1>3, <1>4, <1>5, <1>8, <2>2, OwnUpdate
  <2> QED BY <2>1, <2>2
<1> QED BY <1>1, <1>3, <1>4, <1>6, <1>7, <1>8, AppliedAlerts

\* The alerts of a policy that changes.
LEMMA PolicyFollows ==
  ASSUME AlertTypes, NEW p, NEW keys, NEW type, alerts' = PolicyAlerts(p, keys, type), NEW a \in Pairs
  PROVE  /\ Follows(alerts[a], alerts'[a], None) /\ alerts' = [x \in Pairs |-> alerts'[x]]
         /\ Counts(alerts[a], alerts'[a])
<1>1. PICK new : new = PolicyAlerts(p, keys, type)[a]
  OBVIOUS
<1>2. alerts'[a] = new /\ alerts' = [x \in Pairs |-> alerts'[x]]
  BY <1>1 DEF PolicyAlerts
<1>3. PICK al : al = alerts[a]
  OBVIOUS
<1>4. AlertType(al)
  BY <1>3 DEF AlertTypes
<1>5. new = al \/ new = Resolve(al, type, None, 0)
  BY <1>1, <1>3 DEF PolicyAlerts
<1>6. CASE new = al
  BY <1>2, <1>3, <1>4, <1>6, StaysFollows DEF Counts
<1>7. CASE new = Resolve(al, type, None, 0)
  <2>1. Follows(al, new, None)
    BY <1>4, <1>7, ResolveFollows
  <2>2. Counts(al, new)
    BY <1>4, <1>7, ResolveUpdate DEF Counts, Unresolved
  <2> QED BY <1>2, <1>3, <2>1, <2>2
<1> QED BY <1>5, <1>6, <1>7

\* Each alert after a step.
LEMMA AlertAfter ==
  ASSUME ResultInv, AlertTypes, AlertStep, NEW a \in Pairs
  PROVE  Follows(alerts[a], alerts'[a], None) \/ Answered(a)
<1>1. CASE UNCHANGED alerts
  BY <1>1, StaysFollows DEF AlertTypes
<1>2. ASSUME NEW p, NEW keys, NEW type, alerts' = PolicyAlerts(p, keys, type)
      PROVE  Follows(alerts[a], alerts'[a], None)
  BY <1>2, PolicyFollows
<1>3. ASSUME NEW i, Takes(i) PROVE Follows(alerts[a], alerts'[a], None)
  BY <1>3, TakesFollows
<1>4. ASSUME NEW r \in ActionRequests, Acts(r)
      PROVE  Follows(alerts[a], alerts'[a], None) \/ Answered(a)
  <2>1. PICK new : /\ Answers(alerts[actions[r].alert], new, r)
                   /\ alerts' = [alerts EXCEPT ![actions[r].alert] = new]
    BY <1>4 DEF Acts
  <2>2. CASE actions[r].alert = a
    <3>1. alerts'[a] = new
      BY <2>1, <2>2 DEF AlertTypes
    <3> QED BY <1>4, <2>1, <2>2, <3>1 DEF Acts, Answered
  <2>3. CASE actions[r].alert # a
    <3>1. alerts'[a] = alerts[a]
      BY <2>1, <2>3 DEF AlertTypes
    <3> QED BY <3>1, StaysFollows DEF AlertTypes
  <2> QED BY <2>2, <2>3
<1> QED BY <1>1, <1>2, <1>3, <1>4 DEF AlertStep

\* What a request was composed from: a version the alert still has, with the
\* generation it had then, or one it has left behind.
Seen ==
  \A r \in ActionRequests : actions[r] # None =>
    LET al == alerts[actions[r].alert]
    IN  /\ al.state # "absent" /\ al.version >= actions[r].version
        /\ al.version = actions[r].version => al.gen = actions[r].saw

ActionInv == ResultInv /\ AlertTypes /\ Seen /\ ActedOnWhatWasSeen

\* Types, and what requests were composed from.
LEMMA SeenStep ==
  ASSUME ResultInv, AlertTypes, Seen, AlertStep PROVE AlertTypes' /\ Seen'
<1>1. ASSUME NEW a \in Pairs
      PROVE  /\ AlertType(alerts'[a]) /\ (alerts'[a].state = "absent" => alerts'[a] = NoAlert)
             /\ alerts'[a].version >= alerts[a].version
             /\ alerts'[a].version = alerts[a].version => alerts'[a].gen = alerts[a].gen
             /\ alerts[a].state # "absent" => alerts'[a].state # "absent"
  <2>1. AlertType(alerts[a]) /\ (alerts[a].state = "absent" => alerts[a] = NoAlert)
    BY DEF AlertTypes
  <2>2. CASE Follows(alerts[a], alerts'[a], None)
    BY <2>1, <2>2 DEF Follows
  <2>3. CASE Answered(a)
    <3>1. PICK r \in ActionRequests : /\ actions[r] # None /\ actions[r].alert = a
                                      /\ Answers(alerts[a], alerts'[a], r)
      BY <2>3 DEF Answered
    <3>2. alerts[a].state # "absent"
      BY <3>1 DEF Seen
    <3>3. alerts[a].version \in Nat
      BY <2>1 DEF AlertType
    <3> QED BY <3>1, <3>2, <3>3 DEF Answers
  <2> QED BY <2>2, <2>3, AlertAfter
<1>2. alerts' = [a \in Pairs |-> alerts'[a]]
  <2>1. CASE UNCHANGED alerts
    BY <2>1 DEF AlertTypes
  <2>2. ASSUME NEW p, NEW keys, NEW type, alerts' = PolicyAlerts(p, keys, type)
        PROVE  alerts' = [a \in Pairs |-> alerts'[a]]
    BY <2>2 DEF PolicyAlerts
  <2>3. ASSUME NEW i, Takes(i) PROVE alerts' = [a \in Pairs |-> alerts'[a]]
    BY <2>3 DEF Takes, Applied
  <2>4. ASSUME NEW r \in ActionRequests, Acts(r) PROVE alerts' = [a \in Pairs |-> alerts'[a]]
    BY <2>4 DEF Acts, AlertTypes
  <2> QED BY <2>1, <2>2, <2>3, <2>4 DEF AlertStep
<1>3. CASE UNCHANGED actions
  <2>1. AlertTypes'
    BY <1>1, <1>2, <1>3 DEF AlertTypes
  <2>2. ASSUME NEW r \in ActionRequests, actions[r] # None
        PROVE  LET al == alerts'[actions[r].alert]
               IN  /\ al.state # "absent" /\ al.version >= actions[r].version
                   /\ al.version = actions[r].version => al.gen = actions[r].saw
    <3>1. PICK a \in Pairs : a = actions[r].alert
      BY <2>2 DEF AlertTypes, ActionType
    <3>2. /\ alerts[a].state # "absent" /\ alerts[a].version >= actions[r].version
          /\ alerts[a].version = actions[r].version => alerts[a].gen = actions[r].saw
      BY <2>2, <3>1 DEF Seen
    <3>3. alerts[a].version \in Nat /\ alerts'[a].version \in Nat /\ actions[r].version \in Nat
      BY <1>1, <2>2 DEF AlertTypes, AlertType, ActionType
    <3> QED BY <1>1, <3>1, <3>2, <3>3
  <2>3. Seen'
    BY <1>3, <2>2 DEF Seen
  <2> QED BY <2>1, <2>3
<1>4. CASE UNCHANGED alerts /\ Composes
  <2>1. PICK q \in ActionRequests, a \in Pairs : \E kind :
          /\ alerts[a].state # "absent"
          /\ actions' = [actions EXCEPT ![q] = [alert |-> a, kind |-> kind,
                                               version |-> alerts[a].version, saw |-> alerts[a].gen]]
    BY <1>4 DEF Composes
  <2>2. PICK new : /\ actions' = [actions EXCEPT ![q] = new] /\ new.alert = a
                   /\ new.version = alerts[a].version /\ new.saw = alerts[a].gen
    <3>1. PICK kind : actions' = [actions EXCEPT ![q] =
                        [alert |-> a, kind |-> kind, version |-> alerts[a].version, saw |-> alerts[a].gen]]
      BY <2>1
    <3>2. PICK new : new = [alert |-> a, kind |-> kind, version |-> alerts[a].version,
                            saw |-> alerts[a].gen]
      OBVIOUS
    <3>3. new.alert = a /\ new.version = alerts[a].version /\ new.saw = alerts[a].gen
      BY <3>2
    <3>4. actions' = [actions EXCEPT ![q] = new]
      BY <3>1, <3>2
    <3> QED BY <3>3, <3>4
  <2>3. AlertType(alerts[a]) /\ alerts[a].state # "absent"
    BY <2>1 DEF AlertTypes
  <2>4. ActionType(new)
    BY <2>2, <2>3 DEF ActionType, AlertType
  <2>5. /\ actions' = [r \in ActionRequests |-> actions'[r]] /\ actions'[q] = new
        /\ \A r \in ActionRequests : r # q => actions'[r] = actions[r]
    BY <2>2 DEF AlertTypes
  <2>6. AlertTypes'
    BY <1>4, <2>4, <2>5 DEF AlertTypes
  <2>7. new.version \in Nat
    BY <2>4 DEF ActionType
  <2>8. Seen'
    BY <1>4, <2>2, <2>3, <2>5, <2>7 DEF Seen
  <2> QED BY <2>6, <2>8
<1> QED BY <1>3, <1>4 DEF AlertStep

\* The events of an alert that hold what the property says of them.
Faithful(events) ==
  \A n \in 1..Len(events) : events[n].request # None =>
    /\ events[n].gen = events[n].saw
    /\ \A m \in 1..Len(events) : events[m].request = events[n].request => m = n

\* An event more, of nobody or of a request that has none yet.
LEMMA EventAdded ==
  ASSUME NEW old, IsSeq(old), Faithful(old), NEW ev, NEW new, new = Append(old, ev),
         \/ ev.request = None
         \/ ev.gen = ev.saw /\ \A n \in 1..Len(old) : old[n].request # ev.request
  PROVE  Faithful(new)
<1>1. /\ Len(new) = Len(old) + 1 /\ new[Len(old) + 1] = ev /\ Len(old) \in Nat
      /\ \A n \in 1..Len(old) : new[n] = old[n]
      /\ \A n \in 1..Len(new) : n \in 1..Len(old) \/ n = Len(old) + 1
  BY AppendFacts DEF IsSeq
<1> SUFFICES ASSUME NEW n \in 1..Len(new), new[n].request # None
             PROVE  /\ new[n].gen = new[n].saw
                    /\ \A m \in 1..Len(new) : new[m].request = new[n].request => m = n
  BY DEF Faithful
<1>2. CASE n = Len(old) + 1
  BY <1>1, <1>2
<1>3. CASE n \in 1..Len(old)
  <2>1. new[n] = old[n]
    BY <1>1, <1>3
  <2>2. ASSUME NEW m \in 1..Len(new), new[m].request = new[n].request PROVE m = n
    <3>1. CASE m \in 1..Len(old)
      BY <1>1, <1>3, <2>1, <2>2, <3>1 DEF Faithful
    <3>2. CASE m = Len(old) + 1
      <4>1. ev.request = old[n].request /\ old[n].request # None
        BY <1>1, <2>1, <2>2, <3>2
      <4> QED BY <1>3, <4>1
    <3> QED BY <1>1, <3>1, <3>2
  <2> QED BY <1>3, <2>1, <2>2 DEF Faithful
<1> QED BY <1>1, <1>2, <1>3

\* The domain of an alert's events.
LEMMA FaithfulAlerts ==
  ASSUME AlertTypes
  PROVE  /\ \A a \in Pairs : DOMAIN alerts[a].events = 1..Len(alerts[a].events)
         /\ ActedOnWhatWasSeen <=> \A a \in Pairs : Faithful(alerts[a].events)
<1>1. \A a \in Pairs : DOMAIN alerts[a].events = 1..Len(alerts[a].events)
  BY DEF AlertTypes, AlertType, IsSeq
<1> QED BY <1>1 DEF ActedOnWhatWasSeen, Faithful

\* A step keeps what the events say.
LEMMA FaithfulStep ==
  ASSUME ResultInv, AlertTypes, Seen, AlertStep, NEW a \in Pairs, Faithful(alerts[a].events)
  PROVE  Faithful(alerts'[a].events)
<1>1. AlertType(alerts[a]) /\ IsSeq(alerts[a].events)
  BY DEF AlertTypes, AlertType
<1>2. PICK old : old = alerts[a].events
  OBVIOUS
<1>3. PICK new : new = alerts'[a].events
  OBVIOUS
<1>4. CASE Follows(alerts[a], alerts'[a], None)
  <2>1. CASE new = old
    BY <1>2, <1>3, <2>1
  <2>2. CASE Appends(old, new, None)
    BY <1>1, <1>2, <1>3, <2>2, EventAdded DEF Appends
  <2> QED BY <1>2, <1>3, <1>4, <2>1, <2>2 DEF Follows
<1>5. CASE Answered(a)
  <2>1. PICK r \in ActionRequests : /\ actions[r] # None /\ actions[r].alert = a /\ Admits(r)
                                    /\ Answers(alerts[a], alerts'[a], r)
    BY <1>5 DEF Answered
  <2>2. PICK ev : /\ ev.request = r /\ ev.gen = alerts[a].gen /\ ev.saw = actions[r].saw
                  /\ new = Append(old, ev)
    BY <1>2, <1>3, <2>1 DEF Answers
  <2>3. ev.gen = ev.saw
    BY <2>1, <2>2 DEF Admits, Seen
  <2>4. \A n \in 1..Len(old) : old[n].request # r
    BY <1>1, <1>2, <2>1 DEF Admits, IsSeq
  <2> QED BY <1>1, <1>2, <1>3, <2>2, <2>3, <2>4, EventAdded
<1> QED BY <1>4, <1>5, AlertAfter

\* There is no result, alert or request at the start.
LEMMA ActionsInitially == MonitoringInit => ActionInv
<1> SUFFICES ASSUME MonitoringInit PROVE ActionInv
  OBVIOUS
<1>1. /\ clock = 0 /\ results = << >> /\ stored = << >> /\ observed = {}
      /\ txns = [t \in Slots |-> Free] /\ alerts = [a \in Pairs |-> NoAlert]
      /\ actions = [r \in ActionRequests |-> None]
  BY DEF MonitoringInit, Init
<1>2. IsSeq(<< >>) /\ Len(<< >>) = 0
  <2>1. Len(<< >>) = 0 /\ << >> = [n \in 1..0 |-> << >>[n]]
    OBVIOUS
  <2> QED BY <2>1 DEF IsSeq
<1>3. ResultTypes
  BY <1>1, <1>2 DEF ResultTypes, Free
<1>4. Arrivals
  BY <1>1, <1>2 DEF Arrivals, Free
<1>5. AlertType(NoAlert)
  BY <1>2 DEF AlertType, AlertFields, NoAlert, Statuses
<1>6. AlertTypes /\ Seen
  BY <1>1, <1>5 DEF AlertTypes, Seen
<1>7. NoAlert.events = << >>
  BY DEF NoAlert
<1>8. \A a \in Pairs : Faithful(alerts[a].events)
  BY <1>1, <1>2, <1>7 DEF Faithful
<1> QED BY <1>3, <1>4, <1>6, <1>8, FaithfulAlerts DEF ActionInv, ResultInv

\* Every step keeps what the events say about the requests behind them.
LEMMA ActionsStep == ActionInv /\ [MonitoringNext]_monitoringVars => ActionInv'
<1> SUFFICES ASSUME ActionInv, [MonitoringNext]_monitoringVars PROVE ActionInv'
  OBVIOUS
<1>1. ResultInv' /\ AlertStep
  BY ResultsStep DEF ActionInv, ResultStep
<1>2. AlertTypes' /\ Seen'
  BY <1>1, SeenStep DEF ActionInv
<1>3. \A a \in Pairs : Faithful(alerts[a].events)
  BY FaithfulAlerts DEF ActionInv
<1>4. \A a \in Pairs : Faithful(alerts'[a].events)
  BY <1>1, <1>3, FaithfulStep DEF ActionInv
<1>5. ActedOnWhatWasSeen'
  <2>1. \A a \in Pairs : DOMAIN alerts'[a].events = 1..Len(alerts'[a].events)
    BY <1>2 DEF AlertTypes, AlertType, IsSeq
  <2> QED BY <1>4, <2>1 DEF ActedOnWhatWasSeen, Faithful
<1> QED BY <1>1, <1>2, <1>5 DEF ActionInv

(* An operator's action reaches the generation the operator was looking at and
   is applied once, however many operators act on however many alerts while
   results arrive, policies are revised and alerts are resolved and opened again:
   _lock_alert_action of api/management.py, which compares the version and finds
   the event of a request that came before. *)
THEOREM ActionsReachWhatWasSeen == MonitoringSpec => []ActedOnWhatWasSeen
<1>1. ActionInv => ActedOnWhatWasSeen
  BY DEF ActionInv
<1> QED BY ActionsInitially, ActionsStep, <1>1, PTL DEF MonitoringSpec, monitoringVars

-----------------------------------------------------------------------------
(* What alerts count *)

Own(i, a) == <<results[i].policy, results[i].key>> = a

\* Result i is at or before the latest one of alert al.
NotAfter(i, al) == results[i].at < al.at \/ (results[i].at = al.at /\ i <= al.last)

\* A result that is not counted anew although its observation is gone.
Spent(i) == i \in forgotten \/ results[i].by = "server" \/ Stale(results[i])

\* An alert that has seen none of its results has no latest one; a failure it has
\* counted is observed still, was forgotten, or the server would not take it again.
Counted(a) ==
  LET al == alerts[a]
  IN  /\ al.status = "ok" => ~Unresolved(al)
      /\ \A i \in observed : Own(i, a) => NotAfter(i, al) /\ al.last # 0
      /\ IsFiniteSet(al.failures) /\ al.occurrences <= al.total
      /\ al.failures \cap forgotten = {} => al.total = Cardinality(al.failures)
      /\ \A i \in al.failures : i \in 1..Len(results) /\ (i \in observed \/ Spent(i))

\* What the server evaluates is counted when it is stored.
Uncounted ==
  \A t \in Slots : txns[t].op = "sweep" => \A a \in Pairs : txns[t].id \notin alerts[a].failures

CountInv == (\A a \in Pairs : Counted(a)) /\ Uncounted

\* What is no longer observed is remembered, if the server could still take it.
Forgets == forgotten \subseteq forgotten' /\ \A i \in observed \ observed' :
             i \in forgotten' \/ results[i].by = "server" \/ Stale(results[i])

\* Nothing new for alert a.
LEMMA CountsKept ==
  ASSUME ResultInv, ResultInv', Grow, NEW a \in Pairs, Counted(a), Counts(alerts[a], alerts'[a]),
         observed' \subseteq observed, Forgets
  PROVE  Counted(a)'
<1>1. PICK al : al = alerts[a]
  OBVIOUS
<1>2. PICK new : new = alerts'[a]
  OBVIOUS
<1>3. /\ new.at = al.at /\ new.last = al.last /\ new.status = al.status
      /\ new.total = al.total /\ new.occurrences = al.occurrences /\ new.failures = al.failures
      /\ Unresolved(new) => Unresolved(al)
  BY <1>1, <1>2 DEF Counts
<1>4. /\ al.status = "ok" => ~Unresolved(al)
      /\ IsFiniteSet(al.failures) /\ al.occurrences <= al.total
      /\ al.failures \cap forgotten = {} => al.total = Cardinality(al.failures)
  BY <1>1 DEF Counted
<1>5. \A i \in observed : i \in 1..Len(results) /\ results'[i] = results[i]
  BY DEF ResultInv, ResultTypes, Grow
<1>6. ASSUME NEW i \in observed', <<results'[i].policy, results'[i].key>> = a
      PROVE  /\ results'[i].at < new.at \/ (results'[i].at = new.at /\ i <= new.last)
             /\ new.last # 0
  <2>1. Own(i, a) /\ i \in observed /\ results'[i] = results[i]
    BY <1>5, <1>6 DEF Own
  <2>2. NotAfter(i, al) /\ al.last # 0
    BY <1>1, <2>1 DEF Counted
  <2> QED BY <1>3, <2>1, <2>2 DEF NotAfter
<1>7. ASSUME NEW i \in al.failures
      PROVE  /\ i \in 1..Len(results')
             /\ \/ i \in observed' \/ i \in forgotten' \/ results'[i].by = "server"
                \/ results'[i].at + MaxAge < clock'
  <2>1. i \in 1..Len(results) /\ (i \in observed \/ Spent(i))
    BY <1>1 DEF Counted
  <2>2. results'[i] = results[i] /\ i \in 1..Len(results')
    <3>1. Len(results) \in Nat /\ Len(results') \in Nat
      BY <2>1 DEF ResultInv, ResultTypes, IsSeq, Grow
    <3> QED BY <2>1, <3>1 DEF Grow
  <2>3. results[i].at \in Int /\ clock \in Nat /\ clock' \in Nat /\ MaxAge \in Nat
    BY <2>1, AlertsAssumption DEF ResultInv, ResultTypes, ResultType
  <2>4. Stale(results[i]) => results[i].at + MaxAge < clock'
    BY <2>3 DEF Stale, Grow
  <2> QED BY <2>1, <2>2, <2>4 DEF Forgets, Spent
<1>8. new.failures \cap forgotten' = {} => new.total = Cardinality(new.failures)
  BY <1>3, <1>4 DEF Forgets
<1> QED BY <1>2, <1>3, <1>4, <1>6, <1>7, <1>8 DEF Counted, Own, NotAfter, Stale, Spent

\* A failure more, or none; it is new unless it was forgotten.
LEMMA FailureCounted ==
  ASSUME NEW al, NEW new, AlertType(al), AlertType(new), NEW F, NEW i, i \in al.failures => i \in F,
         IsFiniteSet(al.failures), al.occurrences <= al.total,
         al.failures \cap F = {} => al.total = Cardinality(al.failures),
         \/ new.total = al.total /\ new.failures = al.failures /\ new.occurrences = al.occurrences
         \/ /\ new.total = al.total + 1 /\ new.failures = al.failures \cup {i}
            /\ new.occurrences <= al.occurrences + 1 \/ new.occurrences = 1
  PROVE  /\ IsFiniteSet(new.failures) /\ new.occurrences <= new.total
         /\ new.failures \cap F = {} => new.total = Cardinality(new.failures)
         /\ new.failures \subseteq al.failures \cup {i}
<1>1. CASE new.total = al.total /\ new.failures = al.failures /\ new.occurrences = al.occurrences
  BY <1>1
<1>2. CASE /\ new.total = al.total + 1 /\ new.failures = al.failures \cup {i}
           /\ new.occurrences <= al.occurrences + 1 \/ new.occurrences = 1
  <2>1. /\ IsFiniteSet(al.failures \cup {i})
        /\ i \notin al.failures => Cardinality(al.failures \cup {i}) = Cardinality(al.failures) + 1
    BY FS_AddElement
  <2>2. al.total \in Nat /\ al.occurrences \in Nat /\ new.occurrences \in Nat
    BY DEF AlertType
  <2>3. new.occurrences <= al.total + 1
    BY <1>2, <2>2
  <2>4. ASSUME new.failures \cap F = {} PROVE al.failures \cap F = {} /\ i \notin al.failures
    BY <1>2, <2>4
  <2> QED BY <1>2, <2>1, <2>3, <2>4
<1> QED BY <1>1, <1>2

\* A result that is taken is new to every alert, unless it was forgotten.
LEMMA TakenIsNew ==
  ASSUME ResultInv, CountInv, NEW i, Takes(i), NEW a \in Pairs
  PROVE  i \in alerts[a].failures => i \in forgotten
<1>1. PICK t \in Slots : Arrives(t, i)
  BY DEF Takes
<1>2. CASE txns[t].op = "sweep"
  BY <1>1, <1>2 DEF CountInv, Uncounted, Arrives
<1>3. CASE txns[t].op = "submit"
  <2>1. results[i].by = "agent" /\ ~Stale(results[i]) /\ i \notin observed
    BY <1>1, <1>3 DEF ResultInv, Arrivals, Arrives, Takes
  <2> QED BY <2>1 DEF CountInv, Counted, Spent
<1> QED BY <1>1, <1>2, <1>3 DEF Arrives

\* A result is taken.
LEMMA CountTakes ==
  ASSUME ResultInv, AlertTypes, AlertTypes', CountInv, NEW i, Takes(i), NEW a \in Pairs,
         UNCHANGED <<clock, results>>
  PROVE  Counted(a)' /\ alerts'[a].failures \subseteq alerts[a].failures \cup {i}
<1>1. PICK al : al = alerts[a]
  OBVIOUS
<1>2. PICK new : new = alerts'[a]
  OBVIOUS
<1>3. AlertType(al) /\ (al.state = "absent" => al = NoAlert) /\ AlertType(new)
  BY <1>1, <1>2 DEF AlertTypes
<1>4. new = Applied(i)[a]
  BY <1>2 DEF Takes
<1>5. i \in DOMAIN results /\ ResultType(results[i]) /\ i \notin observed /\ i \in Nat \ {0}
      /\ i \in 1..Len(results)
  BY DEF Takes, ResultInv, ResultTypes, IsSeq
<1>6. (i \in al.failures => i \in forgotten) /\ forgotten' = forgotten
  BY <1>1, TakenIsNew DEF Takes
<1>7. /\ al.status = "ok" => ~Unresolved(al)
      /\ IsFiniteSet(al.failures) /\ al.occurrences <= al.total
      /\ al.failures \cap forgotten = {} => al.total = Cardinality(al.failures)
      /\ \A j \in observed : Own(j, a) => NotAfter(j, al) /\ al.last # 0
      /\ \A j \in al.failures : j \in 1..Len(results) /\ (j \in observed \/ Spent(j))
  BY <1>1 DEF CountInv, Counted
<1>8. observed \subseteq observed' /\ observed' \subseteq observed \cup {i}
  BY DEF Takes
<1>9. ASSUME /\ new.status = "ok" => ~Unresolved(new)
             /\ IsFiniteSet(new.failures) /\ new.occurrences <= new.total
             /\ new.failures \cap forgotten = {} => new.total = Cardinality(new.failures)
             /\ new.failures \subseteq al.failures \cup {i}
             /\ i \in new.failures => i \in observed' \/ i \in al.failures
             /\ \A j \in observed' : Own(j, a) => NotAfter(j, new) /\ new.last # 0
      PROVE  Counted(a)' /\ alerts'[a].failures \subseteq alerts[a].failures \cup {i}
  <2>1. ASSUME NEW j \in new.failures
        PROVE  j \in 1..Len(results) /\ (j \in observed' \/ Spent(j))
    BY <1>5, <1>7, <1>8, <1>9, <2>1
  <2>2. \A j \in observed' : <<results[j].policy, results[j].key>> = a =>
           (results[j].at < new.at \/ (results[j].at = new.at /\ j <= new.last)) /\ new.last # 0
    BY <1>9 DEF Own, NotAfter
  <2> QED BY <1>1, <1>2, <1>6, <1>9, <2>1, <2>2 DEF Counted, Own, NotAfter, Stale, Spent
<1>10. ASSUME Counts(al, new), ~Own(i, a) PROVE Counted(a)' /\ alerts'[a].failures \subseteq alerts[a].failures \cup {i}
  <2>1. \A j \in observed' : Own(j, a) => NotAfter(j, new) /\ new.last # 0
    BY <1>7, <1>8, <1>10 DEF Counts, NotAfter
  <2> QED BY <1>6, <1>7, <1>9, <1>10, <2>1 DEF Counts
<1>11. CASE new = al /\ a # <<results[i].policy, results[i].key>>
  BY <1>10, <1>11 DEF Counts, Own
<1>12. CASE new = Resolve(al, "policy_superseded", None, 0) /\ a # <<results[i].policy, results[i].key>>
  <2>1. Counts(al, new)
    BY <1>3, <1>12, ResolveUpdate DEF Counts, Unresolved
  <2> QED BY <1>10, <1>12, <2>1 DEF Own
<1>13. CASE new = OwnAlert(al, i) /\ a = <<results[i].policy, results[i].key>>
  <2>1. CASE results[i].status = "ok" /\ al.state = "absent"
    <3>1. new = al /\ observed' = observed
      BY <1>1, <1>13, <2>1 DEF OwnAlert, Takes
    <3> QED BY <1>6, <1>7, <1>9, <3>1
  <2>2. CASE ~(results[i].status = "ok" /\ al.state = "absent")
    <3>1. i \in observed' /\ observed' = observed \cup {i}
      BY <1>1, <1>13, <2>2 DEF Takes
    <3>2. /\ \/ /\ al.state # "absent" /\ OutOfOrder(al, i) /\ new.at = al.at /\ new.last = al.last
                /\ new.status = al.status /\ new.state = al.state
             \/ /\ ~OutOfOrder(al, i) /\ new.at = results[i].at /\ new.last = i
                /\ new.status = "ok" => ~Unresolved(new)
          /\ \/ new.total = al.total /\ new.failures = al.failures
                /\ new.occurrences = al.occurrences
             \/ new.total = al.total + 1 /\ new.failures = al.failures \cup {i}
                /\ (new.occurrences <= al.occurrences + 1 \/ new.occurrences = 1)
      BY <1>3, <1>5, <1>13, <2>2, OwnUpdate
    <3>3. /\ IsFiniteSet(new.failures) /\ new.occurrences <= new.total
          /\ new.failures \cap forgotten = {} => new.total = Cardinality(new.failures)
          /\ new.failures \subseteq al.failures \cup {i}
      BY <1>3, <1>6, <1>7, <3>2, FailureCounted
    <3>4. new.status = "ok" => ~Unresolved(new)
      BY <1>7, <3>2 DEF Unresolved
    <3>5. ASSUME NEW j \in observed', Own(j, a) PROVE NotAfter(j, new) /\ new.last # 0
      <4>1. CASE OutOfOrder(al, i) /\ new.at = al.at /\ new.last = al.last
        <5>1. CASE j = i
          BY <4>1, <5>1 DEF OutOfOrder, NotAfter
        <5>2. CASE j \in observed
          BY <1>7, <3>5, <4>1, <5>2 DEF NotAfter
        <5> QED BY <3>1, <5>1, <5>2
      <4>2. CASE ~OutOfOrder(al, i) /\ new.at = results[i].at /\ new.last = i
        <5>1. CASE j = i
          BY <1>5, <4>2, <5>1 DEF NotAfter
        <5>2. CASE j \in observed
          <6>1. NotAfter(j, al) /\ al.last # 0
            BY <1>7, <3>5, <5>2
          <6>2. results[j].at \in Int /\ results[i].at \in Int /\ al.at \in Int /\ al.last \in Nat
                /\ j \in Nat /\ i \in Nat
            <7>1. j \in 1..Len(results) /\ Len(results) \in Nat
              BY <5>2 DEF ResultInv, ResultTypes, IsSeq
            <7>2. ResultType(results[j])
              BY <7>1 DEF ResultInv, ResultTypes
            <7> QED BY <1>3, <1>5, <7>1, <7>2 DEF ResultType, AlertType
          <6>3. results[i].at > al.at \/ (results[i].at = al.at /\ i > al.last)
            BY <4>2, <6>1, <6>2 DEF OutOfOrder
          <6>4. results[j].at < results[i].at \/ (results[j].at = results[i].at /\ j <= i)
            <7>1. results[j].at < al.at \/ (results[j].at = al.at /\ j <= al.last)
              BY <6>1 DEF NotAfter
            <7> QED BY <6>2, <6>3, <7>1
          <6> QED BY <1>5, <4>2, <6>4 DEF NotAfter
        <5> QED BY <3>1, <5>1, <5>2
      <4> QED BY <3>2, <4>1, <4>2
    <3> QED BY <1>9, <3>1, <3>3, <3>4, <3>5
  <2> QED BY <2>1, <2>2
<1> QED BY <1>1, <1>4, <1>5, <1>11, <1>12, <1>13, AppliedAlerts

\* A sweep that is under way goes on, ends, or has just made its result.
Sweeps == \A t \in Slots : txns'[t].op = "sweep" =>
  \/ txns[t].op = "sweep" /\ txns[t].id = txns'[t].id
  \/ txns'[t].id \notin 1..Len(results)

\* Every step treats the sweeps under way so.
LEMMA SweepsStep ==
  ASSUME ResultInv, [MonitoringNext]_monitoringVars PROVE Sweeps
<1>1. ASSUME UNCHANGED txns PROVE Sweeps
  BY <1>1 DEF Sweeps
<1>2. ASSUME NEW t \in Slots, NEW new, txns' = [txns EXCEPT ![t] = new], new.op # "sweep" PROVE Sweeps
  BY <1>2 DEF Sweeps, ResultInv, ResultTypes
<1>3. CASE AgentNext
  <2>1. ASSUME NEW k \in Keys, NEW s \in AgentStatuses, NEW skew \in Skews, make_result(k, s, skew)
        PROVE  Sweeps
    BY <1>1, <2>1 DEF make_result
  <2>2. ASSUME NEW t \in Slots, NEW i \in DOMAIN results, submit_monitoring_results(t, i)
        PROVE  Sweeps
    <3>1. PICK new : new = [op |-> "submit", id |-> i]
      OBVIOUS
    <3>2. txns' = [txns EXCEPT ![t] = new] /\ new.op = "submit"
      BY <2>2, <3>1 DEF submit_monitoring_results
    <3> QED BY <1>2, <3>2
  <2>3. ASSUME NEW t \in Slots, store_result(t) \/ store_evaluation(t) PROVE Sweeps
    <3>1. txns' = [txns EXCEPT ![t] = Free] /\ Free.op = "free"
      BY <2>3 DEF store_result, store_evaluation, Free
    <3> QED BY <1>2, <3>1
  <2>4. ASSUME NEW t \in Slots, NEW k \in Keys, evaluate_checks(t, k) PROVE Sweeps
    <3>1. PICK r : results' = Append(results, r) /\ txns' = [txns EXCEPT ![t] = [op |-> "sweep", id |-> Len(results')]]
      BY <2>4 DEF evaluate_checks
    <3>2. IsSeq(results) /\ Len(results) \in Nat
      BY DEF ResultInv, ResultTypes, IsSeq
    <3>3. Len(results') = Len(results) + 1
      BY <3>1, <3>2, AppendFacts
    <3>4. Len(results') \notin 1..Len(results)
      BY <3>2, <3>3
    <3>5. PICK new : new = [op |-> "sweep", id |-> Len(results')]
      OBVIOUS
    <3>6. txns' = [txns EXCEPT ![t] = new] /\ new.id \notin 1..Len(results)
      BY <3>1, <3>4, <3>5
    <3> QED BY <3>6 DEF Sweeps, ResultInv, ResultTypes
  <2>5. CASE heartbeat \/ prune_check_results \/ Tick
    BY <1>1, <2>5 DEF heartbeat, prune_check_results, Tick
  <2>6. ASSUME NEW scan, NEW newest, submit_inventory(scan, newest) PROVE Sweeps
    BY <1>1, <2>6 DEF submit_inventory
  <2> QED BY <1>3, <2>1, <2>2, <2>3, <2>4, <2>5, <2>6 DEF AgentNext
<1>4. CASE OperatorNext
  <2>1. ASSUME NEW p \in Policies, NEW c \in CheckLists, create_monitoring_policy(p, c) PROVE Sweeps
    BY <1>1, <2>1 DEF create_monitoring_policy
  <2>2. ASSUME NEW p \in Policies, NEW c \in CheckLists, NEW on \in BOOLEAN, revise_monitoring_policy(p, c, on)
        PROVE  Sweeps
    BY <1>1, <2>2 DEF revise_monitoring_policy
  <2>3. ASSUME NEW p \in Policies, delete_monitoring_policy(p) PROVE Sweeps
    BY <1>1, <2>3 DEF delete_monitoring_policy
  <2>4. ASSUME NEW w \in WindowTerms, create_maintenance_window(w) \/ delete_maintenance_window(w)
        PROVE  Sweeps
    BY <1>1, <2>4 DEF create_maintenance_window, delete_maintenance_window
  <2>5. ASSUME NEW r \in ActionRequests, NEW a \in Pairs, NEW kind, compose_action(r, a, kind) PROVE Sweeps
    BY <1>1, <2>5 DEF compose_action
  <2>6. ASSUME NEW r \in ActionRequests,
               acknowledge_monitoring_alert(r) \/ assign_monitoring_alert(r)
                 \/ comment_on_monitoring_alert(r) \/ resolve_monitoring_alert(r)
        PROVE  Sweeps
    BY <1>1, <2>6 DEF acknowledge_monitoring_alert, assign_monitoring_alert,
                      comment_on_monitoring_alert, resolve_monitoring_alert, Annotate, Act
  <2> QED BY <1>4, <2>1, <2>2, <2>3, <2>4, <2>5, <2>6 DEF OperatorNext
<1>5. CASE SendersNext
  BY <1>1, <1>5 DEF SendersNext, SenderStep, TimePasses, alertVars
<1>6. CASE UNCHANGED monitoringVars
  BY <1>1, <1>6 DEF monitoringVars, vars, alertVars
<1>7. CASE OutboxNext /\ UNCHANGED <<clock, lastSeen, patched, policies, windows, results, stored,
                                     observed, forgotten, alerts, actions, txns, notificationVars>>
  BY <1>1, <1>7
<1> QED BY <1>3, <1>4, <1>5, <1>6, <1>7 DEF MonitoringNext, Next

\* Only retention takes observations away, and it remembers what it does to them.
LEMMA ForgetsStep ==
  ASSUME ResultInv, [MonitoringNext]_monitoringVars PROVE Forgets
<1>1. ASSUME UNCHANGED forgotten, observed \subseteq observed' PROVE Forgets
  BY <1>1 DEF Forgets
<1>2. ASSUME UNCHANGED <<observed, forgotten>> PROVE Forgets
  BY <1>1, <1>2
<1>3. CASE AgentNext
  <2>1. ASSUME NEW k \in Keys, NEW s \in AgentStatuses, NEW skew \in Skews, make_result(k, s, skew)
        PROVE  Forgets
    BY <1>2, <2>1 DEF make_result
  <2>2. ASSUME NEW t \in Slots, NEW i \in DOMAIN results, submit_monitoring_results(t, i)
        PROVE  Forgets
    BY <1>2, <2>2 DEF submit_monitoring_results
  <2>3. ASSUME NEW t \in Slots, store_result(t) \/ store_evaluation(t) PROVE Forgets
    <3>1. UNCHANGED forgotten
      BY <2>3 DEF store_result, store_evaluation
    <3>2. UNCHANGED observed \/ apply_check_result_to_alert(txns[t].id)
      BY <2>3 DEF store_result, store_evaluation
    <3>3. observed \subseteq observed'
      BY <3>2 DEF apply_check_result_to_alert
    <3> QED BY <1>1, <3>1, <3>3
  <2>4. ASSUME NEW t \in Slots, NEW k \in Keys, evaluate_checks(t, k) PROVE Forgets
    BY <1>2, <2>4 DEF evaluate_checks
  <2>5. CASE prune_check_results
    <3>1. forgotten' = forgotten \cup {i \in observed \ observed' :
                                         results[i].by # "server" /\ ~Stale(results[i])}
      BY <2>5 DEF prune_check_results
    <3> QED BY <3>1 DEF Forgets
  <2>6. CASE heartbeat \/ Tick
    BY <1>2, <2>6 DEF heartbeat, Tick
  <2>7. ASSUME NEW scan, NEW newest, submit_inventory(scan, newest) PROVE Forgets
    BY <1>2, <2>7 DEF submit_inventory
  <2> QED BY <1>3, <2>1, <2>2, <2>3, <2>4, <2>5, <2>6, <2>7 DEF AgentNext
<1>4. CASE OperatorNext
  <2>1. ASSUME NEW p \in Policies, NEW c \in CheckLists, create_monitoring_policy(p, c) PROVE Forgets
    BY <1>2, <2>1 DEF create_monitoring_policy
  <2>2. ASSUME NEW p \in Policies, NEW c \in CheckLists, NEW on \in BOOLEAN, revise_monitoring_policy(p, c, on)
        PROVE  Forgets
    BY <1>2, <2>2 DEF revise_monitoring_policy
  <2>3. ASSUME NEW p \in Policies, delete_monitoring_policy(p) PROVE Forgets
    BY <1>2, <2>3 DEF delete_monitoring_policy
  <2>4. ASSUME NEW w \in WindowTerms, create_maintenance_window(w) \/ delete_maintenance_window(w)
        PROVE  Forgets
    BY <1>2, <2>4 DEF create_maintenance_window, delete_maintenance_window
  <2>5. ASSUME NEW r \in ActionRequests, NEW a \in Pairs, NEW kind, compose_action(r, a, kind) PROVE Forgets
    BY <1>2, <2>5 DEF compose_action
  <2>6. ASSUME NEW r \in ActionRequests,
               acknowledge_monitoring_alert(r) \/ assign_monitoring_alert(r)
                 \/ comment_on_monitoring_alert(r) \/ resolve_monitoring_alert(r)
        PROVE  Forgets
    BY <1>2, <2>6 DEF acknowledge_monitoring_alert, assign_monitoring_alert,
                      comment_on_monitoring_alert, resolve_monitoring_alert, Annotate, Act
  <2> QED BY <1>4, <2>1, <2>2, <2>3, <2>4, <2>5, <2>6 DEF OperatorNext
<1>5. CASE SendersNext
  BY <1>2, <1>5 DEF SendersNext, SenderStep, TimePasses, alertVars
<1>6. CASE UNCHANGED monitoringVars
  BY <1>2, <1>6 DEF monitoringVars, vars, alertVars
<1>7. CASE OutboxNext /\ UNCHANGED <<clock, lastSeen, patched, policies, windows, results, stored,
                                     observed, forgotten, alerts, actions, txns, notificationVars>>
  BY <1>2, <1>7
<1> QED BY <1>3, <1>4, <1>5, <1>6, <1>7 DEF MonitoringNext, Next

\* What is on its way stays uncounted.
LEMMA UncountedKept ==
  ASSUME ResultInv, ResultInv', CountInv, Sweeps,
         \A a \in Pairs : \A i \in alerts'[a].failures \ alerts[a].failures :
            i \in 1..Len(results) /\ \E n \in 1..Len(stored') : stored'[n] = i
  PROVE  Uncounted'
<1> SUFFICES ASSUME NEW t \in Slots, txns'[t].op = "sweep", NEW a \in Pairs
             PROVE  txns'[t].id \notin alerts'[a].failures
  BY DEF Uncounted
<1>1. \A n \in 1..Len(stored') : stored'[n] # txns'[t].id
  BY DEF ResultInv, Arrivals
<1>2. txns'[t].id \notin alerts[a].failures
  <2>1. CASE txns[t].op = "sweep" /\ txns[t].id = txns'[t].id
    BY <2>1 DEF CountInv, Uncounted
  <2>2. CASE txns'[t].id \notin 1..Len(results)
    BY <2>2 DEF CountInv, Counted
  <2> QED BY <2>1, <2>2 DEF Sweeps
<1> QED BY <1>1, <1>2

\* Nothing is observed and nothing counted at the start.
LEMMA CountsInitially == MonitoringInit => CountInv
<1> SUFFICES ASSUME MonitoringInit PROVE CountInv
  OBVIOUS
<1>1. /\ observed = {} /\ txns = [t \in Slots |-> Free] /\ alerts = [a \in Pairs |-> NoAlert]
  BY DEF MonitoringInit, Init
<1>2. /\ NoAlert.state = "absent" /\ NoAlert.failures = {} /\ NoAlert.total = 0
      /\ NoAlert.occurrences = 0
  BY DEF NoAlert
<1>3. \A a \in Pairs : Counted(a)
  <2>1. IsFiniteSet({}) /\ Cardinality({}) = 0
    BY FS_EmptySet
  <2>2. ~Unresolved(NoAlert)
    BY <1>2 DEF Unresolved
  <2>3. ASSUME NEW a \in Pairs PROVE alerts[a] = NoAlert
    BY <1>1
  <2> SUFFICES ASSUME NEW a \in Pairs PROVE Counted(a)
    OBVIOUS
  <2>4. /\ alerts[a].failures = {} /\ alerts[a].total = 0 /\ alerts[a].occurrences = 0
        /\ ~Unresolved(alerts[a])
    BY <1>2, <2>2, <2>3
  <2>5. IsFiniteSet(alerts[a].failures) /\ alerts[a].total = Cardinality(alerts[a].failures)
    BY <2>1, <2>4
  <2>6. alerts[a].occurrences <= alerts[a].total
    BY <2>4
  <2> QED BY <1>1, <2>4, <2>5, <2>6 DEF Counted
<1> QED BY <1>1, <1>3 DEF CountInv, Uncounted, Free

\* Every step keeps each alert's count with the results observed.
LEMMA CountsStep ==
  ActionInv /\ CountInv /\ [MonitoringNext]_monitoringVars => CountInv'
<1> SUFFICES ASSUME ActionInv, CountInv, [MonitoringNext]_monitoringVars PROVE CountInv'
  OBVIOUS
<1>1. ResultInv /\ ResultInv' /\ AlertTypes /\ AlertTypes' /\ Grow /\ AlertStep /\ Sweeps
      /\ Forgets
  BY ResultsStep, ActionsStep, SweepsStep, ForgetsStep DEF ActionInv, ResultStep
<1>2. ASSUME observed' \subseteq observed, \A a \in Pairs : Counts(alerts[a], alerts'[a])
      PROVE  CountInv'
  <2>1. \A a \in Pairs : Counted(a)'
    BY <1>1, <1>2, CountsKept DEF CountInv
  <2>2. Uncounted'
    BY <1>1, <1>2, UncountedKept DEF Counts
  <2> QED BY <2>1, <2>2 DEF CountInv
<1>3. CASE UNCHANGED alerts /\ observed' \subseteq observed
  BY <1>2, <1>3 DEF Counts
<1>4. ASSUME UNCHANGED observed, NEW p, NEW keys, NEW type, alerts' = PolicyAlerts(p, keys, type)
      PROVE  CountInv'
  BY <1>1, <1>2, <1>4, PolicyFollows
<1>5. ASSUME UNCHANGED observed, NEW r \in ActionRequests, Acts(r) PROVE CountInv'
  <2>1. PICK new : /\ Answers(alerts[actions[r].alert], new, r)
                   /\ alerts' = [alerts EXCEPT ![actions[r].alert] = new]
    BY <1>5 DEF Acts
  <2>2. ASSUME NEW a \in Pairs PROVE Counts(alerts[a], alerts'[a])
    <3>1. CASE a = actions[r].alert
      <4>1. alerts'[a] = new
        BY <1>1, <2>1, <3>1 DEF AlertTypes
      <4> QED BY <2>1, <3>1, <4>1 DEF Answers
    <3>2. CASE a # actions[r].alert
      <4>1. alerts'[a] = alerts[a]
        BY <1>1, <2>1, <3>2 DEF AlertTypes
      <4> QED BY <4>1 DEF Counts
    <3> QED BY <3>1, <3>2
  <2> QED BY <1>2, <1>5, <2>2
<1>6. ASSUME UNCHANGED <<clock, results>>, NEW i, Takes(i) PROVE CountInv'
  <2>1. \A a \in Pairs : Counted(a)' /\ alerts'[a].failures \subseteq alerts[a].failures \cup {i}
    BY <1>1, <1>6, CountTakes
  <2>2. i \in 1..Len(results) /\ \E n \in 1..Len(stored') : stored'[n] = i
    BY <1>6 DEF Takes
  <2>3. Uncounted'
    BY <1>1, <2>1, <2>2, UncountedKept
  <2> QED BY <2>1, <2>3 DEF CountInv
<1> QED BY <1>1, <1>3, <1>4, <1>5, <1>6 DEF AlertStep

(* An alert shows the newest result it has observed, is resolved when that one is
   good, and has counted each failing one once, however late, often and in
   whatever order results arrive, while the server sweeps, operators act, policies
   change and retention prunes: apply_check_result_to_alert of core/monitoring.py.
   Only a result that retention deleted while it was acceptable is counted again. *)
THEOREM AlertsFollowResults == MonitoringSpec => []AlertFollowsResults
<1>1. CountInv => AlertFollowsResults
  BY DEF CountInv, Counted, AlertFollowsResults, Own, NotAfter
<1> QED BY ActionsInitially, ActionsStep, CountsInitially, CountsStep, <1>1, PTL
        DEF MonitoringSpec, monitoringVars

=============================================================================
