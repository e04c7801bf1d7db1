----------------------------- MODULE AuditChain -----------------------------
(***************************************************************************)
(* The audit chain (server/app/core/audit.py), its Merkle anchors          *)
(* (core/anchor.py) and their publication outside the system               *)
(* (core/anchor_publish.py, the publisher of core/tasks.py).               *)
(*                                                                         *)
(* Any handler that audits is a transaction: it records one event or more, *)
(* then commits or is rolled back.  The publisher of each server process   *)
(* reads, then puts one document after another on the medium, and commits  *)
(* at the end: what is on the medium stays there when it does not.         *)
(* A digest is what it is computed from: of an event, everything up to it. *)
(***************************************************************************)
EXTENDS Naturals, Sequences, FiniteSets, FiniteSetsExt, SequencesExt

CONSTANTS
  None,
  Budgets,         \* how often each thing may happen, chosen at the start
  Txns,            \* handlers that audit at once
  Replicas         \* server processes that run the publisher

VARIABLES
  budget,
  events,          \* committed rows of audit_events
  open,            \* Txns -> the events recorded and not yet committed
  ended,           \* how transactions have ended
  anchors,         \* committed rows of audit_anchors with their publication
  medium,          \* the documents outside the system
  publishing       \* Replicas and "operator" -> transaction that makes or publishes anchors

chainVars == <<events, open, ended, anchors, medium, publishing>>

Spend(op) == budget.ops[op] > 0 /\ budget' = [budget EXCEPT !.ops[op] = @ - 1]

_GENESIS == <<>>
_hash_event(prev, seq, what) == Append(prev, <<seq, what>>)

What(action, rec, hold, seen) == [action |-> action, rec |-> rec, hold |-> hold, seen |-> seen]
Upto(rows, n) == {e \in rows : e.seq <= n}
At(rows, n) == CHOOSE e \in rows : e.seq = n
Tail_seq(rows) == Max({e.seq : e \in rows} \cup {0})

_chain_tail(rows) ==
  LET n == Tail_seq(rows) IN [seq |-> n, hash |-> IF n = 0 THEN _GENESIS ELSE At(rows, n).event_hash]

AuditEvent(rows, what) ==
  LET tail == _chain_tail(rows) IN
  [seq |-> tail.seq + 1, prev_hash |-> tail.hash, what |-> what,
   event_hash |-> _hash_event(tail.hash, tail.seq + 1, what)]

\* The events of a transaction that records one after another, and nothing else.
AuditEvents(rows, whats) ==
  LET tail == _chain_tail(rows)
      hash(i) == tail.hash \o [j \in 1..i |-> <<tail.seq + j, whats[j]>>]
  IN {[seq |-> tail.seq + i, prev_hash |-> hash(i - 1), what |-> whats[i], event_hash |-> hash(i)]
        : i \in DOMAIN whats}

InOrder(S, Leq(_, _)) ==
  [i \in 1..Cardinality(S) |-> CHOOSE x \in S : Cardinality({y \in S : Leq(y, x)}) = i]
InSeqOrder(rows) == InOrder(rows, LAMBDA d, e : d.seq <= e.seq)

verify_chain(rows) ==
  LET chain == InSeqOrder(rows) IN
  \A i \in DOMAIN chain :
    /\ chain[i].seq = i
    /\ chain[i].prev_hash = IF i = 1 THEN _GENESIS ELSE chain[i - 1].event_hash
    /\ chain[i].event_hash = _hash_event(chain[i].prev_hash, i, chain[i].what)

(***************************************************************************)
(* Recording                                                               *)
(***************************************************************************)
\* The advisory lock is taken by the first record and held until the end.
Mut_serialize_append(t) == t \in Txns
_serialize_append(t) == \A u \in Txns \ {t} : open[u] = <<>>

record(t) ==
  /\ Spend("append")
  /\ _serialize_append(t)
  /\ open' = [open EXCEPT ![t] =
       Append(@, AuditEvent(events \cup ToSet(@), What("handled", 0, 0, 0)))]
  /\ UNCHANGED <<events, ended, anchors, medium, publishing>>

\* The position is unique: of two events at one position the second is refused.
commit(t) ==
  LET mine == ToSet(open[t])
      clash == \E d \in mine, e \in events : d.seq = e.seq
  IN  /\ open[t] # <<>>
      /\ open' = [open EXCEPT ![t] = <<>>]
      /\ events' = IF clash THEN events ELSE events \cup mine
      /\ ended' = ended \cup {IF clash THEN "conflict" ELSE "committed"}
      /\ UNCHANGED <<budget, anchors, medium, publishing>>

rollback(t) ==
  /\ Spend("fault")
  /\ open[t] # <<>>
  /\ open' = [open EXCEPT ![t] = <<>>]
  /\ ended' = ended \cup {"rolled_back"}
  /\ UNCHANGED <<events, anchors, medium, publishing>>

\* A handler that records once, at its end.
Unlocked == \A t \in Txns : open[t] = <<>>
Audits(what) == Unlocked /\ events' = events \cup {AuditEvent(events, what)}

(***************************************************************************)
(* Anchors                                                                 *)
(***************************************************************************)
\* One level of the tree: pairs are hashed, an odd last one is promoted.
Level(nodes) ==
  [i \in 1..((Len(nodes) + 1) \div 2) |->
     IF 2 * i <= Len(nodes) THEN <<nodes[2 * i - 1], nodes[2 * i]>> ELSE nodes[2 * i - 1]]
\* After as many levels as there were nodes one is left: a level leaves one as it is.
merkle_root(nodes) ==
  LET level[k \in 0..Len(nodes)] == IF k = 0 THEN nodes ELSE Level(level[k - 1])
  IN  level[Len(nodes)][1]

Root(rows) == LET chain == InSeqOrder(rows) IN merkle_root([i \in DOMAIN chain |-> chain[i].event_hash])

Ids(rows) == {a.id : a \in rows}
fresh_id == 1 + Max({0} \cup Ids(anchors) \cup Ids(medium)
                    \cup UNION {Ids(publishing[p].rows) : p \in DOMAIN publishing})
create_anchor ==
  [id |-> fresh_id, event_count |-> Cardinality(events), last |-> _chain_tail(events).hash,
   root |-> Root(events), row |-> "none", receipt |-> None]

verify_anchor(a) ==
  LET covered == Upto(events, a.event_count) IN
  /\ Cardinality(covered) = a.event_count
  /\ _chain_tail(covered).hash = a.last
  /\ Root(covered) = a.root

(***************************************************************************)
(* Publication                                                             *)
(***************************************************************************)
_object_key(a) == <<a.event_count, a.root>>
canonical_anchor_document(a) == [key |-> _object_key(a), id |-> a.id]

\* A file that exists must hold the same bytes; a bucket keeps every version.
publishable(a) ==
  budget.backend = "s3" \/ \A m \in medium : m.key = _object_key(a) => m.id = a.id

put_document(a) ==
  IF budget.backend # "s3" /\ \E m \in medium : m.key = _object_key(a) THEN {}
  ELSE {canonical_anchor_document(a)}

NoPublication == [on |-> FALSE, todo |-> <<>>, was |-> {}, rows |-> {}]
With(rows, a) == {b \in rows : b.id # a.id} \cup {a}

_unpublished_anchors == {a \in anchors : a.row # "published"}

ensure_current_anchor ==
  IF Cardinality(events) > Max({a.event_count : a \in anchors} \cup {0})
  THEN {create_anchor} ELSE {}

_publish_once(p) ==
  LET fresh == ensure_current_anchor
      todo == _unpublished_anchors \cup fresh
  IN  /\ ~publishing[p].on /\ todo # {}
      /\ \E list \in SetToSeqs(todo) :
           /\ \A i, j \in DOMAIN list : i < j => \/ list[i].event_count < list[j].event_count
                                               \/ /\ list[i].event_count = list[j].event_count
                                                  /\ list[i].id < list[j].id
           /\ publishing' = [publishing EXCEPT ![p] =
                [on |-> TRUE, todo |-> list, was |-> fresh, rows |-> fresh]]
      /\ UNCHANGED <<budget, events, open, ended, anchors, medium>>

\* The publication row as this transaction selects it.
Selected(p, a) == CHOOSE b \in publishing[p].rows \cup anchors : b.id = a.id

\* Another process is inserting the publication row of this anchor.
_publication_row(p, a) ==
  /\ \E q \in Replicas \ {p} : \E b \in publishing[q].rows : b.id = a.id /\ b.row # "none"
  /\ Selected(p, a).row = "none"

publish_pending(p) ==
  LET a == Head(publishing[p].todo)
      row == Selected(p, a)
      Wrote(r) == publishing' = [publishing EXCEPT ![p] =
                    [publishing[p] EXCEPT !.todo = Tail(@), !.was = With(@, row), !.rows = With(@, r)]]
  IN  /\ publishing[p].on /\ publishing[p].todo # <<>>
      /\ \/ /\ ~_publication_row(p, a) /\ publishable(a)
            /\ medium' = medium \cup put_document(a)
            /\ Wrote([row EXCEPT !.row = "published", !.receipt = a.id])
            /\ UNCHANGED budget
         \/ /\ ~_publication_row(p, a) /\ publishable(a)
            /\ Spend("outage")
            /\ Wrote([row EXCEPT !.row = "pending"])
            /\ UNCHANGED medium
         \/ /\ ~_publication_row(p, a) /\ ~publishable(a)
            /\ Wrote([row EXCEPT !.row = "pending"])
            /\ UNCHANGED <<budget, medium>>
         \/ /\ _publication_row(p, a)
            /\ publishing' = [publishing EXCEPT ![p] = NoPublication]
            /\ UNCHANGED <<budget, medium>>
      /\ UNCHANGED <<events, open, ended, anchors>>

\* Only the columns that were changed are written.
Saved(p, a) ==
  IF a.id \notin Ids(publishing[p].rows) THEN a
  ELSE LET new == CHOOSE b \in publishing[p].rows : b.id = a.id
           was == CHOOSE b \in publishing[p].was : b.id = a.id
       IN  [a EXCEPT !.row = IF new.row # was.row THEN new.row ELSE @,
                     !.receipt = IF new.receipt # was.receipt THEN new.receipt ELSE @]

Publishes(p) ==
  anchors' = {Saved(p, a) : a \in anchors}
             \cup {a \in publishing[p].rows : a.id \notin Ids(anchors)}

publish_commit(p) ==
  /\ publishing[p].on /\ publishing[p].todo = <<>>
  /\ Publishes(p)
  /\ publishing' = [publishing EXCEPT ![p] = NoPublication]
  /\ UNCHANGED <<budget, events, open, ended, medium>>

\* An operator's anchor: made from what is read, committed with its event.
create_audit_anchor_load ==
  /\ Spend("anchor")
  /\ events # {} /\ ~publishing["operator"].on
  /\ LET a == create_anchor IN
     publishing' = [publishing EXCEPT !["operator"] =
                      [on |-> TRUE, todo |-> <<>>, was |-> {a}, rows |-> {a}]]
  /\ UNCHANGED <<events, open, ended, anchors, medium>>

create_audit_anchor ==
  /\ publishing["operator"].on
  /\ Audits(What("anchored", 0, 0, 0))
  /\ Publishes("operator")
  /\ publishing' = [publishing EXCEPT !["operator"] = NoPublication]
  /\ UNCHANGED <<budget, open, ended, medium>>

\* The process ends between two steps: its transaction is rolled back.
publisher_crashes(p) ==
  /\ Spend("fault")
  /\ publishing[p].on
  /\ publishing' = [publishing EXCEPT ![p] = NoPublication]
  /\ UNCHANGED <<events, open, ended, anchors, medium>>

ChainInit ==
  /\ events = {}
  /\ open = [t \in Txns |-> <<>>]
  /\ ended = {}
  /\ anchors = {}
  /\ medium = {}
  /\ publishing = [p \in Replicas \cup {"operator"} |-> NoPublication]

Publishing(p) == p \in budget.replicas /\ (_publish_once(p) \/ publish_pending(p) \/ publish_commit(p))

ChainNext ==
  \/ \E t \in Txns : record(t) \/ commit(t) \/ rollback(t)
  \/ \E p \in Replicas : Publishing(p) \/ publisher_crashes(p)
  \/ create_audit_anchor_load \/ create_audit_anchor

----------------------------------------------------------------------------
(* However transactions that audit overlap, fail and are rolled back, the committed
   events always form one chain without a gap or a fork, and none of them is refused
   because another one took its place (core/audit.py: the lock, the unique seq).
   Every anchor stays true of the chain as it grows, and an anchor that is called
   published has its own document on the medium, also after a process that ended
   between the put and the commit, and when two anchors cover the same events. *)
ChainUnbroken ==
  /\ verify_chain(events) /\ "conflict" \notin ended
  /\ \A a \in anchors : /\ verify_anchor(a)
                        /\ a.row = "published" => canonical_anchor_document(a) \in medium
=============================================================================
