--------------------------- MODULE EvidenceVault ---------------------------
(***************************************************************************)
(* Evidence of one tenant: bundles and signed packages made from the audit *)
(* chain (server/app/core/evidence_bundles.py, evidence_packages.py), and  *)
(* the vault that keeps packages under retention and legal holds           *)
(* (core/evidence_vault.py, api/evidence_vault.py, the sweeper of          *)
(* core/tasks.py), on a file system or in a bucket with object lock.       *)
(*                                                                         *)
(* The storage is changed at once, the rows when a handler commits: a      *)
(* handler is the steps between which others may run.  A hold is read, and *)
(* the storage told, in one step.  A package is known by what determines   *)
(* its bytes: the prefix of the chain and the anchor with its receipt.     *)
(***************************************************************************)
EXTENDS AuditChain

CONSTANTS
  RecordIds, HoldIds,   \* positive numbers; 0 is the whole tenant
  Retention,            \* evidence_vault_retention_days
  BatchSize             \* evidence_vault_verify_batch_size

Ops == {"append", "anchor", "export", "store", "hold", "release", "verify", "download", "dispose",
        "outage", "fault", "damage"}

ASSUME EvidenceAssumption ==
  /\ None \notin Nat /\ "operator" \notin Replicas /\ IsFiniteSet(Replicas)
  /\ IsFiniteSet(RecordIds) /\ RecordIds \subseteq Nat \ {0}
  /\ Retention \in Nat /\ BatchSize \in Nat
  /\ Budgets \subseteq [backend : {"filesystem", "s3"}, replicas : SUBSET Replicas, handlers : Nat,
                       clock : Nat, sweeps : BOOLEAN, ops : [Ops -> Nat]]

VARIABLES
  now,
  rows,            \* evidence_vault_records
  queue,           \* the stored records in the order of last_verified_at
  holds,           \* evidence_legal_holds
  objects,         \* what the storage holds
  handlers,
  answers          \* what building a bundle has answered

vaultVars == <<now, rows, queue, holds, objects, handlers, answers>>
vars == <<budget, chainVars, vaultVars>>

FAILING_STATES == {"tampered", "missing", "lock_drift"}
enforces_lock == budget.backend = "s3"

EvidenceVaultRecord == [state |-> "absent", package |-> <<>>, version |-> 0, until |-> 0,
                        backend_legal_hold |-> FALSE, integrity |-> "unverified"]
EvidenceLegalHold == [status |-> "absent", scope |-> 0]

Init ==
  /\ budget \in Budgets
  /\ ChainInit
  /\ now = 0
  /\ rows = [r \in RecordIds |-> EvidenceVaultRecord]
  /\ queue = <<>>
  /\ holds = [k \in HoldIds |-> EvidenceLegalHold]
  /\ objects = {}
  /\ handlers = {}
  /\ answers = {}

Room == Cardinality(handlers) < budget.handlers
Start(h) == handlers' = handlers \cup {h}
Ends(h) == handlers' = handlers \ {h}
Becomes(h, g) == handlers' = (handlers \ {h}) \cup {g}

(***************************************************************************)
(* Bundles and packages                                                    *)
(***************************************************************************)
\* Events of an anchor belong to no tenant.
selected_events(prefix) == {e \in prefix : e.what.action # "anchored"}

Mutapplicable_anchor(through) ==
  LET last == {a \in anchors : \A b \in anchors : b.event_count <= a.event_count}
  IN  {a \in last : \A b \in last : b.id <= a.id}
applicable_anchor(through) ==
  LET within == {a \in anchors : a.event_count <= through}
      last == {a \in within : \A b \in within : b.event_count <= a.event_count}
  IN  {a \in last : \A b \in last : b.id <= a.id}

verify_receipt(a) == a.row = "published" /\ a.receipt # None

\* The anchor is checked against the prefix that was read, not against the table.
anchor_intact(a, prefix) ==
  LET covered == Upto(prefix, a.event_count) IN
  /\ Cardinality(covered) = a.event_count
  /\ _chain_tail(covered).hash = a.last
  /\ Root(covered) = a.root
receipts_intact(a) == IF a.row = "published" THEN verify_receipt(a) ELSE a.receipt = None

\* Of the sections, those that the chain determines: the tenant's own tables are
\* taken as they are and have no part in what is verified.
records(prefix, through) ==
  [hashes |-> [i \in 1..Cardinality(prefix) |-> At(prefix, i).event_hash],
   events |-> selected_events(prefix),
   anchors |-> applicable_anchor(through)]
_build_document(prefix, through) == [through |-> through, records |-> records(prefix, through)]

verify_bundle_document(doc) ==
  LET hashes == doc.records.hashes IN
  /\ Len(hashes) = doc.through
  /\ \A e \in doc.records.events :
       /\ e.seq \in DOMAIN hashes /\ hashes[e.seq] = e.event_hash
       /\ e.prev_hash = IF e.seq = 1 THEN _GENESIS ELSE hashes[e.seq - 1]
       /\ e.event_hash = _hash_event(e.prev_hash, e.seq, e.what)
  /\ \A a \in doc.records.anchors :
       /\ a.event_count \in DOMAIN hashes
       /\ hashes[a.event_count] = a.last
       /\ merkle_root(SubSeq(hashes, 1, a.event_count)) = a.root

build_signed_package(doc) == [through |-> doc.through, receipts |-> doc.records.anchors, evidence |-> doc]

verify_signed_package(p) ==
  /\ verify_bundle_document(p.evidence)
  /\ p.through = p.evidence.through
  /\ p.receipts = p.evidence.records.anchors

\* What a request for the events up to "through" is answered.
build_bundle(through) ==
  LET prefix == Upto(events, through) IN
  CASE ~verify_chain(prefix) -> "audit_chain_not_intact"
    [] \E a \in applicable_anchor(through) : ~anchor_intact(a, prefix) -> "audit_anchor_not_intact"
    [] \E a \in applicable_anchor(through) : ~receipts_intact(a) -> "anchor_receipt_not_intact"
    [] ~verify_signed_package(build_signed_package(_build_document(prefix, through))) ->
         "evidence_package_verification_failed"
    [] OTHER -> "ok"

package_id(through) ==
  <<through, {[id |-> a.id, row |-> a.row, receipt |-> a.receipt] : a \in applicable_anchor(through)}>>

export_load == \E through \in 1..Tail_seq(events) :
  /\ Spend("export") /\ Room
  /\ Start([op |-> "export", through |-> through])
  /\ UNCHANGED <<chainVars, now, rows, queue, holds, objects, answers>>

\* The export is audited after it is made; a refusal is not.
export_evidence_bundle(h) ==
  /\ h.op = "export" /\ Ends(h)
  /\ answers' = answers \cup {build_bundle(h.through)}
  /\ Unlocked
  /\ events' = events \cup (IF build_bundle(h.through) = "ok"
                            THEN {AuditEvent(events, What("exported", 0, 0, 0))} ELSE {})
  /\ UNCHANGED <<budget, open, ended, anchors, medium, publishing,
                 now, rows, queue, holds, objects>>

(***************************************************************************)
(* Holds                                                                   *)
(***************************************************************************)
Mut_covering_hold_clause(table, r) == \E k \in HoldIds : table[k] = [status |-> "active", scope |-> r]
_covering_hold_clause(table, r) ==
  \E k \in HoldIds : table[k].status = "active" /\ table[k].scope \in {0, r}

hold_active_for(r) == _covering_hold_clause(holds, r)
tenant_hold_active == \E k \in HoldIds : holds[k].status = "active" /\ holds[k].scope = 0

\* The holds as a handler sees them: with the one it has flushed.
SeenBy(h) == IF h.op \in {"placed", "released"}
             THEN [holds EXCEPT ![h.hold] = [status |-> h.status, scope |-> h.scope]] ELSE holds

Stored == {r \in RecordIds : rows[r].state = "stored"}
ObjectOf(r) == {o \in objects : o.package = rows[r].package /\ o.version = rows[r].version}

\* The storage call of reconcile_hold; it fails when the object is gone.
Mutreconciles(h, r) ==
  /\ enforces_lock /\ h.op # "sweep"
  /\ h.new[r].backend_legal_hold # _covering_hold_clause(SeenBy(h), r)
reconciles(h, r) ==
  /\ enforces_lock
  /\ h.new[r].backend_legal_hold # _covering_hold_clause(SeenBy(h), r)

_covered_records(scope) == IF scope = 0 THEN Stored ELSE Stored \cap {scope}
Listed(S) == InOrder(S, <=)
Jobs(s, checked) == [i \in DOMAIN s |-> [rec |-> s[i], checked |-> checked]]
\* A handler with a list of records to reconcile or check, as they were read.
Batch(op, hold, todo) ==
  LET read == [r \in {todo[i].rec : i \in DOMAIN todo} |-> rows[r]] IN
  [op |-> op, hold |-> hold.id, status |-> hold.status, scope |-> hold.scope, todo |-> todo,
   verified |-> {todo[i].rec : i \in {j \in DOMAIN todo : todo[j].checked}},
   was |-> read, new |-> read]
NoHold == [id |-> 0, status |-> "absent", scope |-> 0]

\* Holds that are being placed on the scope, or were, refuse another one.
place_legal_hold_load(k, scope) ==
  /\ Spend("hold") /\ Room
  /\ scope \in Stored \cup {0}
  /\ holds[k].status = "absent" /\ \A h \in handlers : h.op = "placed" => h.hold # k /\ h.scope # scope
  /\ \A j \in HoldIds : ~(holds[j].status = "active" /\ holds[j].scope = scope)
  /\ Start(Batch("placed", [id |-> k, status |-> "active", scope |-> scope],
                 Jobs(Listed(_covered_records(scope)), FALSE)))
  /\ UNCHANGED <<chainVars, now, rows, queue, holds, objects, answers>>

release_legal_hold_load(k) ==
  /\ Spend("release") /\ Room
  /\ holds[k].status = "active"
  /\ Start(Batch("released", [id |-> k, status |-> "released", scope |-> holds[k].scope],
                 Jobs(Listed(_covered_records(holds[k].scope)), FALSE)))
  /\ UNCHANGED <<chainVars, now, rows, queue, holds, objects, answers>>

(***************************************************************************)
(* Verification                                                            *)
(***************************************************************************)
_check(stored, held, reachable) ==
  CASE ~reachable -> "unavailable"
    [] stored = {} -> "missing"
    [] \E o \in stored : ~o.intact -> "tampered"
    [] enforces_lock /\ held /\ (\E o \in stored : ~o.hold) -> "lock_drift"
    [] OTHER -> "intact"

verify_evidence_load(r) ==
  /\ Spend("verify") /\ Room
  /\ r \in Stored
  /\ Start(Batch("verified", NoHold, Jobs(<<r>>, TRUE)))
  /\ UNCHANGED <<chainVars, now, rows, queue, holds, objects, answers>>

drifted == {r \in Stored : enforces_lock /\ rows[r].backend_legal_hold # hold_active_for(r)}
FirstOf(s) == SubSeq(s, 1, IF Len(s) < BatchSize THEN Len(s) ELSE BatchSize)
Mutverify_queue == FirstOf(Reverse(queue))
verify_queue == FirstOf(queue)

sweep ==
  /\ Stored # {} /\ budget.sweeps
  /\ \A h \in handlers : h.op # "sweep"
  /\ Start(Batch("sweep", NoHold,
                 Jobs(FirstOf(Listed(drifted)), FALSE) \o Jobs(verify_queue, TRUE)))
  /\ UNCHANGED <<budget, chainVars, now, rows, queue, holds, objects, answers>>

\* One record of a handler's list: the hold is told to the storage where it
\* differs, then the object is checked.  The storage may not answer.
reconcile_hold(h) == \E reachable \in BOOLEAN :
  LET job == Head(h.todo)
      r == job.rec
      held == _covering_hold_clause(SeenBy(h), r)
      told == reachable /\ reconciles(h, r) /\ ObjectOf(r) # {}
      kept == IF told THEN {[o EXCEPT !.hold = held] : o \in ObjectOf(r)} ELSE ObjectOf(r)
  IN  /\ h.op \in {"placed", "released", "verified", "sweep"} /\ h.todo # <<>>
      /\ IF reachable THEN UNCHANGED budget
         ELSE Spend("outage") /\ (job.checked \/ reconciles(h, r))
      /\ objects' = (objects \ ObjectOf(r)) \cup kept
      /\ Becomes(h, [h EXCEPT !.todo = Tail(@),
                       !.new[r].backend_legal_hold = IF told THEN held ELSE @,
                       !.new[r].integrity = IF job.checked THEN _check(kept, held, reachable) ELSE @])
      /\ UNCHANGED <<chainVars, now, rows, queue, holds, answers>>

\* Only the columns that were changed are written.
Writes(h) ==
  [r \in RecordIds |->
     IF r \notin DOMAIN h.new THEN rows[r]
     ELSE [rows[r] EXCEPT
             !.backend_legal_hold = IF h.new[r].backend_legal_hold # h.was[r].backend_legal_hold
                                    THEN h.new[r].backend_legal_hold ELSE @,
             !.integrity = IF h.new[r].integrity # h.was[r].integrity THEN h.new[r].integrity ELSE @]]

hold_commit(h) ==
  /\ h.op \in {"placed", "released"} /\ h.todo = <<>>
  /\ Audits(What(h.op, h.scope, h.hold, 0))
  /\ holds' = SeenBy(h)
  /\ rows' = Writes(h)
  /\ Ends(h)
  /\ UNCHANGED <<budget, open, ended, anchors, medium, publishing, now, queue, objects, answers>>

Rotated(h) == SelectSeq(queue, LAMBDA r : r \notin h.verified)
              \o SelectSeq(queue, LAMBDA r : r \in h.verified)

verify_evidence(h) ==
  /\ h.op = "verified" /\ h.todo = <<>>
  /\ Audits(What("verified", 0, 0, 0))
  /\ rows' = Writes(h)
  /\ queue' = Rotated(h)
  /\ Ends(h)
  /\ UNCHANGED <<budget, open, ended, anchors, medium, publishing, now, holds, objects, answers>>

\* Only what fails now and did not before is audited.
_vault_sweep_once(h) ==
  LET newly_failing == {r \in RecordIds : /\ r \in h.verified
                                          /\ h.new[r].integrity \in FAILING_STATES
                                          /\ h.new[r].integrity # h.was[r].integrity}
  IN  /\ h.op = "sweep" /\ h.todo = <<>>
      /\ newly_failing # {} => Unlocked
      /\ events' = events \cup AuditEvents(events,
                      [i \in DOMAIN Listed(newly_failing) |->
                         What("verified", Listed(newly_failing)[i], 0, 0)])
      /\ rows' = Writes(h)
      /\ queue' = Rotated(h)
      /\ Ends(h)
      /\ UNCHANGED <<budget, open, ended, anchors, medium, publishing, now, holds, objects, answers>>

\* A download reads the object before the answer; a failing one is marked.
download_evidence(r) ==
  LET stored == ObjectOf(r)
      found == _check(stored, FALSE, TRUE)
  IN  /\ Spend("download")
      /\ r \in Stored
      /\ IF found = "intact" THEN Audits(What("retrieved", r, 0, 0)) /\ UNCHANGED rows
         ELSE rows' = [rows EXCEPT ![r].integrity = found] /\ UNCHANGED events
      /\ UNCHANGED <<open, ended, anchors, medium, publishing,
                     now, queue, holds, objects, handlers, answers>>

(***************************************************************************)
(* Storing                                                                 *)
(***************************************************************************)
store_evidence_load == \E r \in RecordIds, through \in 1..Tail_seq(events) :
  /\ Spend("store") /\ Room
  /\ rows[r].state = "absent" /\ \A h \in handlers : h.op = "stored" => h.rec # r
  /\ \A q \in RecordIds : q < r => \/ rows[q].state # "absent"
                                  \/ \E h \in handlers : h.op = "stored" /\ h.rec = q
  /\ Start([op |-> "stored", rec |-> r, through |-> through, step |-> "load",
            package |-> <<>>, until |-> 0, held |-> FALSE])
  /\ UNCHANGED <<chainVars, now, rows, queue, holds, objects, answers>>

Existing(package) == {q \in RecordIds : rows[q].state # "absent" /\ rows[q].package = package}

\* A file that exists is left; a bucket takes a new version, named after the request.
put(package, r, held) ==
  IF enforces_lock \/ \A o \in objects : o.package # package
  THEN {[package |-> package, version |-> IF enforces_lock THEN r ELSE 0,
         until |-> now + Retention, hold |-> held /\ enforces_lock, intact |-> TRUE]}
  ELSE {}
put_refused(package) == ~enforces_lock /\ \E o \in objects : o.package = package /\ ~o.intact

store_package(h) == \E reachable \in BOOLEAN :
  LET package == package_id(h.through)
      answer == build_bundle(h.through)
      Step(step) == Becomes(h, [h EXCEPT !.step = step, !.package = package, !.until = now + Retention,
                                         !.held = tenant_hold_active /\ enforces_lock])
  IN  /\ h.op = "stored" /\ h.step = "load"
      /\ reachable \/ (answer = "ok" /\ Existing(package) = {})
      /\ IF reachable THEN UNCHANGED budget ELSE Spend("outage")
      /\ answers' = answers \cup {answer}
      /\ CASE answer # "ok" \/ (\E q \in Existing(package) : rows[q].state = "stored") ->
                Ends(h) /\ UNCHANGED objects
           [] \/ ~reachable \/ put_refused(package) \/ Existing(package) # {} ->
                Step("failed") /\ UNCHANGED objects
           [] OTHER -> Step("put") /\ objects' = objects \cup put(package, h.rec, tenant_hold_active)
      /\ UNCHANGED <<chainVars, now, rows, queue, holds>>

\* The package is unique: of two that put it at once the second is rolled back.
store_evidence(h) ==
  LET clash == h.step = "put" /\ Existing(h.package) # {} IN
  /\ h.op = "stored" /\ h.step # "load"
  /\ Ends(h)
  /\ IF clash THEN UNCHANGED events
     ELSE Audits(What(IF h.step = "put" THEN "stored" ELSE "store_failed", h.rec, 0, 0))
  /\ rows' = IF clash \/ h.step = "failed" THEN rows
             ELSE [rows EXCEPT ![h.rec] =
                     [state |-> "stored", package |-> h.package, until |-> h.until,
                      version |-> IF enforces_lock THEN h.rec ELSE 0,
                      backend_legal_hold |-> h.held, integrity |-> "intact"]]
  /\ queue' = IF rows' = rows THEN queue ELSE Append(queue, h.rec)
  /\ UNCHANGED <<budget, open, ended, anchors, medium, publishing, now, holds, objects, answers>>

(***************************************************************************)
(* Disposal                                                                *)
(***************************************************************************)
deletion_denial(r) == rows[r].state # "stored" \/ hold_active_for(r) \/ rows[r].until > now

dispose_evidence_load(r) ==
  /\ Spend("dispose") /\ Room
  /\ rows[r].state # "absent"
  /\ IF deletion_denial(r)
     THEN Audits(What("deletion_denied", r, 0, 0)) /\ UNCHANGED handlers
     ELSE /\ Start([op |-> "deleted", rec |-> r, step |-> "load", seen |-> Tail_seq(events)])
          /\ UNCHANGED events
  /\ UNCHANGED <<open, ended, anchors, medium, publishing,
                 now, rows, queue, holds, objects, answers>>

\* The storage refuses while its own lock stands; an object already gone is deleted.
dispose_record(h) == \E reachable \in BOOLEAN :
  LET locked == enforces_lock /\ \E o \in ObjectOf(h.rec) : o.hold \/ o.until > now IN
  /\ h.op = "deleted" /\ h.step = "load"
  /\ IF reachable THEN UNCHANGED budget ELSE Spend("outage")
  /\ IF ~reachable THEN Ends(h)
     ELSE Becomes(h, [h EXCEPT !.step = IF locked THEN "refused" ELSE "gone"])
  /\ objects' = IF ~reachable \/ locked THEN objects ELSE objects \ ObjectOf(h.rec)
  /\ UNCHANGED <<chainVars, now, rows, queue, holds, answers>>

dispose_evidence(h) ==
  /\ h.op = "deleted" /\ h.step # "load"
  /\ Audits(IF h.step = "gone" THEN What("deleted", h.rec, 0, h.seen) ELSE What("deletion_denied", h.rec, 0, 0))
  /\ rows' = IF h.step = "gone" THEN [rows EXCEPT ![h.rec].state = "deleted"]
             ELSE [rows EXCEPT ![h.rec].integrity = "lock_drift"]
  /\ queue' = IF h.step = "gone" THEN SelectSeq(queue, LAMBDA r : r # h.rec) ELSE queue
  /\ Ends(h)
  /\ UNCHANGED <<budget, open, ended, anchors, medium, publishing, now, holds, objects, answers>>

(***************************************************************************)
(* Outside the handlers                                                    *)
(***************************************************************************)
\* A process ends, or a commit fails: nothing of the rows, all of the storage stays.
handler_fails(h) ==
  /\ Spend("fault")
  /\ Ends(h)
  /\ UNCHANGED <<chainVars, now, rows, queue, holds, objects, answers>>

\* An object is lost or altered, or its hold is taken away, outside the server.
storage_damaged == \E o \in objects, kept \in SUBSET {"altered", "unlocked"} :
  /\ Spend("damage")
  /\ Cardinality(kept) < 2
  /\ objects' = (objects \ {o})
       \cup (IF kept = {} THEN {}
             ELSE {[o EXCEPT !.intact = @ /\ "altered" \notin kept,
                             !.hold = @ /\ "unlocked" \notin kept]})
  /\ UNCHANGED <<chainVars, now, rows, queue, holds, handlers, answers>>

tick ==
  /\ now < budget.clock
  /\ now' = now + 1
  /\ UNCHANGED <<budget, chainVars, rows, queue, holds, objects, handlers, answers>>

Commit(h) == \/ export_evidence_bundle(h) \/ hold_commit(h) \/ verify_evidence(h)
             \/ store_evidence(h) \/ dispose_evidence(h)
StorageCall(h) == reconcile_hold(h) \/ store_package(h) \/ dispose_record(h)

Next ==
  \/ ChainNext /\ UNCHANGED vaultVars
  \/ export_load \/ store_evidence_load
  \/ \E k \in HoldIds : \/ \E scope \in RecordIds \cup {0} : place_legal_hold_load(k, scope)
                        \/ release_legal_hold_load(k)
  \/ \E r \in RecordIds : verify_evidence_load(r) \/ download_evidence(r) \/ dispose_evidence_load(r)
  \/ sweep
  \/ \E h \in handlers : StorageCall(h) \/ Commit(h) \/ _vault_sweep_once(h) \/ handler_fails(h)
  \/ storage_damaged \/ tick

\* The sweeper is woken at its interval and ends its passes, and a transaction that
\* holds the lock of the chain ends.  No other handler need ever go on.
Fairness ==
  /\ WF_vars(sweep)
  /\ WF_vars(\E h \in handlers : h.op = "sweep" /\ (reconcile_hold(h) \/ _vault_sweep_once(h)))
  /\ WF_vars(\E t \in Txns : commit(t) /\ UNCHANGED vaultVars)

Spec == Init /\ [][Next]_vars /\ Fairness

----------------------------------------------------------------------------
(* Nobody is told that the audit trail was tampered with, or that a package does not
   verify, when nobody touched it: a bundle pins the prefix it read first, and anchors
   and events committed while it is built do not disturb it.  (With one publisher: of
   two, one may mark an anchor pending that the other has published.) *)
NoFalseAlarm == Cardinality(budget.replicas) <= 1 => answers \subseteq {"ok"}

(* The audit chain accounts for every disposal: the package's retention had ended,
   and every hold on it that was placed before the disposal was checked had been
   released by then, be it a hold on the package or on the whole tenant. *)
DisposalsExplained ==
  \A d \in events : d.what.action = "deleted" =>
    /\ rows[d.what.rec].until <= now
    /\ \A p \in Upto(events, d.what.seen) :
         p.what.action = "placed" /\ p.what.rec \in {0, d.what.rec} =>
           \E q \in Upto(events, d.what.seen) : q.what.action = "released" /\ q.what.hold = p.what.hold

(* A hold reaches the storage in the end: of a stored package under a hold the object
   is locked too, or its unlocking outside the server is reported, whichever storage
   call failed, whichever handler died, and although the package was being stored when
   the hold was placed. *)
HoldsReconcile ==
  <>[](enforces_lock /\ budget.sweeps => \A r \in Stored : \A o \in ObjectOf(r) :
         hold_active_for(r) /\ o.intact /\ ~o.hold =>
           rows[r].backend_legal_hold /\ rows[r].integrity = "lock_drift")

(* Damage to a stored object is found in the end, on every record, though a pass of
   the sweeper takes only a few of them. *)
DamageFound ==
  <>[](budget.sweeps => \A r \in Stored :
         (ObjectOf(r) = {} \/ \E o \in ObjectOf(r) : ~o.intact) => rows[r].integrity \in FAILING_STATES)
=============================================================================
