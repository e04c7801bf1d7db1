----------------------------- MODULE MCEvidence -----------------------------
(* One tenant with two packages and two holds, on a file system or in a bucket:
   instances with transactions and anchors that overlap, with packages that are
   held, checked, damaged and disposed of, and with both. *)
EXTENDS EvidenceVault

None0 == [append |-> 0, anchor |-> 0, export |-> 0, store |-> 0, hold |-> 0, release |-> 0,
          verify |-> 0, download |-> 0, dispose |-> 0, outage |-> 0, fault |-> 0, damage |-> 0]
MCBudgets ==
  {[backend |-> "filesystem", replicas |-> {"p"}, handlers |-> 0, clock |-> 0, sweeps |-> FALSE,
    ops |-> [None0 EXCEPT !.append = 2, !.anchor = 1, !.fault = 1]],
   [backend |-> "s3", replicas |-> {"p", "q"}, handlers |-> 0, clock |-> 0, sweeps |-> FALSE,
    ops |-> [None0 EXCEPT !.append = 2, !.outage = 1, !.fault = 1]],
   [backend |-> "s3", replicas |-> {"p", "q"}, handlers |-> 0, clock |-> 0, sweeps |-> FALSE,
    ops |-> [None0 EXCEPT !.append = 1, !.anchor = 1]],
   [backend |-> "s3", replicas |-> {"p"}, handlers |-> 2, clock |-> 0, sweeps |-> FALSE,
    ops |-> [None0 EXCEPT !.append = 2, !.export = 2, !.anchor = 1, !.outage = 1]],
   [backend |-> "s3", replicas |-> {}, handlers |-> 2, clock |-> 0, sweeps |-> TRUE,
    ops |-> [None0 EXCEPT !.append = 1, !.store = 1, !.hold = 2, !.release = 1, !.outage = 1]],
   [backend |-> "s3", replicas |-> {}, handlers |-> 2, clock |-> 0, sweeps |-> TRUE,
    ops |-> [None0 EXCEPT !.append = 1, !.store = 1, !.hold = 1, !.fault = 1, !.damage = 1]],
   [backend |-> "s3", replicas |-> {}, handlers |-> 2, clock |-> 1, sweeps |-> TRUE,
    ops |-> [None0 EXCEPT !.append = 1, !.store = 1, !.hold = 1, !.release = 1, !.dispose = 2]],
   [backend |-> "filesystem", replicas |-> {}, handlers |-> 2, clock |-> 0, sweeps |-> TRUE,
    ops |-> [None0 EXCEPT !.append = 1, !.store = 2, !.verify = 1, !.download = 1, !.damage = 1]],
   [backend |-> "filesystem", replicas |-> {}, handlers |-> 2, clock |-> 1, sweeps |-> TRUE,
    ops |-> [None0 EXCEPT !.append = 1, !.store = 1, !.hold = 1, !.dispose = 1, !.fault = 1]]}
=============================================================================
