------------------------------ MODULE MCFleet ------------------------------
(* Rollouts: two releases of a channel over three endpoints, x and y ready for
   the updates, z of a version it has not reported; the serial instances take
   one request at a time, the others two.  Routes: two relays in two regions.
   Enrollment: two machines and two tokens, two requests at once. *)
EXTENDS Fleet

CONSTANTS r1, r2, x, y, z, v1, v2, k1, k2, c1, c2, n1, m1, m2

V(core, pre) == [core |-> core, pre |-> pre]
MCReleaseTerms ==
  {[version |-> V(2, 1), min |-> V(1, 0), channel |-> "beta", platform |-> "windows/amd64",
    threshold |-> 50, minAttempts |-> 1],
   [version |-> V(2, 0), min |-> V(1, 0), channel |-> "beta", platform |-> "windows/amd64",
    threshold |-> 50, minAttempts |-> 2],
   [version |-> V(1, 0), min |-> V(2, 0), channel |-> "beta", platform |-> "windows/amd64",
    threshold |-> 50, minAttempts |-> 2]}
MCBucket == [r \in {r1, r2} |-> [a \in {x, y, z} |-> CASE a = x -> 10 [] a = y -> 60 [] a = z -> 99]]
Ready == [platform |-> "windows/amd64", channel |-> "beta", capable |-> TRUE, v3 |-> TRUE,
          governed |-> FALSE]
MCEndpoint == [a \in {x, y, z} |-> Ready]
MCInitialVersion == [a \in {x, y, z} |-> V(1, 0)]

MCListing == <<v1, v2>>
MCRegionOf == v1 :> "eu" @@ v2 :> "us"
MCFirstKey == v1 :> k1 @@ v2 :> k2

MCTokenTerms == {[max |-> 1, left |-> 1, host |-> None], [max |-> 2, left |-> 2, host |-> None],
                 [max |-> 1, left |-> 2, host |-> m1]}

Ops(publish, advance, steer, report, agent) ==
  [publish |-> publish, advance |-> advance, steer |-> steer, report |-> report, agent |-> agent]
NoRoutes == [change |-> 0, switch |-> 0, rotate |-> 0, sign |-> 0, deliver |-> 0, save_fault |-> 0,
             origin_fault |-> 0, restart |-> 0, link |-> 0]
NoEnrolls == [mint |-> 0, withdraw |-> 0, hand |-> 0, refuse |-> 0, lose |-> 0, save |-> 0, halt |-> 0]
RollsOut(serial, slots, ops) ==
  [serial |-> serial, slots |-> slots, polls |-> FALSE, admins |-> 0, ready |-> {},
   machines |-> {}, rowLocks |-> TRUE, ops |-> ops @@ NoRoutes @@ NoEnrolls]
Routes(polls, admins, ready, ops) ==
  [serial |-> TRUE, slots |-> 0, polls |-> polls, admins |-> admins, ready |-> ready,
   machines |-> {}, rowLocks |-> TRUE, ops |-> ops @@ NoRoutes @@ NoEnrolls @@ Ops(0, 0, 0, 0, 0)]
Enrolls(locks, ms, ops) ==
  [serial |-> TRUE, slots |-> 0, polls |-> FALSE, admins |-> 0, ready |-> {},
   machines |-> ms, rowLocks |-> locks, ops |-> ops @@ NoEnrolls @@ NoRoutes @@ Ops(0, 0, 0, 0, 0)]
MCBudgets ==
  {RollsOut(TRUE, 1, Ops(1, 3, 2, 3, 0)),
   RollsOut(TRUE, 1, Ops(2, 2, 0, 3, 1)),
   RollsOut(FALSE, 2, Ops(1, 2, 2, 2, 0)),
   RollsOut(FALSE, 2, Ops(1, 3, 0, 1, 0)),
   Routes(TRUE, 1, {}, [change |-> 5]),
   Routes(FALSE, 0, {v1}, [sign |-> 1, deliver |-> 3]),
   Routes(FALSE, 1, {v1}, [change |-> 1, sign |-> 1, deliver |-> 2]),
   Routes(TRUE, 0, {v1, v2}, [link |-> 2, restart |-> 1, save_fault |-> 1, origin_fault |-> 1]),
   Routes(TRUE, 0, {v1}, [link |-> 1, rotate |-> 3, restart |-> 1, save_fault |-> 1]),
   Routes(TRUE, 1, {v1, v2}, [change |-> 2]),
   Routes(TRUE, 2, {v1}, [change |-> 2, link |-> 1]),
   Routes(TRUE, 1, {v1}, [change |-> 1, switch |-> 2]),
   Enrolls(FALSE, {m1, m2}, [mint |-> 1, hand |-> 2, withdraw |-> 1, lose |-> 1]),
   Enrolls(TRUE, {m1, m2}, [mint |-> 1, hand |-> 2, withdraw |-> 1]),
   Enrolls(TRUE, {m1}, [mint |-> 1, hand |-> 1, lose |-> 1, save |-> 1, halt |-> 1]),
   Enrolls(TRUE, {m1}, [mint |-> 2, hand |-> 1, save |-> 1, refuse |-> 1])}
=============================================================================
