------------------------------- MODULE Fleet -------------------------------
(***************************************************************************)
(* What brings endpoints in and keeps them current and in reach:           *)
(* enrollment, rollouts of agent releases, and the routes and command keys *)
(* of a tenant's endpoint.  An enrollment creates the identity the others  *)
(* begin with; rollouts and routes travel in the answers to heartbeats and *)
(* share nothing else.                                                     *)
(***************************************************************************)
EXTENDS Rollouts, RelayRouting, Enrollment

\* An instance: whether requests to the rollouts are taken one at a time and how many
\* at once, whether the endpoint polls, how many administrators change routes at
\* once, the relays set up, the machines that ask, the database's row locks, and
\* how often each class of steps may happen.
FleetClasses == Classes \cup
  {"change", "switch", "rotate", "sign", "deliver", "save_fault", "origin_fault", "restart", "link",
   "mint", "withdraw", "hand", "refuse", "lose", "save", "halt"}

Instance == [serial : BOOLEAN, slots : Nat, polls : BOOLEAN, admins : Nat, ready : SUBSET Relays,
             machines : SUBSET Machines, rowLocks : BOOLEAN, ops : [FleetClasses -> Nat]]

ASSUME InstanceAssumption == \A b \in Budgets : b \in Instance /\ (b.serial => b.slots <= 1)

rolloutVars == <<releases, attempts, issued, reached, recorded, trusted, running, outcome, sent, txns>>

FleetInit == Init /\ RouteInit /\ EnrollInit

FleetNext == \/ Next /\ UNCHANGED <<routeVars, enrollVars>>
             \/ RouteNext /\ UNCHANGED <<rolloutVars, enrollVars>>
             \/ EnrollNext /\ UNCHANGED <<rolloutVars, routeVars>>

FleetSpec == FleetInit /\ [][FleetNext]_<<vars, routeVars, enrollVars>>
=============================================================================
