---------------------------- MODULE RelayRouting ----------------------------
(***************************************************************************)
(* How an endpoint's polling reaches the server: regional relays, their    *)
(* keys and the tenant's residency policy (server/app/api/relays.py), the  *)
(* verification of what a relay forwards (core/relays.py), the signed      *)
(* routing manifest and the command keys it carries, and the endpoint's    *)
(* failover (agent/internal/client/routes.go, service/runner.go).          *)
(*                                                                         *)
(* Time is kept as ages and as time left, so it never runs out: a clock    *)
(* step ages everything at once.  An administrator's request reads without *)
(* a lock and writes when it commits.  The relay itself is not in the      *)
(* repository; it forwards a request any number of times, late or twice.   *)
(* The endpoint advertises relay routing and its trust state is active.    *)
(***************************************************************************)
EXTENDS Instances, Sequences, FiniteSets

CONSTANTS
  Regions, RelayKeys, CommandKeys,
  Listing,           \* the relays by region code, name and id
  RegionOf,          \* relay -> region
  EnrolledKey,       \* the command key the endpoint was enrolled with
  Nonces,            \* the forwards that are followed one by one
  ClockSkew,         \* relay_clock_skew_seconds
  MaxForwardAge,     \* relay_max_forward_age_seconds
  ReceiptRetention,  \* relay_receipt_retention_days
  MaxStall,          \* how long a request may take from its reads to its commit
  ManifestTTL,       \* relay_route_manifest_ttl_seconds
  MaxRoutes,         \* relay_max_routes
  KeyLifetimes,      \* lifetimes an administrator may give a relay's key
  FirstKey,          \* relay -> the key it was set up with
  CooldownInitial, CooldownMax

\* Retention is counted in days and the other times in minutes.
ASSUME RetentionAssumption == ReceiptRetention >= 2 * ClockSkew + MaxStall

Relays == {Listing[i] : i \in DOMAIN Listing}

ASSUME RoutingAssumption ==
  /\ ClockSkew \in Nat /\ MaxForwardAge \in Nat /\ ReceiptRetention \in Nat
  /\ MaxStall \in Nat /\ ManifestTTL \in Nat
  /\ EnrolledKey \in CommandKeys
  /\ None \notin Relays /\ None \notin Nat
MAX_LIVE_KEYS_PER_RELAY == 2

VARIABLES
  enabled,      \* relay_routing_enabled
  regions,      \* Regions -> status
  relayRows,    \* Relays -> status
  relayKeys,    \* RelayKeys -> row
  policy,       \* the tenant's TenantRegionPolicy
  changes,      \* administrators' requests that have read and not committed
  keyring,      \* CommandKeys -> status in the signing key registry
  forwards,     \* Nonces -> the signed request, with its ages
  verifying,    \* verify_forward between its checks and the receipt
  receipts,     \* Nonces -> age of the receipt, or None
  handled,      \* Nonces -> how often the request reached its handler
  link,         \* Relays -> what the endpoint meets there: "up", "down", "hung"
  route,        \* the endpoint's routes, their cooldowns and its trusted keys
  identity,     \* what of them is in the identity file
  call          \* the heartbeat under way, how the last one ended, and for how long none went well

serverVars == <<enabled, regions, relayRows, relayKeys, policy, changes, keyring>>
forwardVars == <<forwards, verifying, receipts, handled>>
endpointVars == <<link, route, identity, call>>
routeVars == <<serverVars, forwardVars, endpointVars>>

NoPolicy == [mode |-> "none", region |-> None]
RelayKey == [relay |-> None, status |-> "absent", left |-> 0]
NoForward == [relay |-> None, key |-> None, stamp |-> 0, queued |-> 0]
NoManifest == [relays |-> <<>>, left |-> 0]
Fresh == [failures |-> 0, until |-> 0]

\* An instance begins with some relays set up and active.
RouteInit ==
  /\ enabled = TRUE
  /\ regions = [g \in Regions |-> IF \E r \in budget.ready : RegionOf[r] = g THEN "active" ELSE "absent"]
  /\ relayRows = [r \in Relays |-> IF r \in budget.ready THEN "active" ELSE "absent"]
  /\ \E left \in KeyLifetimes :
       relayKeys = [k \in RelayKeys |->
         IF \E r \in budget.ready : FirstKey[r] = k
         THEN [relay |-> CHOOSE r \in budget.ready : FirstKey[r] = k, status |-> "active", left |-> left]
         ELSE RelayKey]
  /\ policy = NoPolicy
  /\ changes = {}
  /\ keyring = [k \in CommandKeys |-> IF k = EnrolledKey THEN "active" ELSE "absent"]
  /\ forwards = [n \in Nonces |-> NoForward]
  /\ verifying = {}
  /\ receipts = [n \in Nonces |-> None]
  /\ handled = [n \in Nonces |-> 0]
  /\ link = [r \in Relays |-> "up"]
  /\ route = [manifest |-> NoManifest, marks |-> [r \in Relays |-> Fresh], keys |-> {EnrolledKey}]
  /\ identity = [manifest |-> NoManifest, keys |-> {EnrolledKey}]
  /\ call = [at |-> "rest", todo |-> <<>>, last |-> "none", missed |-> 0]

(***************************************************************************)
(* Regions, relays, keys and policies                                      *)
(***************************************************************************)
_RELAY_TRANSITIONS ==
  [pending |-> {"active", "revoked"}, active |-> {"draining", "revoked"},
   draining |-> {"active", "revoked"}, revoked |-> {}, absent |-> {}]
_REGION_TRANSITIONS ==
  [active |-> {"draining", "disabled"}, draining |-> {"active", "disabled"},
   disabled |-> {"active"}, absent |-> {}]

_live_keys(r) == {k \in RelayKeys : relayKeys[k].relay = r /\ relayKeys[k].status = "active"}
Unexpired(K) == {k \in K : relayKeys[k].left > 0}
ActiveIn(g) == {r \in Relays : RegionOf[r] = g /\ relayRows[r] = "active"}

Reads(change) ==
  /\ Spend("change")
  /\ Cardinality(changes) < budget.admins /\ change \notin changes
  /\ changes' = changes \cup {change}
  /\ UNCHANGED <<enabled, regions, relayRows, relayKeys, policy, keyring>>

create_region(g) == regions[g] = "absent" /\ Reads([op |-> "region", on |-> g, to |-> "active"])

change_region_status(g) == \E to \in _REGION_TRANSITIONS[regions[g]] :
  Reads([op |-> "region", on |-> g, to |-> to])

register_relay(r) ==
  /\ regions[RegionOf[r]] # "absent" /\ relayRows[r] = "absent"
  /\ Reads([op |-> "relay", on |-> r, to |-> "pending", keys |-> {}])

change_relay_status(r) == \E to \in _RELAY_TRANSITIONS[relayRows[r]] :
  /\ to = "active" => Unexpired(_live_keys(r)) # {}
  /\ Reads([op |-> "relay", on |-> r, to |-> to,
            keys |-> IF to = "revoked" THEN _live_keys(r) ELSE {}])

register_relay_key(r, k) == \E left \in KeyLifetimes :
  /\ relayRows[r] \notin {"absent", "revoked"}
  /\ relayKeys[k].status = "absent"
  /\ Cardinality(_live_keys(r)) < MAX_LIVE_KEYS_PER_RELAY
  /\ Reads([op |-> "key", on |-> k, relay |-> r, left |-> left])

retire_relay_key(k) ==
  /\ relayKeys[k].status = "active"
  /\ Reads([op |-> "key_status", on |-> k, to |-> "retired"])

revoke_relay_key(k) ==
  /\ relayKeys[k].status \in {"active", "retired"}
  /\ Reads([op |-> "key_status", on |-> k, to |-> "revoked"])

\* A strict policy needs an active relay in an active region, when it is set.
set_region_policy(g) == \E mode \in {"preferred", "strict"} :
  /\ regions[g] # "absent"
  /\ mode = "strict" => regions[g] = "active" /\ ActiveIn(g) # {}
  /\ Reads([op |-> "policy", to |-> [mode |-> mode, region |-> g], was |-> policy # NoPolicy])

clear_region_policy ==
  /\ policy # NoPolicy
  /\ Reads([op |-> "policy", to |-> NoPolicy, was |-> TRUE])

\* A row inserted twice, and an update of a row that is gone, fail.
Commits(c) ==
  /\ changes' = changes \ {c}
  /\ regions' = IF c.op = "region" THEN [regions EXCEPT ![c.on] = c.to] ELSE regions
  /\ relayRows' = IF c.op = "relay" THEN [relayRows EXCEPT ![c.on] = c.to] ELSE relayRows
  /\ relayKeys' = [k \in RelayKeys |->
       CASE c.op = "key" /\ c.on = k /\ relayKeys[k].status = "absent"
              -> [relay |-> c.relay, status |-> "active", left |-> c.left]
         [] c.op = "key_status" /\ c.on = k -> [relayKeys[k] EXCEPT !.status = c.to]
         [] c.op = "relay" /\ k \in c.keys -> [relayKeys[k] EXCEPT !.status = "revoked"]
         [] OTHER -> relayKeys[k]]
  /\ policy' = IF c.op = "policy" /\ (c.to = NoPolicy \/ c.was = (policy # NoPolicy))
               THEN c.to ELSE policy
  /\ UNCHANGED <<enabled, keyring, budget>>

Administers ==
  /\ \/ \E g \in Regions : create_region(g) \/ change_region_status(g) \/ set_region_policy(g)
     \/ \E r \in Relays : register_relay(r) \/ change_relay_status(r)
     \/ \E r \in Relays, k \in RelayKeys : register_relay_key(r, k)
     \/ \E k \in RelayKeys : retire_relay_key(k) \/ revoke_relay_key(k)
     \/ clear_region_policy
     \/ \E c \in changes : Commits(c)
  /\ UNCHANGED <<forwardVars, endpointVars>>

\* The operator restarts the server with the setting changed.
relay_routing_switched ==
  /\ Spend("switch")
  /\ enabled' = ~enabled
  /\ UNCHANGED <<regions, relayRows, relayKeys, policy, changes, keyring, forwardVars, endpointVars>>

(***************************************************************************)
(* The registry of command signing keys, changed by rotate_command_key.py  *)
(***************************************************************************)
ActiveKey == CHOOSE k \in CommandKeys : keyring[k] = "active"
public_key_bundle == {k \in CommandKeys : keyring[k] \in {"active", "overlap"}}

Rotates(ring) ==
  /\ Spend("rotate")
  /\ keyring' = ring
  /\ UNCHANGED <<enabled, regions, relayRows, relayKeys, policy, changes, forwardVars, endpointVars>>

cmd_generate(k) == keyring[k] = "absent" /\ Rotates([keyring EXCEPT ![k] = "overlap"])
cmd_activate(k) == /\ keyring[k] = "overlap"
                   /\ Rotates([keyring EXCEPT ![ActiveKey] = "overlap", ![k] = "active"])
cmd_retire(k) == keyring[k] = "overlap" /\ Rotates([keyring EXCEPT ![k] = "retired"])

(***************************************************************************)
(* verify_forward                                                          *)
(***************************************************************************)
\* What holds for everything a relay forwards with a given key.
Trusted(r, k) ==
  /\ enabled
  /\ relayRows[r] \in {"active", "draining"}
  /\ regions[RegionOf[r]] # "disabled"
  /\ relayKeys[k].relay = r /\ relayKeys[k].status = "active" /\ relayKeys[k].left > 0

\* Mutated form: a timestamp from the future is not refused.
MutTimely(f) == f.stamp <= ClockSkew /\ f.queued <= MaxForwardAge

Timely(f) ==
  /\ f.stamp \in -ClockSkew..ClockSkew
  /\ f.queued >= f.stamp - ClockSkew
  /\ f.queued <= MaxForwardAge

\* A relay, whose clock may be off, signs a request it may have held for a while.
relay_signs(n) == \E r \in Relays, k \in RelayKeys, stamp \in -ClockSkew-1..ClockSkew, held \in 0..1 :
  /\ Spend("sign")
  /\ forwards[n] = NoForward /\ relayKeys[k].relay = r
  /\ forwards' = [forwards EXCEPT ![n] = [relay |-> r, key |-> k, stamp |-> stamp, queued |-> stamp + held]]
  /\ UNCHANGED <<serverVars, verifying, receipts, handled, endpointVars>>

verify_forward(n) ==
  LET f == forwards[n] IN
  /\ Spend("deliver")
  /\ f # NoForward /\ Trusted(f.relay, f.key) /\ Timely(f)
  /\ \E id \in 1..2 : /\ \A v \in verifying : v.id # id
                      /\ verifying' = verifying \cup {[id |-> id, nonce |-> n, age |-> 0]}
  /\ UNCHANGED <<serverVars, forwards, receipts, handled, endpointVars>>

\* The receipt, unique per relay and nonce, is committed before the handler runs.
RelayIngressMiddleware(v) ==
  /\ verifying' = verifying \ {v}
  /\ \/ /\ receipts[v.nonce] = None
        /\ receipts' = [receipts EXCEPT ![v.nonce] = v.age]
        /\ handled' = [handled EXCEPT ![v.nonce] = @ + 1]
     \/ /\ receipts[v.nonce] # None
        /\ UNCHANGED <<receipts, handled>>
  /\ UNCHANGED <<serverVars, forwards, endpointVars, budget>>

prune ==
  /\ \E n \in Nonces : receipts[n] # None /\ receipts[n] > ReceiptRetention
  /\ receipts' = [n \in Nonces |-> IF receipts[n] # None /\ receipts[n] > ReceiptRetention
                                   THEN None ELSE receipts[n]]
  /\ UNCHANGED <<serverVars, forwards, verifying, handled, endpointVars, budget>>

(***************************************************************************)
(* The server's side of a heartbeat                                        *)
(***************************************************************************)
Strict == enabled /\ policy.mode = "strict"

\* enforce_route_policy, for a request through relay r or, with None, direct.
enforce_route_policy(r) == Strict => r # None /\ RegionOf[r] = policy.region

Offered == SelectSeq(Listing, LAMBDA r : relayRows[r] = "active" /\ regions[RegionOf[r]] = "active")

order_routes ==
  LET home == SelectSeq(Offered, LAMBDA r : RegionOf[r] = policy.region)
      others == SelectSeq(Offered, LAMBDA r : RegionOf[r] # policy.region)
      ordered == IF policy.mode = "strict" THEN home ELSE home \o others
  IN  SubSeq(ordered, 1, IF Len(ordered) < MaxRoutes THEN Len(ordered) ELSE MaxRoutes)

\* The manifest names the origin as a last route, unless the policy is strict.
build_routing_manifest ==
  [relays |-> order_routes, origin |-> policy.mode # "strict", keys |-> public_key_bundle]

(***************************************************************************)
(* The endpoint                                                            *)
(***************************************************************************)
\* Mutated form: the routes are kept when the manifest has expired.
MutactiveRoutes == SelectSeq(route.manifest.relays, LAMBDA r : route.marks[r].until = 0)

activeRoutes ==
  IF route.manifest.left = 0 THEN <<>>
  ELSE SelectSeq(route.manifest.relays, LAMBDA r : route.marks[r].until = 0)

markRoute(r, ok) ==
  LET n == route.marks[r].failures + 1
      wait == IF CooldownInitial * 2^(n - 1) > CooldownMax THEN CooldownMax
              ELSE CooldownInitial * 2^(n - 1)
  IN  [route.marks EXCEPT ![r] = IF ok THEN Fresh
                                 ELSE [failures |-> IF wait = CooldownMax THEN @.failures ELSE n,
                                       until |-> wait]]

\* The instance follows the endpoint's polling.
Polled == budget.polls

checkIn ==
  /\ Polled
  /\ call.at = "rest"
  /\ call' = [call EXCEPT !.at = "trying", !.todo = activeRoutes, !.last = "none"]
  /\ UNCHANGED <<serverVars, forwardVars, link, route, identity, budget>>

Returns(verdict) == call' = [call EXCEPT !.at = "rest", !.todo = <<>>, !.last = verdict,
                                         !.missed = IF verdict = "answered" THEN 0 ELSE @]

\* An answer the endpoint can use: it trusts the key its commands are signed with.
Answered == Returns(IF ActiveKey \in route'.keys THEN "answered" ELSE "failed")

\* A manifest is signed with every key of the bundle, and verified with a key the
\* endpoint trusts or the one it was enrolled with; without routes it is refused.
VerifyRoutingManifest(m) ==
  /\ m.relays # <<>> \/ m.origin
  /\ m.keys \cap (route.keys \cup {EnrolledKey}) # {}

\* The answer of an accepted heartbeat: a verified manifest is adopted whole; the
\* unsigned bundle counts only when no relay carried it.  The save may fail.
applyRoutingAndKeys(marks, relayed) ==
  LET m == build_routing_manifest
      adopted == enabled /\ VerifyRoutingManifest(m)
      manifest == IF adopted THEN [relays |-> m.relays, left |-> ManifestTTL] ELSE route.manifest
      listed == {manifest.relays[i] : i \in DOMAIN manifest.relays}
      keys == IF adopted \/ ~relayed THEN m.keys ELSE route.keys
  IN  /\ route' = [manifest |-> manifest, keys |-> keys,
                   marks |-> [r \in Relays |-> IF r \in listed THEN marks[r] ELSE Fresh]]
      /\ \/ /\ identity' = IF adopted \/ ~relayed THEN [manifest |-> manifest, keys |-> keys] ELSE identity
            /\ UNCHANGED budget
         \/ /\ adopted \/ ~relayed
            /\ Spend("save_fault")
            /\ UNCHANGED identity

Carries(r) == /\ link[r] = "up"
              /\ \E k \in RelayKeys : Trusted(r, k)
              /\ enforce_route_policy(r)

\* Relay after relay: an answer ends the call, a refusal or a broken connection
\* goes on to the next; a request that times out ends the call, and counts as one
\* that went well.
tryRelay ==
  /\ call.at = "trying" /\ call.todo # <<>>
  /\ LET r == Head(call.todo) IN
     \/ /\ Carries(r)
        /\ applyRoutingAndKeys(markRoute(r, TRUE), TRUE)
        /\ Answered
     \/ /\ link[r] = "hung"
        /\ route' = [route EXCEPT !.marks = markRoute(r, TRUE)]
        /\ Returns("failed")
        /\ UNCHANGED <<identity, budget>>
     \/ /\ link[r] # "hung" /\ ~Carries(r)
        /\ route' = [route EXCEPT !.marks = markRoute(r, FALSE)]
        /\ call' = [call EXCEPT !.todo = Tail(@)]
        /\ UNCHANGED <<identity, budget>>
  /\ UNCHANGED <<serverVars, forwardVars, link>>

\* The origin is the last route, whatever the manifest says.
tryOrigin ==
  /\ call.at = "trying" /\ call.todo = <<>>
  /\ \/ /\ enforce_route_policy(None)
        /\ applyRoutingAndKeys(route.marks, FALSE)
        /\ Answered
     \/ /\ ~enforce_route_policy(None)
        /\ Returns("refused")
        /\ UNCHANGED <<route, identity, budget>>
     \/ /\ Spend("origin_fault")
        /\ Returns("unreachable")
        /\ UNCHANGED <<route, identity>>
  /\ UNCHANGED <<serverVars, forwardVars, link>>

\* loadSession: the routes of the identity file, without their cooldowns.
endpoint_restarts ==
  /\ Spend("restart")
  /\ route' = [manifest |-> identity.manifest, keys |-> identity.keys,
               marks |-> [r \in Relays |-> Fresh]]
  /\ Returns("none")
  /\ UNCHANGED <<serverVars, forwardVars, link, identity>>

link_changes == \E r \in Relays, state \in {"up", "down", "hung"} :
  /\ Spend("link")
  /\ relayRows[r] # "absent" /\ link[r] # state
  /\ link' = [link EXCEPT ![r] = state]
  /\ UNCHANGED <<serverVars, forwardVars, route, identity, call>>

(***************************************************************************)
(* Time.  The endpoint checks in once in a unit of time or more often.     *)
(* Ages and times left stop where nothing tells them apart.                *)
(***************************************************************************)
Aged(age, most) == IF age > most THEN age ELSE age + 1
Sooner(left) == IF left = 0 THEN 0 ELSE left - 1

time_passes ==
  /\ IF Polled THEN call.last # "none" ELSE \E n \in Nonces : forwards[n] # NoForward
  /\ \A v \in verifying : v.age < MaxStall
  /\ verifying' = {[v EXCEPT !.age = @ + 1] : v \in verifying}
  /\ forwards' = [n \in Nonces |->
       IF forwards[n] = NoForward THEN NoForward
       ELSE [forwards[n] EXCEPT !.stamp = Aged(@, ClockSkew), !.queued = Aged(@, MaxForwardAge)]]
  /\ receipts' = [n \in Nonces |-> IF receipts[n] = None THEN None
                                   ELSE Aged(receipts[n], ReceiptRetention)]
  /\ relayKeys' = [k \in RelayKeys |-> [relayKeys[k] EXCEPT !.left = Sooner(@)]]
  /\ route' = [route EXCEPT !.manifest.left = Sooner(@),
                            !.marks = [r \in Relays |-> [@[r] EXCEPT !.until = Sooner(@)]]]
  /\ identity' = [identity EXCEPT !.manifest.left = Sooner(@)]
  /\ call' = [call EXCEPT !.last = "none",
                          !.missed = CASE Strict \/ call.last = "refused" -> 0
                                       [] call.last = "failed" -> Aged(@, ManifestTTL)
                                       [] OTHER -> @]
  /\ UNCHANGED <<enabled, regions, relayRows, policy, changes, keyring, handled, link, budget>>

RouteNext ==
  \/ Administers \/ relay_routing_switched
  \/ \E k \in CommandKeys : cmd_generate(k) \/ cmd_activate(k) \/ cmd_retire(k)
  \/ \E n \in Nonces : relay_signs(n) \/ verify_forward(n)
  \/ \E v \in verifying : RelayIngressMiddleware(v)
  \/ prune
  \/ checkIn \/ tryRelay \/ tryOrigin \/ endpoint_restarts \/ link_changes
  \/ time_passes

-----------------------------------------------------------------------------
(* A request that a relay forwards twice, or that the network duplicates, reaches
   its handler once, also when both copies are verified at the same time and when
   the receipt that tells them apart has been pruned in between. *)
ForwardedOnce == \A n \in Nonces : handled[n] <= 1

(* An endpoint whose tenant's policy is not strict is never out of reach for
   longer than a manifest lives: unless the origin itself is down it is answered, and
   trusts the key its commands are signed with, whatever became of the relays it
   was told of (revoked, draining, expired, unreachable, hung), across restarts,
   lost saves and key rotations it slept through. *)
AgentInReach == call.missed <= ManifestTTL
=============================================================================
