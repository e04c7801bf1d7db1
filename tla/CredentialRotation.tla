------------------------- MODULE CredentialRotation -------------------------
(***************************************************************************)
(* Rotation of the bearer credential of one enrolled agent.                *)
(*                                                                         *)
(* The server accepts two credentials: the current one until it expires    *)
(* and the one it superseded until the end of a bounded overlap            *)
(* (server/app/api/deps.py).  A renewal reads the agent's row without a    *)
(* lock and writes it when its transaction flushes, so it is two steps;    *)
(* a reattachment locks the row first and is one (api/agents.py).  The     *)
(* agent saves a new credential before it uses it, keeps the old one when  *)
(* anything fails, and retries (agent/internal/service/runner.go).         *)
(*                                                                         *)
(* generate_token and newRotationNonce return a value that nobody holds;   *)
(* values nobody holds any more are used again.                            *)
(***************************************************************************)
EXTENDS Naturals

CONSTANTS
  Lifetime,         \* settings.agent_credential_lifetime_seconds
  Overlap,          \* settings.agent_credential_overlap_seconds
  Window,           \* settings.agent_credential_reattach_window_seconds
  (* bounds of the model and assumptions on the environment *)
  NumTokens,        \* enough for a fresh one at any time
  MaxClock,
  MaxOpenRequests,  \* rotation requests the server may have open at once
  MaxSaveFaults,    \* identity saves that fail before the file is replaced
  MaxAclFaults,     \* identity saves that fail after it was replaced
  MaxQuarantines,
  MaxCrashes,
  Revocable,        \* may an administrator revoke the agent?
  Timely            \* does the agent always get through before it lapses?

ASSUME CredentialConstants ==
  /\ Lifetime \in Nat /\ Overlap \in Nat /\ Window \in Nat
  /\ NumTokens \in Nat /\ MaxClock \in Nat /\ MaxOpenRequests \in Nat
  /\ MaxSaveFaults \in Nat /\ MaxAclFaults \in Nat /\ MaxQuarantines \in Nat
  /\ MaxCrashes \in Nat /\ NumTokens > 0 /\ Revocable \in BOOLEAN /\ Timely \in BOOLEAN

Tokens == 1..NumTokens
None   == 0
Slots  == 1..MaxOpenRequests
Nonces == 1..(MaxOpenRequests + 1)

\* The identity file and its copy in memory.
Credential == [token : Tokens, exp : Nat, got : Nat]

\* A rotation request: what it presents, what the server read, the reply.
Request ==
  {r \in [st : {"free", "sent", "read", "lost", "granted", "conflict", "unauthorized"},
          kind : {"renew", "reattach"}, token : Tokens \cup {None},
          nonce : Nonces \cup {None}, at : Nat,
          matched : {"no", "current", "overlap"}, readAt : Nat,
          reply : Tokens \cup {None}, exp : Nat] :
     r.st = "granted" => r.reply \in Tokens}
NoRequest == [st |-> "free", kind |-> "renew", token |-> None, nonce |-> None,
              at |-> 0, matched |-> "no", readAt |-> 0, reply |-> None, exp |-> 0]

VARIABLES
  \* server: the agent's row
  current, currentExp,     \* token_hash, credential_expires_at
  previous, previousExp,   \* previous_token_hash, previous_token_expires_at
  lastNonce,               \* last_rotation_nonce
  trust,                   \* trust_state
  reqs,                    \* rotation requests sent and not finished
  clock,
  \* agent
  disk, mem,               \* identity.json and session.identity
  pc,
  req,                     \* the request the agent waits for
  \* bounds
  saveFaults, aclFaults, quarantines, crashes

rowVars   == <<current, currentExp, previous, previousExp, lastNonce>>
agentVars == <<disk, mem, pc, req>>
boundVars == <<saveFaults, aclFaults, quarantines, crashes>>
vars == <<rowVars, trust, reqs, clock, agentVars, boundVars>>

TypeOK ==
  /\ current \in Tokens /\ currentExp \in Nat
  /\ previous \in Tokens \cup {None} /\ previousExp \in Nat
  /\ lastNonce \in Nonces \cup {None}
  /\ trust \in {"active", "quarantined", "revoked"}
  /\ reqs \in [Slots -> Request]
  /\ clock \in Nat
  /\ disk \in Credential /\ mem \in Credential
  /\ pc \in {"down", "idle", "renew", "beat", "recover", "reattach"}
  /\ req \in Slots \cup {None}
  /\ saveFaults \in Nat /\ aclFaults \in Nat /\ quarantines \in Nat
  /\ crashes \in Nat

\* Enrolled: the server issued token 1 and the agent saved it.
Init ==
  /\ current = 1 /\ currentExp = Lifetime
  /\ previous = None /\ previousExp = 0
  /\ lastNonce = None
  /\ trust = "active"
  /\ reqs = [k \in Slots |-> NoRequest]
  /\ clock = 0
  /\ disk = [token |-> 1, exp |-> Lifetime, got |-> 0] /\ mem = disk
  /\ pc = "idle" /\ req = None
  /\ saveFaults = 0 /\ aclFaults = 0 /\ quarantines = 0 /\ crashes = 0

-----------------------------------------------------------------------------
(***************************************************************************)
(* Which slot of the row a presented token matches.                        *)
(***************************************************************************)

\* get_current_agent.
CredentialMatched(t) ==
  CASE trust = "revoked" -> "no"
    [] trust # "revoked" /\ t = current /\ clock < currentExp -> "current"
    [] trust # "revoked" /\ t # current /\ t = previous /\ clock < previousExp -> "overlap"
    [] OTHER -> "no"

\* get_agent_for_credential_reattach: active agents only, and the current
\* credential only once it has expired.
ReattachMatched(t) ==
  CASE trust # "active" -> "no"
    [] trust = "active" /\ t = current /\ currentExp <= clock /\ clock < currentExp + Window
         -> "current"
    [] trust = "active" /\ t # current /\ t = previous /\ clock < previousExp -> "overlap"
    [] OTHER -> "no"

-----------------------------------------------------------------------------
(***************************************************************************)
(* Time and trust.                                                         *)
(***************************************************************************)

\* At time t the held credential can still be exchanged, and no transaction has
\* been open for as long as the overlap.
InTime(t) ==
  /\ \A k \in Slots : reqs[k].st = "read" => t < reqs[k].readAt + Overlap
  /\ mem.token = current => t < currentExp + Window
  /\ mem.token # current /\ mem.token = previous => t < previousExp

Tick ==
  /\ clock < MaxClock
  /\ Timely => InTime(clock + 1)
  /\ clock' = clock + 1
  /\ UNCHANGED <<rowVars, trust, reqs, agentVars, boundVars>>

\* quarantine_agent, restore_agent and revoke_agent check the state they read without
\* a lock and set theirs at a later commit, whatever it has become.  Any state the
\* agent has been in may be the one a request read: it was active at first, and
\* quarantined once a quarantine was set.
QuarantineAgent ==
  /\ quarantines < MaxQuarantines
  /\ trust' = "quarantined" /\ quarantines' = quarantines + 1
  /\ UNCHANGED <<rowVars, reqs, clock, agentVars, saveFaults, aclFaults,
                 crashes>>

RestoreAgent ==
  /\ quarantines > 0
  /\ trust' = "active"
  /\ UNCHANGED <<rowVars, reqs, clock, agentVars, boundVars>>

RevokeAgent ==
  /\ Revocable
  /\ trust' = "revoked"
  /\ UNCHANGED <<rowVars, reqs, clock, agentVars, boundVars>>

-----------------------------------------------------------------------------
(***************************************************************************)
(* The rotation handlers.                                                  *)
(***************************************************************************)
Held  == {current, previous, disk.token, mem.token}
           \cup {reqs[k].token : k \in Slots} \cup {reqs[k].reply : k \in Slots}
NewToken == {t \in Tokens \ Held : \A u \in Tokens \ Held : t <= u}

UsedNonces == {lastNonce} \cup {reqs[k].nonce : k \in Slots}
NewNonce   == {n \in Nonces \ UsedNonces : \A m \in Nonces \ UsedNonces : n <= m}

\* Mutated form: a retry on the overlap credential demotes the current one.
MutDemoted(t, matched) == current

\* The new content of the overlap slot: the presented current credential, or
\* what is there already when the request was authenticated by it.
Demoted(t, matched) == IF matched # "overlap" THEN t ELSE previous

\* _rotate_agent_credential, at the time the handler read.
Rotate(t, matched, nonce, now, new) ==
  /\ previous' = Demoted(t, matched)
  /\ previousExp' = now + Overlap
  /\ current' = new
  /\ currentExp' = now + Lifetime
  /\ lastNonce' = nonce

\* The answer reaches the agent only while it waits for this request.
Answered(k, r) == reqs' = [reqs EXCEPT ![k] = IF req = k THEN r ELSE NoRequest]

Granted(k, new, now) == [reqs[k] EXCEPT !.st = "granted", !.matched = "no",
                           !.readAt = 0, !.reply = new, !.exp = now + Lifetime]

\* renew_agent_credential up to its checks: authentication, then the nonce.
RenewRead(k) ==
  /\ reqs[k].st = "sent" /\ reqs[k].kind = "renew"
  /\ LET m == CredentialMatched(reqs[k].token) IN
       \/ m = "no" /\ Answered(k, [reqs[k] EXCEPT !.st = "unauthorized"])
       \/ /\ m # "no" /\ reqs[k].nonce = lastNonce
          /\ Answered(k, [reqs[k] EXCEPT !.st = "conflict"])
       \/ /\ m # "no" /\ reqs[k].nonce # lastNonce
          /\ reqs' = [reqs EXCEPT ![k].st = "read", ![k].matched = m,
                                  ![k].readAt = clock]
  /\ UNCHANGED <<rowVars, trust, clock, agentVars, boundVars>>

\* ... and its writes.
RenewCommit(k) ==
  /\ reqs[k].st = "read"
  /\ \E new \in NewToken :
       /\ Rotate(reqs[k].token, reqs[k].matched, reqs[k].nonce, reqs[k].readAt, new)
       /\ Answered(k, Granted(k, new, reqs[k].readAt))
  /\ UNCHANGED <<trust, clock, agentVars, boundVars>>

\* reattach_agent_credential, on the locked row.
Reattach(k) ==
  /\ reqs[k].st = "sent" /\ reqs[k].kind = "reattach"
  /\ LET m == ReattachMatched(reqs[k].token) IN
       \/ /\ m = "no" \/ reqs[k].nonce = lastNonce
          /\ Answered(k, [reqs[k] EXCEPT !.st = "unauthorized"])
          /\ UNCHANGED rowVars
       \/ /\ m # "no" /\ reqs[k].nonce # lastNonce
          /\ \E new \in NewToken :
               /\ Rotate(reqs[k].token, m, reqs[k].nonce, clock, new)
               /\ Answered(k, Granted(k, new, clock))
  /\ UNCHANGED <<trust, clock, agentVars, boundVars>>

\* The request is lost on its way, or its transaction is rolled back.
RequestLost(k) ==
  /\ reqs[k].st \in {"sent", "read"}
  /\ Answered(k, [reqs[k] EXCEPT !.st = "lost", !.matched = "no", !.readAt = 0])
  /\ UNCHANGED <<rowVars, trust, clock, agentVars, boundVars>>

-----------------------------------------------------------------------------
(***************************************************************************)
(* The agent: one check-in after the other.                                *)
(***************************************************************************)

\* Mutated form: an expired credential is never due.
MutCredentialRenewDue ==
  clock < mem.exp /\ (mem.got < mem.exp => mem.got + mem.exp <= 2 * clock)

\* credentialRenewDue: past the midpoint of the credential's lifetime.
CredentialRenewDue ==
  IF mem.got < mem.exp THEN mem.got + mem.exp <= 2 * clock ELSE clock < mem.exp

\* An answer nobody waits for is dropped; an open request goes on.
Dropped == IF req = None THEN reqs
           ELSE [reqs EXCEPT ![req] = IF @.st \in {"sent", "read"} THEN @ ELSE NoRequest]

Send(k, kind, nonce, at) ==
  /\ Dropped[k].st = "free" /\ \A i \in Slots : i < k => Dropped[i].st # "free"
  /\ reqs' = [Dropped EXCEPT ![k] = [NoRequest EXCEPT !.st = "sent", !.kind = kind,
                !.token = mem.token, !.nonce = nonce, !.at = at]]
  /\ req' = k

RenewSkipped ==
  /\ pc = "idle" /\ ~CredentialRenewDue
  /\ pc' = "beat"
  /\ UNCHANGED <<rowVars, trust, reqs, clock, disk, mem, req, boundVars>>

BeginRenew(k) ==
  /\ pc = "idle" /\ CredentialRenewDue
  /\ \E n \in NewNonce : Send(k, "renew", n, clock)
  /\ pc' = "renew"
  /\ UNCHANGED <<rowVars, trust, clock, disk, mem, boundVars>>

\* client.do: after a transport failure on a relay route the same request, with
\* the same nonce, goes out on the next route.  The first may have been lost,
\* answered in vain, or still be served.
Failover(k) ==
  /\ pc = "renew" /\ reqs[req].st \notin {"conflict", "unauthorized"}
  /\ Send(k, "renew", reqs[req].nonce, reqs[req].at)
  /\ UNCHANGED <<rowVars, trust, clock, disk, mem, pc, boundVars>>

\* The agent stops waiting: a timeout, a lost answer or a 409.
RenewGivenUp ==
  /\ pc = "renew"
  /\ reqs' = Dropped /\ req' = None
  /\ pc' = "beat"
  /\ UNCHANGED <<rowVars, trust, clock, disk, mem, boundVars>>

RenewUnauthorized ==
  /\ pc = "renew" /\ reqs[req].st = "unauthorized"
  /\ reqs' = Dropped /\ req' = None
  /\ pc' = "recover"
  /\ UNCHANGED <<rowVars, trust, clock, disk, mem, boundVars>>

\* persistAndAdoptCredential: saved first, then used.  obtainedAt is the time a
\* renewal was asked for, or a reattachment answered.
Adopted == [token |-> reqs[req].reply, exp |-> reqs[req].exp,
            got |-> IF pc = "renew" THEN reqs[req].at ELSE clock]

AdoptCredential ==
  /\ pc \in {"renew", "reattach"} /\ reqs[req].st = "granted"
  /\ disk' = Adopted /\ mem' = Adopted
  /\ reqs' = Dropped /\ req' = None
  /\ pc' = IF pc = "renew" THEN "beat" ELSE "idle"
  /\ UNCHANGED <<rowVars, trust, clock, boundVars>>

\* The identity cannot be saved: the file is the old one, or the new one when
\* only its ACL could not be set.
SaveFails(new) ==
  \/ /\ saveFaults < MaxSaveFaults
     /\ saveFaults' = saveFaults + 1
     /\ UNCHANGED <<disk, aclFaults>>
  \/ /\ aclFaults < MaxAclFaults
     /\ aclFaults' = aclFaults + 1
     /\ disk' = new
     /\ UNCHANGED saveFaults

AdoptFails ==
  /\ pc \in {"renew", "reattach"} /\ reqs[req].st = "granted"
  /\ SaveFails(Adopted)
  /\ reqs' = Dropped /\ req' = None
  /\ pc' = IF pc = "renew" THEN "beat" ELSE "idle"
  /\ UNCHANGED <<rowVars, trust, clock, mem, quarantines, crashes>>

\* The heartbeat.  An active agent is handed the signing keys and saves its
\* identity again; a failure of that save is only logged.
HeartbeatAccepted ==
  /\ pc = "beat" /\ CredentialMatched(mem.token) # "no"
  /\ \/ trust = "active" /\ disk' = mem /\ UNCHANGED boundVars
     \/ trust = "active" /\ SaveFails(mem) /\ UNCHANGED <<quarantines, crashes>>
     \/ trust = "quarantined" /\ UNCHANGED <<disk, boundVars>>
  /\ pc' = "idle"
  /\ UNCHANGED <<rowVars, trust, reqs, clock, mem, req>>

HeartbeatUnauthorized ==
  /\ pc = "beat" /\ CredentialMatched(mem.token) = "no"
  /\ pc' = "recover"
  /\ UNCHANGED <<rowVars, trust, reqs, clock, disk, mem, req, boundVars>>

HeartbeatLost ==
  /\ pc = "beat"
  /\ pc' = "idle"
  /\ UNCHANGED <<rowVars, trust, reqs, clock, disk, mem, req, boundVars>>

\* recoverCredential, the only repair after a 401.
BeginReattach(k) ==
  /\ pc = "recover"
  /\ \E n \in NewNonce : Send(k, "reattach", n, clock)
  /\ pc' = "reattach"
  /\ UNCHANGED <<rowVars, trust, clock, disk, mem, boundVars>>

ReattachGivenUp ==
  /\ pc = "reattach"
  /\ reqs' = Dropped /\ req' = None
  /\ pc' = "idle"
  /\ UNCHANGED <<rowVars, trust, clock, disk, mem, boundVars>>

Crash ==
  /\ pc # "down"
  /\ crashes < MaxCrashes
  /\ crashes' = crashes + 1
  /\ pc' = "down"
  /\ reqs' = Dropped /\ req' = None
  /\ UNCHANGED <<rowVars, trust, clock, disk, mem, saveFaults, aclFaults,
                 quarantines>>

Start ==
  /\ pc = "down"
  /\ pc' = "idle" /\ mem' = disk
  /\ UNCHANGED <<rowVars, trust, reqs, clock, disk, req, boundVars>>

-----------------------------------------------------------------------------
Server(k) == RenewRead(k) \/ RenewCommit(k) \/ Reattach(k)
Begin     == \E k \in Slots : BeginRenew(k) \/ BeginReattach(k)
Heartbeat == HeartbeatAccepted \/ HeartbeatUnauthorized

Next ==
  \/ Tick \/ QuarantineAgent \/ RestoreAgent \/ RevokeAgent
  \/ \E k \in Slots : Server(k) \/ RequestLost(k) \/ Failover(k)
  \/ Begin \/ Heartbeat \/ HeartbeatLost
  \/ RenewSkipped \/ RenewGivenUp \/ RenewUnauthorized
  \/ AdoptCredential \/ AdoptFails \/ ReattachGivenUp
  \/ Crash \/ Start

Spec == Init /\ [][Next]_vars

\* The agent's loop and the server go on, a quarantine ends, and the network
\* does not lose every request and every answer forever: now and then the agent
\* is still waiting when the server answers.
Fairness ==
  /\ WF_vars(trust = "quarantined" /\ RestoreAgent) /\ WF_vars(Start)
  /\ WF_vars(RenewSkipped) /\ WF_vars(RenewGivenUp) /\ WF_vars(ReattachGivenUp)
  /\ SF_vars(Begin) /\ WF_vars(HeartbeatLost) /\ SF_vars(Heartbeat)
  /\ SF_vars(RenewUnauthorized) /\ SF_vars(AdoptCredential)
  /\ \A k \in Slots : /\ SF_vars(req = k /\ RenewRead(k))
                       /\ SF_vars(req = k /\ RenewCommit(k))
                       /\ SF_vars(req = k /\ Reattach(k))
                       /\ WF_vars(Server(k))

FairSpec == Spec /\ Fairness

-----------------------------------------------------------------------------
(***************************************************************************)
(* Properties.                                                             *)
(***************************************************************************)

\* The credential the running agent holds is one of the two the server knows,
\* through lost answers, failed saves, crashes and retries.
HeldCredentialKnown == pc # "down" => mem.token \in {current, previous}

\* An agent that missed an answer ends up with the current credential again,
\* unless it is revoked.
CurrentAgain ==
  mem.token # current ~> mem.token = current \/ trust = "revoked"

=============================================================================
