----------------------------- MODULE Enrollment -----------------------------
(***************************************************************************)
(* How a machine becomes an agent: enrollment tokens and their redemption  *)
(* (server/app/core/enrollment.py, api/agents.py, the token handlers of    *)
(* api/management.py), and the agent that asks, saves the identity and     *)
(* drops the token (ensureEnrolled and EnrollIdentity of                   *)
(* agent/internal/service/runner.go, config/config.go).                    *)
(*                                                                         *)
(* A redemption reads the time, then the token, and consumes it by a       *)
(* conditional update in the transaction that inserts the agent.  On       *)
(* PostgreSQL the token's row is locked from the read on; on SQLite        *)
(* nothing is (`rowLocks`).                                                *)
(***************************************************************************)
EXTENDS Instances, Sequences, FiniteSets

CONSTANTS
  Machines,
  EnrollmentTokens,  \* numbered in the order of their creation
  TokenTerms,        \* [max, left, host]: uses, time to the expiry, hostname restriction
  MaxUses, MaxExpiry, InstallerTTL,
  Handlers           \* 1..n: the requests the server may have at once

ASSUME EnrollmentAssumption ==
  /\ \A term \in TokenTerms : term.max \in Nat
  /\ IsFiniteSet(Handlers)
  /\ None \notin Handlers /\ None \notin Machines /\ None \notin EnrollmentTokens

VARIABLES
  etokens,      \* the rows of enrollment_tokens
  enrolled,     \* the rows of agents, in the order of their insertion
  redemptions,  \* the requests the server is handling
  machines,
  abandoned     \* history: requests of a machine whose answer never reached its disk

enrollVars == <<etokens, enrolled, redemptions, machines, abandoned>>

NoToken == [present |-> FALSE, max |-> 0, uses |-> 0, left |-> 0, revoked |-> FALSE, host |-> None]

EnrolledAgent == [machine : Machines, token : EnrollmentTokens, revoked : BOOLEAN]

NoRequest == [by |-> None, token |-> None, phase |-> "free", unexpired |-> FALSE]

Machine == [config   : EnrollmentTokens \cup {None},    \* the token in config.json
            identity : Nat,                             \* the agent row of identity.json, or 0
            step     : {"off", "waiting", "answered", "saved", "running"},
            on       : Handlers \cup {None}, got : Nat]

EnrollInit ==
  /\ etokens = [t \in EnrollmentTokens |-> NoToken]
  /\ enrolled = << >>
  /\ redemptions = [h \in Handlers |-> NoRequest]
  /\ machines = [m \in Machines |->
                   [config |-> None, identity |-> 0, step |-> "off", on |-> None, got |-> 0]]
  /\ abandoned = [m \in Machines |-> 0]

----------------------------------------------------------------------------
(* Operators. *)

Mint(t, max, left, host) ==
  /\ Spend("mint")
  /\ ~etokens[t].present /\ \A u \in EnrollmentTokens : u < t => etokens[u].present
  /\ etokens' = [etokens EXCEPT ![t] = [NoToken EXCEPT !.present = TRUE, !.max = max,
                                                       !.left = left, !.host = host]]

create_enrollment_token(t) == \E term \in TokenTerms :
  /\ term.left \in 1..MaxExpiry /\ term.max <= MaxUses
  /\ Mint(t, term.max, term.left, term.host)
  /\ UNCHANGED <<enrolled, redemptions, machines, abandoned>>

\* The package holds the token: the machine it is unpacked on has it in its config.
create_installer_package(t, m) ==
  /\ Mint(t, 1, InstallerTTL, None)
  /\ machines[m].step = "off" /\ machines[m].config = None /\ machines[m].identity = 0
  /\ machines' = [machines EXCEPT ![m].config = t]
  /\ UNCHANGED <<enrolled, redemptions, abandoned>>

Locked(t) == \E h \in Handlers : redemptions[h].token = t /\ redemptions[h].phase = "read"

revoke_enrollment_token(t) ==
  /\ Spend("withdraw")
  /\ etokens[t].present /\ ~etokens[t].revoked
  /\ budget.rowLocks => ~Locked(t)
  /\ etokens' = [etokens EXCEPT ![t].revoked = TRUE]
  /\ UNCHANGED <<enrolled, redemptions, machines, abandoned>>

\* An operator writes a token to a config, or on the command line of `enroll`.
hand_token(m, t) ==
  /\ Spend("hand")
  /\ etokens[t].present /\ machines[m].config = None
  /\ machines' = [machines EXCEPT ![m].config = t]
  /\ UNCHANGED <<etokens, enrolled, redemptions, abandoned>>

----------------------------------------------------------------------------
(* The server: one redemption in three steps. *)

\* The end of a request: its answer, an agent row or 0, finds the machine that
\* still waits for it.
Answer(h, n) ==
  /\ redemptions' = [redemptions EXCEPT ![h] = NoRequest]
  /\ machines' = [m \in Machines |->
       IF machines[m].on # h THEN machines[m]
       ELSE [machines[m] EXCEPT !.step = IF n = 0 THEN "off" ELSE "answered", !.on = None, !.got = n]]

\* The limiter, the envelope versions and the clock.
enroll_begins(h) ==
  /\ redemptions[h].phase = "sent"
  /\ redemptions' = [redemptions EXCEPT ![h].phase = "begun",
                       ![h].unexpired = etokens[redemptions[h].token].left > 0]
  /\ UNCHANGED <<etokens, enrolled, machines, abandoned, budget>>

Redeemable(h) ==
  LET t == etokens[redemptions[h].token]
  IN  /\ ~t.revoked /\ redemptions[h].unexpired /\ t.uses < t.max
      /\ t.host \in {None, redemptions[h].by}

read_token(h) ==
  /\ redemptions[h].phase = "begun"
  /\ budget.rowLocks => ~Locked(redemptions[h].token)
  /\ IF Redeemable(h)
     THEN redemptions' = [redemptions EXCEPT ![h].phase = "read"] /\ UNCHANGED machines
     ELSE Answer(h, 0)
  /\ UNCHANGED <<etokens, enrolled, abandoned, budget>>

\* A mutant: the read has checked the token, so the update does not.
MutConsumable(h) == TRUE

\* The conditions of the update, over the row as it is now.
Consumable(h) == LET t == etokens[redemptions[h].token]
                 IN  ~t.revoked /\ redemptions[h].unexpired /\ t.uses < t.max

redeem_enrollment_token(h) ==
  LET r == redemptions[h] IN
  /\ r.phase = "read"
  /\ IF Consumable(h)
     THEN /\ etokens' = [etokens EXCEPT ![r.token].uses = @ + 1]
          /\ enrolled' = Append(enrolled, [machine |-> r.by, token |-> r.token,
                                           revoked |-> etokens[r.token].revoked])
          /\ Answer(h, Len(enrolled) + 1)
     ELSE Answer(h, 0) /\ UNCHANGED <<etokens, enrolled>>
  /\ UNCHANGED <<abandoned, budget>>

\* Too many attempts, no common envelope version, or a failure that rolls it back.
enroll_refused(h) ==
  /\ Spend("refuse")
  /\ redemptions[h].phase # "free"
  /\ Answer(h, 0)
  /\ UNCHANGED <<etokens, enrolled, abandoned>>

----------------------------------------------------------------------------
(* The machine. *)

\* A start without an identity asks for one, for as long as there is a token.
ensureEnrolled(m) == \E h \in Handlers :
  /\ m \in budget.machines
  /\ machines[m].step = "off" /\ machines[m].identity = 0 /\ machines[m].config # None
  /\ redemptions[h].phase = "free" /\ \A g \in Handlers : g < h => redemptions[g].phase # "free"
  /\ redemptions' = [redemptions EXCEPT ![h] =
       [by |-> m, token |-> machines[m].config, phase |-> "sent", unexpired |-> FALSE]]
  /\ machines' = [machines EXCEPT ![m].step = "waiting", ![m].on = h]
  /\ UNCHANGED <<etokens, enrolled, abandoned, budget>>

\* A start with an identity, which drops a token that is still in the config.
loadSession(m) ==
  /\ machines[m].step = "off" /\ machines[m].identity # 0
  /\ machines' = [machines EXCEPT ![m].step = "running", ![m].config = None]
  /\ UNCHANGED <<etokens, enrolled, redemptions, abandoned, budget>>

\* The machine is off again, with or without what it was waiting for.
Off(m) == machines' = [machines EXCEPT ![m].step = "off", ![m].on = None, ![m].got = 0]

Abandon(m) == abandoned' = [abandoned EXCEPT ![m] = @ + 1]

\* The client times out, or the answer is lost; the server may still go on.
request_lost(m) ==
  /\ Spend("lose")
  /\ machines[m].step \in {"waiting", "answered"}
  /\ Off(m) /\ Abandon(m)
  /\ UNCHANGED <<etokens, enrolled, redemptions>>

saveIdentity(m) ==
  /\ machines[m].step = "answered"
  /\ machines' = [machines EXCEPT ![m].step = "saved", ![m].identity = machines[m].got,
                                  ![m].got = 0]
  /\ UNCHANGED <<etokens, enrolled, redemptions, abandoned, budget>>

\* Save fails before its rename, or after it, on the access list.
saveIdentity_fails(m) ==
  /\ Spend("save")
  /\ machines[m].step = "answered"
  /\ \/ Off(m) /\ Abandon(m)
     \/ /\ machines' = [machines EXCEPT ![m].step = "off", ![m].identity = machines[m].got,
                                        ![m].got = 0]
        /\ UNCHANGED abandoned
  /\ UNCHANGED <<etokens, enrolled, redemptions>>

ClearEnrollmentToken(m) ==
  /\ machines[m].step = "saved"
  /\ machines' = [machines EXCEPT ![m].step = "running", ![m].config = None]
  /\ UNCHANGED <<etokens, enrolled, redemptions, abandoned, budget>>

\* The process ends, also because the config could not be replaced.
machine_stops(m) ==
  /\ Spend("halt")
  /\ machines[m].step # "off"
  /\ Off(m)
  /\ IF machines[m].step \in {"waiting", "answered"} THEN Abandon(m) ELSE UNCHANGED abandoned
  /\ UNCHANGED <<etokens, enrolled, redemptions>>

token_ages ==
  /\ \E t \in EnrollmentTokens : etokens[t].left > 0
  /\ etokens' = [t \in EnrollmentTokens |->
                   [etokens[t] EXCEPT !.left = IF @ > 0 THEN @ - 1 ELSE 0]]
  /\ UNCHANGED <<enrolled, redemptions, machines, abandoned, budget>>

EnrollNext ==
  \/ \E t \in EnrollmentTokens :
       \/ create_enrollment_token(t) \/ revoke_enrollment_token(t)
       \/ \E m \in Machines : create_installer_package(t, m) \/ hand_token(m, t)
  \/ \E h \in Handlers : \/ enroll_begins(h) \/ read_token(h)
                         \/ redeem_enrollment_token(h) \/ enroll_refused(h)
  \/ \E m \in Machines : \/ ensureEnrolled(m) \/ loadSession(m) \/ request_lost(m)
                         \/ saveIdentity(m) \/ saveIdentity_fails(m)
                         \/ ClearEnrollmentToken(m) \/ machine_stops(m)
  \/ token_ages

----------------------------------------------------------------------------
(* Properties. *)

Of(S(_)) == {n \in DOMAIN enrolled : S(enrolled[n])}

(* Every agent is accounted for.  A token enrolls as many agents as it has uses,
   never more than it allows and none once it is revoked, however many machines
   redeem it at once and although SQLite does not lock its row.  A machine that has
   an identity asks for no other: it has an agent row it does not use only for a
   request whose answer did not reach its disk. *)
EnrollmentsAccounted ==
  /\ \A t \in EnrollmentTokens :
       etokens[t].uses = Cardinality(Of(LAMBDA r : r.token = t)) /\ etokens[t].uses <= etokens[t].max
  /\ \A n \in DOMAIN enrolled : ~enrolled[n].revoked
  /\ \A m \in Machines :
       /\ machines[m].identity # 0 => enrolled[machines[m].identity].machine = m
       /\ Cardinality(Of(LAMBDA r : r.machine = m) \ {machines[m].identity, machines[m].got})
            <= abandoned[m]
=============================================================================
