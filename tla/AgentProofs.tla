----------------------------- MODULE AgentProofs -----------------------------
(***************************************************************************)
(* Proofs about what the agent keeps on its own disk: its credential       *)
(* (CredentialRotation), and its executable (SelfUpdate).                  *)
(***************************************************************************)
EXTENDS CredentialRotation, SelfUpdate, TLAPS

(***************************************************************************)
(* Rotation of the credential.                                             *)
(*                                                                         *)
(* Types are kept together with the fact that an agent inside an exchange  *)
(* waits for one of the requests.  HeldCredentialKnown is proved for an    *)
(* agent with one rotation request at a time whose identity file is never  *)
(* replaced by a save that then fails (SerialAgent).  It is not inductive: *)
(* a transaction that is still open will replace both slots of the row, so *)
(* what it presents and which slot it matched have to agree with the row   *)
(* now (OpenInv), and an answer under way has to carry the current         *)
(* credential (AnswerInv).                                                 *)
(***************************************************************************)
Exchanging == pc \in {"renew", "reattach"}
Waiting    == IF Exchanging THEN req \in Slots ELSE req = None
TInv       == TypeOK /\ Waiting

(***************************************************************************)
(* The inductive invariant of a serial agent.                              *)
(***************************************************************************)
SerialAgent == MaxOpenRequests = 1 /\ MaxAclFaults = 0

\* An open request presents the credential the agent holds, and a transaction
\* that has read will demote exactly that one.
OpenInv ==
  \A k \in Slots :
    /\ reqs[k].st \in {"sent", "read"} => reqs[k].token = mem.token
    /\ reqs[k].st = "read" /\ reqs[k].matched = "overlap" => previous = mem.token

\* An answer carries the credential that is current.
AnswerInv == \A k \in Slots : reqs[k].st = "granted" => reqs[k].reply = current

\* The restarted agent holds what the stopped one held.
FileInv == disk = mem

KnownInv == mem.token \in {current, previous}

IInv == TInv /\ OpenInv /\ AnswerInv /\ FileInv /\ KnownInv

\* The constants' assumption, as facts about the derived sets.
LEMMA Sets ==
  /\ Tokens \subseteq Nat /\ None \in Nat /\ None \notin Tokens
  /\ Slots \subseteq Nat /\ None \notin Slots
  /\ 1 \in Tokens
  /\ NoRequest \in Request
BY CredentialConstants DEF Tokens, None, Slots, NoRequest, Request

\* An answer nobody waits for leaves a table of requests (client.go, do).
LEMMA DroppedType == TypeOK => Dropped \in [Slots -> Request]
BY Sets DEF TypeOK, Dropped, None

\* Sending a request keeps the types of the table (RenewCredential and
\* ReattachCredential, client.go).
LEMMA SendType ==
  ASSUME TypeOK, NEW k \in Slots, NEW kind \in {"renew", "reattach"},
         NEW n \in Nonces \cup {None}, NEW at \in Nat, Send(k, kind, n, at)
  PROVE  reqs' \in [Slots -> Request] /\ req' \in Slots \cup {None}
<1> DEFINE r == [NoRequest EXCEPT !.st = "sent", !.kind = kind,
                   !.token = mem.token, !.nonce = n, !.at = at]
<1>1. mem.token \in Tokens
  BY DEF TypeOK, Credential
<1>2. r \in Request
  BY <1>1 DEF NoRequest, Request
<1>3. reqs' = [Dropped EXCEPT ![k] = r]
  BY DEF Send
<1> QED BY <1>2, <1>3, DroppedType DEF Send

\* Answering a request keeps the type of the table.
LEMMA AnsweredType ==
  ASSUME TypeOK, NEW k \in Slots, NEW r \in Request, Answered(k, r)
  PROVE  reqs' \in [Slots -> Request]
BY Sets DEF TypeOK, Answered

\* A rotation keeps the types of the row (_rotate_agent_credential, agents.py).
LEMMA RotateType ==
  ASSUME TypeOK, NEW t \in Tokens \cup {None}, NEW m \in {"no", "current", "overlap"},
         NEW n \in Nonces \cup {None}, NEW now \in Nat, NEW new \in Tokens,
         Rotate(t, m, n, now, new)
  PROVE  /\ current' \in Tokens /\ currentExp' \in Nat
         /\ previous' \in Tokens \cup {None} /\ previousExp' \in Nat
         /\ lastNonce' \in Nonces \cup {None}
BY CredentialConstants DEF TypeOK, Rotate, Demoted

\* A granted answer has the type of a request.
LEMMA GrantedType ==
  ASSUME TypeOK, NEW k \in Slots, NEW new \in Tokens, NEW now \in Nat
  PROVE  Granted(k, new, now) \in Request
<1>1. reqs[k] \in Request /\ now + Lifetime \in Nat
  BY CredentialConstants DEF TypeOK
<1> QED BY <1>1 DEF Granted, Request

\* Every step of the server, the operators and the agent keeps the types.
LEMMA TInvStep == TInv /\ [Next]_vars => TInv'
<1> SUFFICES ASSUME TypeOK, Waiting, [Next]_vars PROVE TypeOK' /\ Waiting'
  BY DEF TInv
<1> USE Sets
<1>0. ASSUME UNCHANGED <<pc, req>> PROVE Waiting'
  BY <1>0 DEF Waiting, Exchanging
<1>1. CASE Tick
  BY <1>0, <1>1 DEF Tick, TypeOK, rowVars, agentVars, boundVars
<1>2. CASE QuarantineAgent
  BY <1>0, <1>2 DEF QuarantineAgent, TypeOK, rowVars, agentVars
<1>3. CASE RestoreAgent
  BY <1>0, <1>3 DEF RestoreAgent, TypeOK, rowVars, agentVars, boundVars
<1>4. CASE RevokeAgent
  BY <1>0, <1>4 DEF RevokeAgent, TypeOK, rowVars, agentVars, boundVars
<1>5. ASSUME NEW k \in Slots, RenewRead(k) PROVE TypeOK' /\ Waiting'
  <2>1. reqs[k] \in Request /\ clock \in Nat
    BY DEF TypeOK
  <2>2. [reqs[k] EXCEPT !.st = "unauthorized"] \in Request
        /\ [reqs[k] EXCEPT !.st = "conflict"] \in Request
    BY <2>1 DEF Request
  <2>3. CredentialMatched(reqs[k].token) \in {"no", "current", "overlap"}
    BY DEF CredentialMatched
  <2>4. ASSUME NEW m \in {"no", "current", "overlap"}
        PROVE  [reqs EXCEPT ![k].st = "read", ![k].matched = m, ![k].readAt = clock]
                 \in [Slots -> Request]
    <3> DEFINE r == [reqs[k] EXCEPT !.st = "read", !.matched = m, !.readAt = clock]
    <3>1. r \in Request
      BY <2>1, ZenonT(30) DEF Request
    <3>2. [reqs EXCEPT ![k].st = "read", ![k].matched = m, ![k].readAt = clock]
            = [reqs EXCEPT ![k] = r]
      BY <2>1 DEF TypeOK, Request
    <3> HIDE DEF r
    <3> QED BY <3>1, <3>2 DEF TypeOK
  <2>5. reqs' \in [Slots -> Request]
    BY <1>5, <2>2, <2>3, <2>4, AnsweredType, ZenonT(30) DEF RenewRead
  <2> QED BY <1>0, <1>5, <2>5 DEF RenewRead, TypeOK, rowVars, agentVars, boundVars
<1>6. ASSUME NEW k \in Slots, RenewCommit(k) PROVE TypeOK' /\ Waiting'
  <2>1. reqs[k] \in Request
    BY DEF TypeOK
  <2>2. PICK new \in Tokens :
          /\ Rotate(reqs[k].token, reqs[k].matched, reqs[k].nonce, reqs[k].readAt, new)
          /\ Answered(k, Granted(k, new, reqs[k].readAt))
    BY <1>6 DEF RenewCommit, NewToken
  <2>3. /\ reqs[k].token \in Tokens \cup {None} /\ reqs[k].readAt \in Nat
        /\ reqs[k].matched \in {"no", "current", "overlap"}
        /\ reqs[k].nonce \in Nonces \cup {None}
    BY <2>1 DEF Request
  <2>4. reqs' \in [Slots -> Request]
    BY <2>2, <2>3, GrantedType, AnsweredType
  <2>5. /\ current' \in Tokens /\ currentExp' \in Nat
        /\ previous' \in Tokens \cup {None} /\ previousExp' \in Nat
        /\ lastNonce' \in Nonces \cup {None}
    BY <2>2, <2>3, RotateType
  <2> QED BY <1>0, <1>6, <2>4, <2>5 DEF RenewCommit, TypeOK, agentVars, boundVars
<1>7. ASSUME NEW k \in Slots, Reattach(k) PROVE TypeOK' /\ Waiting'
  <2>1. reqs[k] \in Request /\ clock \in Nat
    BY DEF TypeOK
  <2>2. [reqs[k] EXCEPT !.st = "unauthorized"] \in Request
    BY <2>1 DEF Request
  <2>3. ReattachMatched(reqs[k].token) \in {"no", "current", "overlap"}
    BY DEF ReattachMatched
  <2>4. /\ reqs[k].token \in Tokens \cup {None}
        /\ reqs[k].nonce \in Nonces \cup {None}
    BY <2>1 DEF Request
  <2>5. CASE Answered(k, [reqs[k] EXCEPT !.st = "unauthorized"]) /\ UNCHANGED rowVars
    <3>1. reqs' \in [Slots -> Request]
      BY <2>2, <2>5, AnsweredType
    <3> QED BY <1>0, <1>7, <2>5, <3>1 DEF Reattach, TypeOK, rowVars, agentVars, boundVars
  <2>6. CASE \E new \in NewToken :
               /\ Rotate(reqs[k].token, ReattachMatched(reqs[k].token), reqs[k].nonce,
                         clock, new)
               /\ Answered(k, Granted(k, new, clock))
    <3>1. PICK new \in Tokens :
            /\ Rotate(reqs[k].token, ReattachMatched(reqs[k].token), reqs[k].nonce,
                      clock, new)
            /\ Answered(k, Granted(k, new, clock))
      BY <2>6 DEF NewToken
    <3>2. reqs' \in [Slots -> Request]
      BY <2>1, <3>1, GrantedType, AnsweredType
    <3>3. /\ current' \in Tokens /\ currentExp' \in Nat
          /\ previous' \in Tokens \cup {None} /\ previousExp' \in Nat
          /\ lastNonce' \in Nonces \cup {None}
      BY <2>1, <2>3, <2>4, <3>1, RotateType
    <3> QED BY <1>0, <1>7, <3>2, <3>3 DEF Reattach, TypeOK, agentVars, boundVars
  <2> QED BY <1>7, <2>5, <2>6 DEF Reattach
<1>8. ASSUME NEW k \in Slots, RequestLost(k) PROVE TypeOK' /\ Waiting'
  <2>1. [reqs[k] EXCEPT !.st = "lost", !.matched = "no", !.readAt = 0] \in Request
    BY DEF TypeOK, Request
  <2>2. reqs' \in [Slots -> Request]
    BY <1>8, <2>1, AnsweredType DEF RequestLost
  <2> QED BY <1>0, <1>8, <2>2 DEF RequestLost, TypeOK, rowVars, agentVars, boundVars
<1>9. ASSUME NEW k \in Slots, Failover(k) PROVE TypeOK' /\ Waiting'
  <2>1. req \in Slots
    BY <1>9 DEF Failover, Waiting, Exchanging
  <2>2. reqs[req].nonce \in Nonces \cup {None} /\ reqs[req].at \in Nat
    BY <2>1 DEF TypeOK, Request
  <2>3. Send(k, "renew", reqs[req].nonce, reqs[req].at)
    BY <1>9 DEF Failover
  <2>4. reqs' \in [Slots -> Request] /\ req' \in Slots \cup {None}
    BY <2>2, <2>3, SendType
  <2>5. req' = k
    BY <2>3 DEF Send
  <2>6. TypeOK'
    BY <1>9, <2>4 DEF Failover, TypeOK, rowVars, boundVars
  <2>7. Waiting'
    BY <1>9, <2>5 DEF Failover, Waiting, Exchanging
  <2> QED BY <2>6, <2>7
<1>10. ASSUME NEW k \in Slots, BeginRenew(k) \/ BeginReattach(k)
       PROVE TypeOK' /\ Waiting'
  <2>1. PICK n \in Nonces, kind \in {"renew", "reattach"} : Send(k, kind, n, clock)
    BY <1>10 DEF BeginRenew, BeginReattach, NewNonce
  <2>2. clock \in Nat
    BY DEF TypeOK
  <2>3. reqs' \in [Slots -> Request] /\ req' \in Slots \cup {None}
    BY <2>1, <2>2, SendType
  <2>4. req' = k
    BY <2>1 DEF Send
  <2>5. TypeOK'
    BY <1>10, <2>3 DEF BeginRenew, BeginReattach, TypeOK, rowVars, boundVars
  <2>6. Waiting'
    BY <1>10, <2>4 DEF BeginRenew, BeginReattach, Waiting, Exchanging
  <2> QED BY <2>5, <2>6
<1>11. CASE HeartbeatAccepted
  <2>1. disk' \in Credential /\ saveFaults' \in Nat /\ aclFaults' \in Nat
        /\ quarantines' \in Nat /\ crashes' \in Nat
    BY <1>11 DEF HeartbeatAccepted, SaveFails, TypeOK, boundVars
  <2> QED BY <1>11, <2>1 DEF HeartbeatAccepted, TypeOK, rowVars, Waiting, Exchanging
<1>12. CASE HeartbeatUnauthorized
  BY <1>12 DEF HeartbeatUnauthorized, TypeOK, rowVars, boundVars, Waiting, Exchanging
<1>13. CASE HeartbeatLost
  BY <1>13 DEF HeartbeatLost, TypeOK, rowVars, boundVars, Waiting, Exchanging
<1>14. CASE RenewSkipped
  BY <1>14 DEF RenewSkipped, TypeOK, rowVars, boundVars, Waiting, Exchanging
<1>15. CASE RenewGivenUp
  BY <1>15, DroppedType DEF RenewGivenUp, TypeOK, rowVars, boundVars, Waiting, Exchanging
<1>16. CASE RenewUnauthorized
  BY <1>16, DroppedType DEF RenewUnauthorized, TypeOK, rowVars, boundVars, Waiting, Exchanging
<1>17. ASSUME Exchanging, reqs[req].st = "granted" PROVE Adopted \in Credential
  <2>1. reqs[req] \in Request /\ clock \in Nat
    BY <1>17 DEF Waiting, TypeOK
  <2> QED BY <1>17, <2>1 DEF Adopted, Credential, Request
<1>18. CASE AdoptCredential
  BY <1>17, <1>18, DroppedType
     DEF AdoptCredential, TypeOK, rowVars, boundVars, Waiting, Exchanging
<1>19. CASE AdoptFails
  BY <1>17, <1>19, DroppedType
     DEF AdoptFails, SaveFails, TypeOK, rowVars, Waiting, Exchanging
<1>20. CASE ReattachGivenUp
  BY <1>20, DroppedType DEF ReattachGivenUp, TypeOK, rowVars, boundVars, Waiting, Exchanging
<1>21. CASE Crash
  BY <1>21, DroppedType DEF Crash, TypeOK, rowVars, Waiting, Exchanging
<1>22. CASE Start
  BY <1>22 DEF Start, TypeOK, rowVars, boundVars, Waiting, Exchanging
<1>23. CASE UNCHANGED vars
  BY <1>0, <1>23 DEF vars, TypeOK, rowVars, agentVars, boundVars
<1> QED
  BY <1>1, <1>2, <1>3, <1>4, <1>5, <1>6, <1>7, <1>8, <1>9, <1>10, <1>11, <1>12, <1>13,
     <1>14, <1>15, <1>16, <1>18, <1>19, <1>20, <1>21, <1>22, <1>23
     DEF Next, Server, Begin, Heartbeat

\* Enrollment leaves the variables with their types (redeem_enrollment_token).
LEMMA TInvInit == Init => TInv
BY Sets, CredentialConstants DEF Init, TInv, TypeOK, Waiting, Exchanging, Credential

\* The row, the requests and the agent's state keep their types.
THEOREM TypeCorrect == Spec => []TypeOK
<1>1. Spec => []TInv
  BY TInvInit, TInvStep, PTL DEF Spec
<1>2. TInv => TypeOK
  BY DEF TInv
<1> QED BY <1>1, <1>2, PTL

-----------------------------------------------------------------------------
(***************************************************************************)
(* The credential the agent holds.                                         *)
(***************************************************************************)

\* Dropping an answer nobody waits for keeps what is known of the others.
LEMMA DroppedKept ==
  ASSUME IInv, reqs' = Dropped, UNCHANGED <<current, previous>>,
         mem'.token = mem.token \/ \A k \in Slots : reqs[k].st \notin {"sent", "read"}
  PROVE  OpenInv' /\ AnswerInv'
<1>1. \A k \in Slots : Dropped[k] = reqs[k] \/ Dropped[k] = NoRequest
  BY Sets DEF IInv, TInv, TypeOK, Dropped
<1>2. NoRequest.st = "free"
  BY DEF NoRequest
<1> QED BY <1>1, <1>2 DEF IInv, OpenInv, AnswerInv

\* A request that is sent presents the credential the agent holds.
LEMMA SendKept ==
  ASSUME IInv, NEW k \in Slots, NEW kind \in {"renew", "reattach"},
         NEW n \in Nonces \cup {None}, NEW at \in Nat, Send(k, kind, n, at),
         UNCHANGED <<current, previous, mem>>
  PROVE  OpenInv' /\ AnswerInv'
<1> DEFINE r == [NoRequest EXCEPT !.st = "sent", !.kind = kind,
                   !.token = mem.token, !.nonce = n, !.at = at]
<1>1. r.st = "sent" /\ r.token = mem.token
  BY DEF NoRequest
<1>2. Dropped \in [Slots -> Request]
  BY DroppedType DEF IInv, TInv
<1>3. reqs' = [Dropped EXCEPT ![k] = r]
  BY DEF Send
<1>4. \A i \in Slots : \/ reqs'[i] = r
                       \/ reqs'[i] = reqs[i] \/ reqs'[i] = NoRequest
  BY <1>2, <1>3, Sets DEF IInv, TInv, TypeOK, Dropped
<1>5. NoRequest.st = "free"
  BY DEF NoRequest
<1> QED BY <1>1, <1>4, <1>5 DEF IInv, OpenInv, AnswerInv

\* An answer that grants nothing leaves an open request nowhere.
LEMMA RefusedKept ==
  ASSUME IInv, NEW k \in Slots, NEW r \in Request, Answered(k, r),
         r.st \notin {"sent", "read", "granted"},
         UNCHANGED <<current, previous, mem>>
  PROVE  OpenInv' /\ AnswerInv'
<1>1. \A i \in Slots : reqs'[i] = reqs[i] \/ reqs'[i] = r \/ reqs'[i] = NoRequest
  BY Sets DEF IInv, TInv, TypeOK, Answered
<1>2. NoRequest.st = "free"
  BY DEF NoRequest
<1> QED BY <1>1, <1>2 DEF IInv, OpenInv, AnswerInv

\* A rotation of the serial agent's request: the held credential moves to, or
\* stays in, the overlap slot, and the answer carries the new one.
LEMMA RotateKept ==
  ASSUME SerialAgent, IInv, NEW k \in Slots, NEW m, NEW n, NEW now \in Nat,
         NEW new \in Tokens, reqs[k].token = mem.token,
         m = "overlap" => previous = mem.token,
         Rotate(reqs[k].token, m, n, now, new),
         Answered(k, Granted(k, new, now)), UNCHANGED <<mem, disk>>
  PROVE  OpenInv' /\ AnswerInv' /\ FileInv' /\ KnownInv'
<1>1. previous' = mem.token /\ current' = new
  BY DEF Rotate, Demoted
<1>2. \A i \in Slots : i = k
  BY DEF SerialAgent, Slots
<1>3. reqs[k] \in Request
  BY DEF IInv, TInv, TypeOK
<1>4. Granted(k, new, now).st = "granted" /\ Granted(k, new, now).reply = new
  BY <1>3 DEF Granted, Request
<1>5. reqs'[k] = Granted(k, new, now) \/ reqs'[k] = NoRequest
  BY DEF IInv, TInv, TypeOK, Answered
<1>6. NoRequest.st = "free"
  BY DEF NoRequest
<1>7. OpenInv' /\ AnswerInv'
  BY <1>1, <1>2, <1>4, <1>5, <1>6 DEF OpenInv, AnswerInv
<1> QED BY <1>1, <1>7 DEF IInv, FileInv, KnownInv

\* Every step keeps the invariant of the serial agent.
LEMMA IInvStep == ASSUME SerialAgent PROVE IInv /\ [Next]_vars => IInv'
<1> SUFFICES ASSUME IInv, [Next]_vars
             PROVE  OpenInv' /\ AnswerInv' /\ FileInv' /\ KnownInv'
  BY TInvStep DEF IInv
<1>0. ASSUME UNCHANGED <<current, previous, reqs, disk, mem>>
      PROVE  OpenInv' /\ AnswerInv' /\ FileInv' /\ KnownInv'
  BY <1>0 DEF IInv, OpenInv, AnswerInv, FileInv, KnownInv
<1>1. CASE Tick \/ QuarantineAgent \/ RestoreAgent \/ RevokeAgent
  BY <1>0, <1>1 DEF Tick, QuarantineAgent, RestoreAgent, RevokeAgent, rowVars, agentVars
<1>2. ASSUME NEW k \in Slots, RenewRead(k)
      PROVE  OpenInv' /\ AnswerInv' /\ FileInv' /\ KnownInv'
  <2>1. FileInv' /\ KnownInv' /\ UNCHANGED <<current, previous, mem>>
    BY <1>2 DEF RenewRead, rowVars, agentVars, IInv, FileInv, KnownInv
  <2>2. reqs[k] \in Request
    BY DEF IInv, TInv, TypeOK
  <2>3. ASSUME NEW x \in {"unauthorized", "conflict"},
               Answered(k, [reqs[k] EXCEPT !.st = x])
        PROVE  OpenInv' /\ AnswerInv'
    <3>1. [reqs[k] EXCEPT !.st = x] \in Request
          /\ [reqs[k] EXCEPT !.st = x].st = x
      BY <2>2 DEF Request
    <3> QED BY <2>1, <2>3, <3>1, RefusedKept
  <2>4. ASSUME NEW m, m = CredentialMatched(reqs[k].token), reqs[k].st = "sent",
               reqs' = [reqs EXCEPT ![k].st = "read", ![k].matched = m,
                                    ![k].readAt = clock]
        PROVE  OpenInv' /\ AnswerInv'
    <3>1. reqs[k].token = mem.token
      BY <2>4 DEF IInv, OpenInv
    <3>2. m = "overlap" => previous = mem.token
      BY <2>4, <3>1 DEF CredentialMatched
    <3>3. /\ reqs'[k].st = "read" /\ reqs'[k].token = reqs[k].token
          /\ reqs'[k].matched = m
          /\ \A i \in Slots \ {k} : reqs'[i] = reqs[i]
      BY <2>2, <2>4 DEF IInv, TInv, TypeOK, Request
    <3> QED BY <2>1, <3>1, <3>2, <3>3 DEF IInv, OpenInv, AnswerInv
  <2>5. OpenInv' /\ AnswerInv'
    BY <1>2, <2>3, <2>4 DEF RenewRead
  <2> QED BY <2>1, <2>5
<1>3. ASSUME NEW k \in Slots, RenewCommit(k)
      PROVE  OpenInv' /\ AnswerInv' /\ FileInv' /\ KnownInv'
  <2>1. reqs[k].token = mem.token
        /\ (reqs[k].matched = "overlap" => previous = mem.token)
    BY <1>3 DEF RenewCommit, IInv, OpenInv
  <2>2. reqs[k].readAt \in Nat
    BY DEF IInv, TInv, TypeOK, Request
  <2>3. PICK new \in Tokens :
          /\ Rotate(reqs[k].token, reqs[k].matched, reqs[k].nonce, reqs[k].readAt, new)
          /\ Answered(k, Granted(k, new, reqs[k].readAt))
    BY <1>3 DEF RenewCommit, NewToken
  <2>4. UNCHANGED <<mem, disk>>
    BY <1>3 DEF RenewCommit, agentVars
  <2> QED BY <2>1, <2>2, <2>3, <2>4, RotateKept
<1>4. ASSUME NEW k \in Slots, Reattach(k)
      PROVE  OpenInv' /\ AnswerInv' /\ FileInv' /\ KnownInv'
  <2>1. reqs[k].token = mem.token
    BY <1>4 DEF Reattach, IInv, OpenInv
  <2>2. UNCHANGED <<mem, disk>>
    BY <1>4 DEF Reattach, agentVars
  <2>3. CASE Answered(k, [reqs[k] EXCEPT !.st = "unauthorized"]) /\ UNCHANGED rowVars
    <3>1. [reqs[k] EXCEPT !.st = "unauthorized"] \in Request
          /\ [reqs[k] EXCEPT !.st = "unauthorized"].st = "unauthorized"
      BY DEF IInv, TInv, TypeOK, Request
    <3>2. OpenInv' /\ AnswerInv'
      BY <2>2, <2>3, <3>1, RefusedKept DEF rowVars
    <3> QED BY <2>2, <2>3, <3>2 DEF rowVars, IInv, FileInv, KnownInv
  <2>4. CASE \E new \in NewToken :
               /\ Rotate(reqs[k].token, ReattachMatched(reqs[k].token), reqs[k].nonce,
                         clock, new)
               /\ Answered(k, Granted(k, new, clock))
    <3>1. PICK new \in Tokens :
            /\ Rotate(reqs[k].token, ReattachMatched(reqs[k].token), reqs[k].nonce,
                      clock, new)
            /\ Answered(k, Granted(k, new, clock))
      BY <2>4 DEF NewToken
    <3>2. ReattachMatched(reqs[k].token) = "overlap" => previous = mem.token
      BY <2>1 DEF ReattachMatched
    <3>3. clock \in Nat
      BY DEF IInv, TInv, TypeOK
    <3> QED BY <2>1, <2>2, <3>1, <3>2, <3>3, RotateKept
  <2> QED BY <1>4, <2>3, <2>4 DEF Reattach
<1>5. ASSUME NEW k \in Slots, RequestLost(k)
      PROVE  OpenInv' /\ AnswerInv' /\ FileInv' /\ KnownInv'
  <2> DEFINE r == [reqs[k] EXCEPT !.st = "lost", !.matched = "no", !.readAt = 0]
  <2>1. r \in Request /\ r.st = "lost"
    BY ZenonT(30) DEF IInv, TInv, TypeOK, Request
  <2>2. Answered(k, r) /\ UNCHANGED <<current, previous, mem, disk>>
    BY <1>5 DEF RequestLost, rowVars, agentVars
  <2>3. OpenInv' /\ AnswerInv'
    BY <2>1, <2>2, RefusedKept
  <2> QED BY <2>2, <2>3 DEF IInv, FileInv, KnownInv
<1>6. ASSUME NEW k \in Slots, Failover(k)
      PROVE  OpenInv' /\ AnswerInv' /\ FileInv' /\ KnownInv'
  <2>1. req \in Slots
    BY <1>6 DEF Failover, IInv, TInv, Waiting, Exchanging
  <2>2. reqs[req].nonce \in Nonces \cup {None} /\ reqs[req].at \in Nat
    BY <2>1 DEF IInv, TInv, TypeOK, Request
  <2>3. /\ Send(k, "renew", reqs[req].nonce, reqs[req].at)
        /\ UNCHANGED <<current, previous, mem, disk>>
    BY <1>6 DEF Failover, rowVars
  <2>4. OpenInv' /\ AnswerInv'
    BY <2>2, <2>3, SendKept
  <2> QED BY <2>3, <2>4 DEF IInv, FileInv, KnownInv
<1>7. ASSUME NEW k \in Slots, BeginRenew(k) \/ BeginReattach(k)
      PROVE  OpenInv' /\ AnswerInv' /\ FileInv' /\ KnownInv'
  <2>1. PICK n \in Nonces, kind \in {"renew", "reattach"} : Send(k, kind, n, clock)
    BY <1>7 DEF BeginRenew, BeginReattach, NewNonce
  <2>2. clock \in Nat /\ UNCHANGED <<current, previous, mem, disk>>
    BY <1>7 DEF IInv, TInv, TypeOK, BeginRenew, BeginReattach, rowVars
  <2>3. OpenInv' /\ AnswerInv'
    BY <2>1, <2>2, SendKept
  <2> QED BY <2>2, <2>3 DEF IInv, FileInv, KnownInv
<1>8. ASSUME NEW c, SaveFails(c) PROVE disk' = disk
  BY <1>8, CredentialConstants DEF SaveFails, SerialAgent, IInv, TInv, TypeOK
<1>9. CASE HeartbeatAccepted
  <2>1. disk' = disk
    BY <1>8, <1>9 DEF HeartbeatAccepted, IInv, FileInv
  <2> QED BY <1>0, <1>9, <2>1 DEF HeartbeatAccepted, rowVars
<1>10. CASE HeartbeatUnauthorized \/ HeartbeatLost \/ RenewSkipped
  BY <1>0, <1>10 DEF HeartbeatUnauthorized, HeartbeatLost, RenewSkipped, rowVars
<1>11. CASE RenewGivenUp \/ RenewUnauthorized \/ ReattachGivenUp \/ Crash
  <2>1. reqs' = Dropped /\ UNCHANGED <<current, previous, disk, mem>>
    BY <1>11 DEF RenewGivenUp, RenewUnauthorized, ReattachGivenUp, Crash, rowVars
  <2>2. OpenInv' /\ AnswerInv'
    BY <2>1, DroppedKept
  <2> QED BY <2>1, <2>2 DEF IInv, FileInv, KnownInv
<1>12. CASE AdoptCredential
  <2>1. /\ reqs' = Dropped /\ UNCHANGED <<current, previous>>
        /\ disk' = Adopted /\ mem' = Adopted /\ reqs[req].st = "granted"
    BY <1>12 DEF AdoptCredential, rowVars
  <2>2. req \in Slots
    BY <1>12 DEF AdoptCredential, IInv, TInv, Waiting, Exchanging
  <2>3. \A k \in Slots : reqs[k].st \notin {"sent", "read"}
    BY <2>1, <2>2 DEF SerialAgent, Slots
  <2>4. mem'.token = current
    BY <2>1, <2>2 DEF Adopted, IInv, AnswerInv
  <2>5. OpenInv' /\ AnswerInv'
    BY <2>1, <2>3, DroppedKept
  <2> QED BY <2>1, <2>4, <2>5 DEF FileInv, KnownInv
<1>13. CASE AdoptFails
  <2>1. reqs' = Dropped /\ UNCHANGED <<current, previous, disk, mem>>
    BY <1>8, <1>13 DEF AdoptFails, rowVars
  <2>2. OpenInv' /\ AnswerInv'
    BY <2>1, DroppedKept
  <2> QED BY <2>1, <2>2 DEF IInv, FileInv, KnownInv
<1>14. CASE Start
  BY <1>0, <1>14 DEF Start, rowVars, IInv, FileInv
<1>15. CASE UNCHANGED vars
  BY <1>0, <1>15 DEF vars, rowVars, agentVars
<1> QED
  BY <1>1, <1>2, <1>3, <1>4, <1>5, <1>6, <1>7, <1>9, <1>10, <1>11, <1>12, <1>13, <1>14,
     <1>15
     DEF Next, Server, Begin, Heartbeat

\* The invariant holds of an enrolled agent (redeem_enrollment_token).
LEMMA IInvInit == Init => IInv
<1> SUFFICES ASSUME Init PROVE IInv
  OBVIOUS
<1>1. TInv
  BY TInvInit
<1>2. \A k \in Slots : reqs[k].st = "free"
  BY DEF Init, NoRequest
<1> QED BY <1>1, <1>2 DEF Init, IInv, OpenInv, AnswerInv, FileInv, KnownInv

\* With one renewal or reattachment at a time, and an identity file that is
\* replaced only by saves that succeed, the credential the agent holds is
\* always one of the two the server knows, however many answers are lost, saves
\* fail and processes crash (renew_agent_credential, persistAndAdoptCredential).
THEOREM HeldCredentialNeverLost ==
  ASSUME SerialAgent PROVE Spec => []HeldCredentialKnown
<1>1. IInv /\ [Next]_vars => IInv'
  BY IInvStep
<1>2. Spec => []IInv
  BY IInvInit, <1>1, PTL DEF Spec
<1>3. IInv => HeldCredentialKnown
  BY DEF IInv, KnownInv, HeldCredentialKnown
<1> QED BY <1>2, <1>3, PTL

-----------------------------------------------------------------------------
(***************************************************************************)
(* Replacement of the executable, for every number of builds, updates,     *)
(* rollbacks, crashes and faults.                                          *)
(*                                                                         *)
(* Shape relates the place in the code with the files it works on.  Safe   *)
(* adds which builds are proven: outside an attempt and before the swap    *)
(* the executable, on trial the backup, and always the retained previous   *)
(* build, unless a restore failed or a crash fell inside a swap.  Stranded *)
(* is about a missing executable, Verdicts about the counted health checks *)
(* and what the server was told.                                           *)
(***************************************************************************)
Shape ==
  /\ step # "down" => running \in Versions
  /\ journal.state \in InFlight => journal.from \in Versions /\ journal.to \in Versions
  /\ step \in {"backup", "swap", "swapped"} => journal.state = "staged"
  /\ step \in {"swap", "swapped"} => journal.digest \in Versions
  /\ step \in {"restart", "check", "commit", "rollback", "rolledBack"} =>
       journal.state = "installed"
  /\ step \in {"start", "check", "commit"} => exe = running
  /\ previousBuild.state = "kept" => previousBuild.version \in Versions
  /\ step \in {"restore", "restored"} => previousBuild.state = "kept"
  /\ step = "report" => verdict \in Resolved

Undoable == Restorable(journal.from, journal.digest) /\ journal.digest \in proven

Safe ==
  ~unrestored /\ ~torn =>
    /\ journal.state # "installed" /\ step # "swapped" => exe \in proven \cup {Missing}
    /\ journal.state = "installed" \/ step \in {"swap", "swapped"} => Undoable
    /\ step \in {"commit", "restored", "rolledBack"} => exe \in proven
    /\ previousBuild.state = "kept" => previousBuild.digest \in proven

Stranded == exe = Missing /\ ~torn => faults > 1

-----------------------------------------------------------------------------
\* The sets of builds and states, as facts (SelfUpdateConstants).
LEMMA BuildSets ==
  /\ Versions \subseteq Nat /\ Missing \notin Versions /\ Partial \notin Versions
  /\ Missing \in Nat /\ Partial \in Nat /\ 1 \in Versions
  /\ NoJournal \in Journal
BY SelfUpdateConstants DEF Versions, Missing, Partial, NoJournal, Journal

\* saveJournal with a new state leaves the other fields of the journal alone.
LEMMA Saved ==
  ASSUME UpdateTypeOK, NEW s \in InFlight \cup Resolved, SaveJournal(s)
  PROVE  /\ journal' \in Journal /\ journal'.state = s
         /\ journal'.from = journal.from /\ journal'.to = journal.to
         /\ journal'.digest = journal.digest
BY DEF UpdateTypeOK, Journal, SaveJournal

\* Counting a start changes only the count (resolveInstalled).
LEMMA CountedKept ==
  ASSUME UpdateTypeOK
  PROVE  /\ Counted(journal) \in Journal /\ Counted(journal).state = journal.state
         /\ Counted(journal).from = journal.from /\ Counted(journal).to = journal.to
         /\ Counted(journal).digest = journal.digest
BY DEF UpdateTypeOK, Journal, Counted

\* A fault is counted and changes no other bound.
LEMMA FaultTypes ==
  ASSUME UpdateTypeOK, NEW n \in Nat, Fault(n)
  PROVE  /\ faults' \in Nat /\ updates' = updates /\ rollbacks' = rollbacks
         /\ updateCrashes' = updateCrashes /\ faults' = faults + n
BY DEF UpdateTypeOK, Fault

\* A failing replacement leaves the executable alone, or none after a second fault
\* (replaceRunningBinary).
LEMMA ReplaceFailed ==
  ASSUME UpdateTypeOK, NEW n \in 1..3, ReplaceFails(n)
  PROVE  /\ exe' = exe \/ (exe' = Missing /\ faults' > 1)
         /\ faults' \in Nat /\ faults' >= faults
         /\ updates' = updates /\ rollbacks' = rollbacks /\ updateCrashes' = updateCrashes
<1>1. n \in Nat /\ n + 1 \in Nat /\ n + 1 > 1 /\ faults \in Nat
  BY DEF UpdateTypeOK
<1>2. CASE Fault(n) /\ exe' = exe
  BY <1>1, <1>2, FaultTypes
<1>3. CASE Fault(n + 1) /\ exe' = Missing
  BY <1>1, <1>3, FaultTypes
<1> QED BY <1>2, <1>3 DEF ReplaceFails

\* So does a failed restore; a refused one changes nothing (restoreBackup).
LEMMA RestoreFailed ==
  ASSUME UpdateTypeOK, RestoreFails(1) \/ RestoreFails(2) \/ RestoreFails(3)
  PROVE  /\ exe' = exe \/ (exe' = Missing /\ faults' > 1)
         /\ unrestored' = TRUE /\ faults' \in Nat /\ faults' >= faults
         /\ updates' = updates /\ rollbacks' = rollbacks /\ updateCrashes' = updateCrashes
<1>1. PICK n \in 1..3 : RestoreFails(n)
  OBVIOUS
<1>2. CASE Fault(n - 1) /\ exe' = exe
  <2>1. n - 1 \in Nat /\ faults \in Nat
    BY DEF UpdateTypeOK
  <2> QED BY <1>1, <1>2, <2>1, FaultTypes DEF RestoreFails
<1>3. CASE ReplaceFails(n)
  BY <1>1, <1>3, ReplaceFailed DEF RestoreFails
<1> QED BY <1>1, <1>2, <1>3 DEF RestoreFails

\* The installed agent at the beginning.
LEMMA InitSafe == UpdateInit => UpdateTypeOK /\ Shape /\ Safe
<1> SUFFICES ASSUME UpdateInit PROVE UpdateTypeOK /\ Shape /\ Safe
  OBVIOUS
<1> USE BuildSets DEF UpdateInit
<1>1. journal.state = "none" /\ previousBuild.state = "none" /\ previousBuild \in Previous
  BY DEF NoJournal, NoPrevious, Previous
<1>2. UpdateTypeOK
  BY <1>1 DEF UpdateTypeOK
<1>3. Shape
  BY <1>1 DEF Shape, InFlight
<1>4. Safe
  BY <1>1 DEF Safe
<1> QED BY <1>2, <1>3, <1>4

-----------------------------------------------------------------------------
\* Every step keeps the types, and the place in the code fits the files.
LEMMA ShapeStep == UpdateTypeOK /\ Shape /\ [UpdateNext]_updateVars => UpdateTypeOK' /\ Shape'
<1> SUFFICES ASSUME UpdateTypeOK, Shape, [UpdateNext]_updateVars PROVE UpdateTypeOK' /\ Shape'
  OBVIOUS
<1> USE BuildSets DEF InFlight, Resolved, Updating, Operating, Resolving
<1>1. ASSUME NEW v \in Versions, BeginUpdate(v) PROVE UpdateTypeOK' /\ Shape'
  <2>1. updates + 1 \in Nat /\ running \in Nat /\ running \in Versions /\ v \in Nat
    BY <1>1 DEF BeginUpdate, UpdateTypeOK, Shape
  <2>2. /\ journal' \in Journal /\ journal'.state = "staged"
        /\ journal'.from = running /\ journal'.to = v
    BY <1>1, <2>1 DEF BeginUpdate, NoJournal, Journal
  <2> QED BY <1>1, <2>1, <2>2 DEF BeginUpdate, Goto, UpdateTypeOK, Shape
<1>2. CASE Backup
  <2>1. /\ journal' \in Journal /\ journal'.state = "staged"
        /\ journal'.from = journal.from /\ journal'.to = journal.to
        /\ journal'.digest = exe /\ exe \in Versions
    BY <1>2 DEF Backup, UpdateTypeOK, Shape, Journal
  <2> QED BY <1>2, <2>1 DEF Backup, Goto, UpdateTypeOK, Shape, files, process, history,
      bounds
<1>3. CASE BackupFails
  BY <1>3, Saved, FaultTypes DEF BackupFails, Goto, UpdateTypeOK, Shape, files, process,
     history, bounds
<1>4. CASE Swap
  BY <1>4 DEF Swap, Goto, UpdateTypeOK, Shape, files, process, history, bounds
<1>5. CASE SwapFails
  BY <1>5, Saved, FaultTypes DEF SwapFails, Goto, UpdateTypeOK, Shape, files, process,
     history, bounds
<1>6. CASE SaveInstalled
  BY <1>6, Saved DEF SaveInstalled, Goto, UpdateTypeOK, Shape, files, process, history,
     bounds
<1>7. CASE SaveInstalledFails
  BY <1>7, FaultTypes, RestoreFailed DEF SaveInstalledFails, Goto, Restore,
     Restorable, UpdateTypeOK, Shape, files, process, history, bounds
<1>8. CASE RequestRestart
  BY <1>8 DEF RequestRestart, UpdateTypeOK, Shape, files, process, history, bounds
<1>9. CASE RequestRestartFails
  BY <1>9, Saved, FaultTypes, RestoreFailed DEF RequestRestartFails, Goto, Restore,
     Restorable, UpdateTypeOK, Shape, files, process, history, bounds
<1>10. CASE BeginRollback
  BY <1>10 DEF BeginRollback, Goto, UpdateTypeOK, Shape, files, process, history, bounds
<1>11. CASE RollbackRestore
  BY <1>11 DEF RollbackRestore, Goto, Restore, Restorable, UpdateTypeOK, Shape, files,
     process, history, bounds
<1>12. CASE RollbackRefused
  BY <1>12, ReplaceFailed DEF RollbackRefused, Goto, UpdateTypeOK, Shape, files, process,
     history, bounds
<1>13. CASE RollbackSave
  <2>1. /\ journal' \in Journal /\ journal'.state = "rolled_back"
    BY <1>13 DEF RollbackSave, UpdateTypeOK, Shape, Journal, NoJournal, Previous
  <2> QED BY <1>13, <2>1 DEF RollbackSave, Goto, UpdateTypeOK, Shape, files, process,
      history, bounds
<1>14. CASE RollbackSaveFails
  BY <1>14, FaultTypes DEF RollbackSaveFails, Goto, UpdateTypeOK, Shape, files, process,
     history, bounds
<1>15. CASE RollbackRestart
  BY <1>15, FaultTypes DEF RollbackRestart, UpdateTypeOK, Shape, files, process, history,
     bounds
<1>16. CASE ServiceStopped
  BY <1>16 DEF ServiceStopped, Stopped, UpdateTypeOK, Shape, files, process, history, bounds
<1>17. CASE UpdateCrash
  BY <1>17 DEF UpdateCrash, Crashed, Stopped, UpdateTypeOK, Shape, files, process, history, bounds
<1>18. CASE CrashWhileWriting
  BY <1>18 DEF CrashWhileWriting, Crashed, Stopped, Corrupt, NoPrevious, Previous,
     UpdateTypeOK, Shape, files, process, history, bounds
<1>19. CASE CrashWhileReplacing
  BY <1>19 DEF CrashWhileReplacing, Crashed, Stopped, UpdateTypeOK, Shape, files, process,
     history, bounds
<1>20. CASE ServiceStart
  BY <1>20 DEF ServiceStart, UpdateTypeOK, Shape, files, process, history, bounds
<1>21. CASE ResolveNothing
  BY <1>21 DEF ResolveNothing, Goto, UpdateTypeOK, Shape, files, process, history, bounds
<1>22. CASE ResolveStaged
  BY <1>22, Saved DEF ResolveStaged, ReportAs, UpdateTypeOK, Shape, files, process, history,
     bounds
<1>23. CASE ResolveTerminal
  BY <1>23 DEF ResolveTerminal, ReportAs, UpdateTypeOK, Shape, files, process, history,
     bounds
<1>24. CASE ResolveInstalled
  BY <1>24, CountedKept DEF ResolveInstalled, Goto, UpdateTypeOK, Shape, files, process,
     history, bounds
<1>25. CASE ResolveFails
  BY <1>25, FaultTypes DEF ResolveFails, Goto, UpdateTypeOK, Shape, files, process, history,
     bounds
<1>26. CASE HealthPasses
  BY <1>26, FaultTypes DEF HealthPasses, Goto, Corrupt, NoPrevious, Previous, Journal,
     UpdateTypeOK, Shape, files, process, history, bounds
<1>27. CASE Commit
  BY <1>27, Saved DEF Commit, ReportAs, UpdateTypeOK, Shape, files, process, history, bounds
<1>28. CASE HealthFails
  BY <1>28 DEF HealthFails, Goto, UpdateTypeOK, Shape, files, process, history, bounds
<1>29. CASE Rollback
  BY <1>29 DEF Rollback, Goto, Restore, Restorable, UpdateTypeOK, Shape, files, process,
     history, bounds
<1>30. CASE RollbackFails
  BY <1>30, Saved, RestoreFailed DEF RollbackFails, ReportAs, UpdateTypeOK, Shape, files,
     process, history, bounds
<1>31. CASE RolledBack
  BY <1>31, Saved, FaultTypes DEF RolledBack, UpdateTypeOK, Shape, files, process, history,
     bounds
<1>32. CASE Report
  <2>1. [id |-> journal.id, to |-> journal.to, status |-> verdict]
          \in [id : Nat, to : Nat, status : Resolved]
    BY <1>32 DEF Report, UpdateTypeOK, Shape, Journal
  <2> QED BY <1>32, <2>1 DEF Report, UpdateTypeOK, Shape, files, process, history, bounds
<1>33. CASE ReportLost
  BY <1>33 DEF ReportLost, UpdateTypeOK, Shape, files, process, history, bounds
<1>34. CASE Acknowledge
  <2>1. NoJournal.state = "none"
    BY <1>34 DEF NoJournal
  <2> QED BY <1>34, <2>1 DEF Acknowledge, Goto, UpdateTypeOK, Shape, files, process,
      history, bounds
<1>35. CASE AcknowledgeFails
  BY <1>35, FaultTypes DEF AcknowledgeFails, Goto, UpdateTypeOK, Shape, files, process,
     history, bounds
<1>36. CASE UNCHANGED updateVars
  BY <1>36 DEF updateVars, UpdateTypeOK, Shape, files, process, history, bounds
<1> QED
  BY <1>1, <1>2, <1>3, <1>4, <1>5, <1>6, <1>7, <1>8, <1>9, <1>10, <1>11, <1>12, <1>13,
     <1>14, <1>15, <1>16, <1>17, <1>18, <1>19, <1>20, <1>21, <1>22, <1>23, <1>24,
     <1>25, <1>26, <1>27, <1>28, <1>29, <1>30, <1>31, <1>32, <1>33, <1>34, <1>35,
     <1>36 DEF UpdateNext, Update, OperatorRollback, Resolve, Service

\* Every step keeps what Safe says of the proven builds.
LEMMA SafeStep == UpdateTypeOK /\ Shape /\ Safe /\ [UpdateNext]_updateVars => Safe'
<1> SUFFICES ASSUME UpdateTypeOK, Shape, Safe, [UpdateNext]_updateVars PROVE Safe'
  OBVIOUS
<1> USE BuildSets DEF InFlight, Resolved, Updating, Operating, Resolving
<1>1. ASSUME NEW v \in Versions, BeginUpdate(v) PROVE Safe'
  <2>1. journal'.state = "staged" /\ journal.state # "installed"
    BY <1>1 DEF BeginUpdate, MayUpdate, NoJournal
  <2> QED BY <1>1, <2>1 DEF BeginUpdate, Goto, Safe
<1>2. CASE Backup
  <2>1. /\ journal' \in Journal /\ journal'.state = "staged"
        /\ journal'.from = journal.from /\ journal'.to = journal.to
        /\ journal'.digest = exe /\ exe \in Versions
    BY <1>2 DEF Backup, UpdateTypeOK, Shape, Journal
  <2> QED BY <1>2, <2>1 DEF Backup, Goto, UpdateTypeOK, Shape, Safe, Undoable, Restorable,
      files, process, history, bounds
<1>3. CASE BackupFails
  BY <1>3, Saved, FaultTypes DEF BackupFails, Goto, UpdateTypeOK, Shape, Safe, Undoable,
     Restorable, files, process, history, bounds
<1>4. CASE Swap
  BY <1>4 DEF Swap, Goto, UpdateTypeOK, Shape, Safe, Undoable, Restorable, files, process,
     history, bounds
<1>5. CASE SwapFails
  BY <1>5, Saved, FaultTypes DEF SwapFails, Goto, UpdateTypeOK, Shape, Safe, Undoable,
     Restorable, files, process, history, bounds
<1>6. CASE SaveInstalled
  BY <1>6, Saved DEF SaveInstalled, Goto, UpdateTypeOK, Shape, Safe, Undoable, Restorable,
     files, process, history, bounds
<1>7. CASE SaveInstalledFails
  BY <1>7, FaultTypes, RestoreFailed DEF SaveInstalledFails, Goto, Restore,
     Restorable, UpdateTypeOK, Shape, Safe, Undoable, Restorable, files, process, history,
     bounds
<1>8. CASE RequestRestart
  BY <1>8 DEF RequestRestart, UpdateTypeOK, Shape, Safe, Undoable, Restorable, files,
     process, history, bounds
<1>9. CASE RequestRestartFails
  BY <1>9, Saved, FaultTypes, RestoreFailed DEF RequestRestartFails, Goto, Restore,
     Restorable, UpdateTypeOK, Shape, Safe, Undoable, Restorable, files, process, history,
     bounds
<1>10. CASE BeginRollback
  BY <1>10 DEF BeginRollback, Goto, UpdateTypeOK, Shape, Safe, Undoable, Restorable, files,
     process, history, bounds
<1>11. CASE RollbackRestore
  BY <1>11 DEF RollbackRestore, Goto, Restore, Restorable, UpdateTypeOK, Shape, Safe,
     Undoable, Restorable, files, process, history, bounds
<1>12. CASE RollbackRefused
  BY <1>12, ReplaceFailed DEF RollbackRefused, Goto, UpdateTypeOK, Shape, Safe, Undoable,
     Restorable, files, process, history, bounds
<1>13. CASE RollbackSave
  <2>1. /\ journal' \in Journal /\ journal'.state = "rolled_back"
    BY <1>13 DEF RollbackSave, UpdateTypeOK, Shape, Journal, NoJournal, Previous
  <2> QED BY <1>13, <2>1 DEF RollbackSave, Goto, UpdateTypeOK, Shape, Safe, Undoable,
      Restorable, files, process, history, bounds
<1>14. CASE RollbackSaveFails
  BY <1>14, FaultTypes DEF RollbackSaveFails, Goto, UpdateTypeOK, Shape, Safe, Undoable,
     Restorable, files, process, history, bounds
<1>15. CASE RollbackRestart
  BY <1>15, FaultTypes DEF RollbackRestart, UpdateTypeOK, Shape, Safe, Undoable, Restorable,
     files, process, history, bounds
<1>16. CASE ServiceStopped
  BY <1>16 DEF ServiceStopped, Stopped, UpdateTypeOK, Shape, Safe, Undoable, Restorable,
     files, process, history, bounds
<1>17. CASE UpdateCrash
  BY <1>17 DEF UpdateCrash, Crashed, Stopped, UpdateTypeOK, Shape, Safe, Undoable, Restorable,
     files, process, history, bounds
<1>18. CASE CrashWhileWriting
  BY <1>18 DEF CrashWhileWriting, Crashed, Stopped, Corrupt, NoPrevious, Previous,
     UpdateTypeOK, Shape, Safe, Undoable, Restorable, files, process, history, bounds
<1>19. CASE CrashWhileReplacing
  BY <1>19 DEF CrashWhileReplacing, Crashed, Stopped, UpdateTypeOK, Shape, Safe, Undoable,
     Restorable, files, process, history, bounds
<1>20. CASE ServiceStart
  BY <1>20 DEF ServiceStart, UpdateTypeOK, Shape, Safe, Undoable, Restorable, files, process,
     history, bounds
<1>21. CASE ResolveNothing
  BY <1>21 DEF ResolveNothing, Goto, UpdateTypeOK, Shape, Safe, Undoable, Restorable, files,
     process, history, bounds
<1>22. CASE ResolveStaged
  BY <1>22, Saved DEF ResolveStaged, ReportAs, UpdateTypeOK, Shape, Safe, Undoable,
     Restorable, files, process, history, bounds
<1>23. CASE ResolveTerminal
  BY <1>23 DEF ResolveTerminal, ReportAs, UpdateTypeOK, Shape, Safe, Undoable, Restorable,
     files, process, history, bounds
<1>24. CASE ResolveInstalled
  BY <1>24, CountedKept DEF ResolveInstalled, Goto, UpdateTypeOK, Shape, Safe, Undoable,
     Restorable, files, process, history, bounds
<1>25. CASE ResolveFails
  BY <1>25, FaultTypes DEF ResolveFails, Goto, UpdateTypeOK, Shape, Safe, Undoable,
     Restorable, files, process, history, bounds
<1>26. CASE HealthPasses
  BY <1>26, FaultTypes DEF HealthPasses, Goto, Corrupt, NoPrevious, Previous, Journal,
     UpdateTypeOK, Shape, Safe, Undoable, Restorable, files, process, history, bounds
<1>27. CASE Commit
  BY <1>27, Saved DEF Commit, ReportAs, UpdateTypeOK, Shape, Safe, Undoable, Restorable,
     files, process, history, bounds
<1>28. CASE HealthFails
  BY <1>28 DEF HealthFails, Goto, UpdateTypeOK, Shape, Safe, Undoable, Restorable, files,
     process, history, bounds
<1>29. CASE Rollback
  BY <1>29 DEF Rollback, Goto, Restore, Restorable, UpdateTypeOK, Shape, Safe, Undoable,
     Restorable, files, process, history, bounds
<1>30. CASE RollbackFails
  BY <1>30, Saved, RestoreFailed DEF RollbackFails, ReportAs, UpdateTypeOK, Shape, Safe,
     Undoable, Restorable, files, process, history, bounds
<1>31. CASE RolledBack
  BY <1>31, Saved, FaultTypes DEF RolledBack, UpdateTypeOK, Shape, Safe, Undoable,
     Restorable, files, process, history, bounds
<1>32. CASE Report
  <2>1. [id |-> journal.id, to |-> journal.to, status |-> verdict]
          \in [id : Nat, to : Nat, status : Resolved]
    BY <1>32 DEF Report, UpdateTypeOK, Shape, Journal
  <2> QED BY <1>32, <2>1 DEF Report, UpdateTypeOK, Shape, Safe, Undoable, Restorable, files,
      process, history, bounds
<1>33. CASE ReportLost
  BY <1>33 DEF ReportLost, UpdateTypeOK, Shape, Safe, Undoable, Restorable, files, process,
     history, bounds
<1>34. CASE Acknowledge
  <2>1. NoJournal.state = "none"
    BY <1>34 DEF NoJournal
  <2> QED BY <1>34, <2>1 DEF Acknowledge, Goto, UpdateTypeOK, Shape, Safe, Undoable,
      Restorable, files, process, history, bounds
<1>35. CASE AcknowledgeFails
  BY <1>35, FaultTypes DEF AcknowledgeFails, Goto, UpdateTypeOK, Shape, Safe, Undoable,
     Restorable, files, process, history, bounds
<1>36. CASE UNCHANGED updateVars
  BY <1>36 DEF updateVars, UpdateTypeOK, Shape, Safe, Undoable, Restorable, files, process,
     history, bounds
<1> QED
  BY <1>1, <1>2, <1>3, <1>4, <1>5, <1>6, <1>7, <1>8, <1>9, <1>10, <1>11, <1>12, <1>13,
     <1>14, <1>15, <1>16, <1>17, <1>18, <1>19, <1>20, <1>21, <1>22, <1>23, <1>24,
     <1>25, <1>26, <1>27, <1>28, <1>29, <1>30, <1>31, <1>32, <1>33, <1>34, <1>35,
     <1>36 DEF UpdateNext, Update, OperatorRollback, Resolve, Service

-----------------------------------------------------------------------------
\* Without a crash in a swap it takes two faults to leave no executable.
LEMMA StrandedStep == UpdateTypeOK /\ Shape /\ Stranded /\ [UpdateNext]_updateVars => Stranded'
<1> SUFFICES ASSUME UpdateTypeOK, Shape, Stranded, [UpdateNext]_updateVars PROVE Stranded'
  OBVIOUS
<1>0. faults \in Nat /\ Missing \notin Versions
  BY BuildSets DEF UpdateTypeOK
<1>1. CASE UNCHANGED exe /\ UNCHANGED <<torn, bounds>>
  BY <1>1 DEF Stranded, bounds
<1>2. ASSUME NEW v \in Versions, BeginUpdate(v) PROVE Stranded'
  BY <1>2 DEF BeginUpdate, Stranded
<1>3. ASSUME NEW n \in 0..4, Fault(n), UNCHANGED <<exe, torn>> PROVE Stranded'
  BY <1>0, <1>3, FaultTypes DEF Stranded
<1>4. CASE Update
  <2>1. CASE Backup \/ SaveInstalled \/ RequestRestart
    BY <1>1, <2>1 DEF Backup, SaveInstalled, RequestRestart, files, history
  <2>2. CASE BackupFails
    BY <1>3, <2>2 DEF BackupFails, history
  <2>3. CASE Swap
    <3>1. exe' \in Versions
      BY <2>3 DEF Swap, Shape, InFlight
    <3> QED BY <1>0, <3>1 DEF Stranded
  <2>4. CASE SwapFails
    <3>1. PICK n \in {1, 3} : /\ exe' = IF n = 1 THEN journal.digest ELSE Missing
                              /\ Fault(n) \/ Fault(n + 1)
      BY <2>4 DEF SwapFails
    <3>2. journal.digest \in Versions
      BY <2>4 DEF SwapFails, Shape
    <3>3. n \in Nat /\ n + 1 \in Nat
      OBVIOUS
    <3> QED BY <1>0, <3>1, <3>2, <3>3, FaultTypes DEF Stranded
  <2>5. CASE SaveInstalledFails \/ RequestRestartFails
    <3>1. \/ exe' \in Versions
          \/ RestoreFails(2) \/ RestoreFails(3)
      BY <2>5 DEF SaveInstalledFails, RequestRestartFails, Restore, Restorable
    <3>2. torn' = torn
      BY <2>5 DEF SaveInstalledFails, RequestRestartFails
    <3>3. CASE exe' \in Versions
      BY <1>0, <3>3 DEF Stranded
    <3>4. CASE RestoreFails(2) \/ RestoreFails(3)
      <4>1. exe' = exe \/ (exe' = Missing /\ faults' > 1)
        BY <3>4, RestoreFailed
      <4>2. faults' \in Nat /\ faults' >= faults
        BY <3>4, RestoreFailed
      <4> QED BY <1>0, <3>2, <4>1, <4>2 DEF Stranded
    <3> QED BY <3>1, <3>3, <3>4
  <2> QED BY <1>4, <2>1, <2>2, <2>3, <2>4, <2>5 DEF Update
<1>5. CASE BeginRollback
  BY <1>5 DEF BeginRollback, Stranded, files, history
<1>6. CASE OperatorRollback
  <2>1. CASE RollbackRestore
    BY <1>0, <2>1 DEF RollbackRestore, Restore, Restorable, Stranded
  <2>2. CASE RollbackRefused
    <3>1. ReplaceFails(1) \/ UNCHANGED <<exe, bounds>>
      BY <2>2 DEF RollbackRefused
    <3>2. torn' = torn
      BY <2>2 DEF RollbackRefused, history
    <3> QED BY <1>0, <3>1, <3>2, ReplaceFailed DEF Stranded, bounds
  <2>3. CASE RollbackSave
    BY <1>1, <2>3 DEF RollbackSave, history
  <2>4. CASE RollbackSaveFails
    BY <1>3, <2>4 DEF RollbackSaveFails, files, history
  <2>5. CASE RollbackRestart
    BY <1>1, <1>3, <2>5 DEF RollbackRestart, files, history
  <2> QED BY <1>6, <2>1, <2>2, <2>3, <2>4, <2>5 DEF OperatorRollback
<1>7. CASE Resolve
  <2>1. CASE ResolveNothing \/ ResolveStaged \/ ResolveTerminal \/ ResolveInstalled \/ Commit
             \/ HealthFails \/ Report \/ ReportLost \/ Acknowledge
    BY <1>1, <2>1 DEF ResolveNothing, ResolveStaged, ResolveTerminal, ResolveInstalled, Commit,
       HealthFails, Report, ReportLost, Acknowledge, files, history
  <2>2. CASE ResolveFails \/ AcknowledgeFails
    BY <1>3, <2>2 DEF ResolveFails, AcknowledgeFails, files, history
  <2>3. CASE HealthPasses \/ RolledBack
    BY <1>1, <1>3, <2>3 DEF HealthPasses, RolledBack, history
  <2>4. CASE Rollback
    BY <1>0, <2>4 DEF Rollback, Restore, Restorable, Stranded
  <2>5. CASE RollbackFails
    <3>1. RestoreFails(1) \/ RestoreFails(2)
      BY <2>5 DEF RollbackFails
    <3>2. torn' = torn
      BY <2>5 DEF RollbackFails
    <3>3. exe' = exe \/ (exe' = Missing /\ faults' > 1)
      BY <3>1, RestoreFailed
    <3>4. faults' \in Nat /\ faults' >= faults
      BY <3>1, RestoreFailed
    <3> QED BY <1>0, <3>2, <3>3, <3>4 DEF Stranded
  <2> QED BY <1>7, <2>1, <2>2, <2>3, <2>4, <2>5 DEF Resolve
<1>8. CASE Service
  BY <1>1, <1>8 DEF Service, ServiceStopped, ServiceStart, files, history
<1>9. CASE UpdateCrash \/ CrashWhileWriting \/ CrashWhileReplacing
  BY <1>9 DEF UpdateCrash, CrashWhileWriting, CrashWhileReplacing, Crashed, Stranded, files
<1>10. CASE UNCHANGED updateVars
  BY <1>1, <1>10 DEF updateVars, files, history
<1> QED BY <1>2, <1>4, <1>5, <1>6, <1>7, <1>8, <1>9, <1>10 DEF UpdateNext

-----------------------------------------------------------------------------
\* Every health check was counted in the journal of its attempt before it began.
Tries ==
  /\ checks <= MaxHealthAttempts
  /\ journal.state = "installed" => checks <= journal.attempts
  /\ journal.state = "staged" => checks = 0

\* What the server was told of the attempt in the journal is what the journal says,
\* and it was told nothing of an attempt that is not resolved.
Told ==
  /\ journal.id <= updates /\ \A r \in reports : r.id <= updates
  /\ ~unrestored =>
       /\ \A r, s \in reports : r.id = s.id /\ r.id # 0 => r.status = s.status
       /\ \A r \in reports : r.id = journal.id /\ r.id # 0 => r.status = journal.state
       /\ step = "report" => verdict = journal.state
       /\ step = "ack" => journal.state \in Resolved

\* A committed build is one that came up and completed a check-in.
Worked ==
  /\ step = "check" => running = journal.to
  /\ step = "commit" => journal.to \in proven
  /\ journal.state = "committed" => journal.to \in proven
  /\ step = "report" /\ verdict = "committed" => journal.state = "committed"
  /\ \A r \in reports : r.status = "committed" => r.to \in proven

Verdicts == Tries /\ Told /\ Worked

\* saveJournal keeps the attempt and its count.
LEMMA SavedAttempt ==
  ASSUME UpdateTypeOK, NEW s \in InFlight \cup Resolved, SaveJournal(s)
  PROVE  journal'.id = journal.id /\ journal'.attempts = journal.attempts
BY DEF UpdateTypeOK, Journal, SaveJournal

\* Counting a start, as a fact on the fields (resolveInstalled).
LEMMA CountedAttempt ==
  ASSUME UpdateTypeOK
  PROVE  /\ Counted(journal).id = journal.id
         /\ Counted(journal).attempts = journal.attempts + 1
BY DEF UpdateTypeOK, Journal, Counted

\* The types the arithmetic and the comparisons of Verdicts need.
LEMMA VerdictTypes ==
  ASSUME UpdateTypeOK
  PROVE  /\ journal.id \in Nat /\ journal.attempts \in Nat /\ journal.to \in Nat
         /\ checks \in Nat /\ updates \in Nat /\ MaxHealthAttempts \in Nat
         /\ \A r \in reports : r.id \in Nat /\ r.to \in Nat /\ r.status \in Resolved
BY SelfUpdateConstants DEF UpdateTypeOK, Journal

\* Every step keeps what Verdicts says of the attempt and its reports.
LEMMA VerdictStep ==
  UpdateTypeOK /\ UpdateTypeOK' /\ Shape /\ Verdicts /\ [UpdateNext]_updateVars => Verdicts'
<1> SUFFICES ASSUME UpdateTypeOK, UpdateTypeOK', Shape, Verdicts, [UpdateNext]_updateVars PROVE Verdicts'
  OBVIOUS
<1> USE VerdictTypes DEF Verdicts, Tries, Told, Worked, InFlight, Resolved
<1>1. ASSUME NEW v \in Versions, BeginUpdate(v) PROVE Verdicts'
  <2>1. /\ journal'.state = "staged" /\ journal'.id = updates + 1
        /\ updates' = updates + 1 /\ journal'.id \in Nat
    BY <1>1 DEF BeginUpdate, NoJournal
  <2> QED BY <1>1, <2>1 DEF BeginUpdate, Goto
<1>2. CASE Update
  <2> USE DEF Goto, history, bounds, files, Fault, Restore, RestoreFails, ReplaceFails
  <2>1. CASE Backup
    <3>1. /\ journal'.state = "staged" /\ journal'.id = journal.id
          /\ journal'.to = journal.to /\ journal'.attempts = journal.attempts
      BY <2>1 DEF Backup, UpdateTypeOK, Shape, Journal
    <3> QED BY <2>1, <3>1 DEF Backup, Shape
  <2>2. CASE BackupFails
    BY <2>2, Saved, SavedAttempt DEF BackupFails, Shape
  <2>3. CASE Swap \/ RequestRestart
    BY <2>3 DEF Swap, RequestRestart
  <2>4. CASE SwapFails
    BY <2>4, Saved, SavedAttempt DEF SwapFails, Shape
  <2>5. CASE SaveInstalled
    BY <2>5, Saved, SavedAttempt DEF SaveInstalled, Shape
  <2>6. CASE SaveInstalledFails
    BY <2>6 DEF SaveInstalledFails, Shape
  <2>7. CASE RequestRestartFails
    BY <2>7, Saved, SavedAttempt DEF RequestRestartFails, Shape
  <2> QED BY <1>2, <2>1, <2>2, <2>3, <2>4, <2>5, <2>6, <2>7 DEF Update
<1>3. CASE BeginRollback \/ OperatorRollback
  <2>1. CASE RollbackSave
    <3>1. journal'.state = "rolled_back" /\ journal'.id = 0
      BY <2>1 DEF RollbackSave, NoJournal
    <3> QED BY <2>1, <3>1 DEF RollbackSave, Goto, history, bounds
  <2>2. CASE BeginRollback \/ RollbackRestore \/ RollbackRefused \/ RollbackSaveFails
             \/ RollbackRestart
    BY <2>2 DEF BeginRollback, RollbackRestore, RollbackRefused, RollbackSaveFails,
       RollbackRestart, Restore, ReplaceFails, Goto, Fault, files, history, bounds
  <2> QED BY <1>3, <2>1, <2>2 DEF OperatorRollback
<1>4. CASE UpdateCrash \/ CrashWhileWriting \/ CrashWhileReplacing \/ Service
  BY <1>4 DEF UpdateCrash, CrashWhileWriting, CrashWhileReplacing, Crashed, Stopped, Service,
     ServiceStopped, ServiceStart, files, history, bounds
<1>5. CASE Resolve
  <2> USE DEF Goto, ReportAs, history, bounds, files, Fault, Restore, RestoreFails, ReplaceFails
  <2>1. CASE ResolveNothing \/ ResolveFails \/ HealthFails \/ Rollback \/ ReportLost
             \/ AcknowledgeFails
    BY <2>1 DEF ResolveNothing, ResolveFails, HealthFails, Rollback, ReportLost,
       AcknowledgeFails
  <2>2. CASE ResolveStaged
    BY <2>2, Saved, SavedAttempt DEF ResolveStaged
  <2>3. CASE ResolveTerminal
    BY <2>3 DEF ResolveTerminal
  <2>4. CASE ResolveInstalled
    <3>1. /\ journal'.state = "installed" /\ journal'.id = journal.id
          /\ journal'.to = journal.to /\ journal'.attempts = journal.attempts + 1
      BY <2>4, CountedKept, CountedAttempt DEF ResolveInstalled
    <3> QED BY <2>4, <3>1 DEF ResolveInstalled
  <2>5. CASE HealthPasses
    BY <2>5 DEF HealthPasses, Shape
  <2>6. CASE Commit
    BY <2>6, Saved, SavedAttempt DEF Commit, Shape
  <2>7. CASE RollbackFails
    BY <2>7, Saved, SavedAttempt DEF RollbackFails, Shape
  <2>8. CASE RolledBack
    BY <2>8, Saved, SavedAttempt DEF RolledBack, Shape
  <2>9. CASE Report
    <3> DEFINE told == [id |-> journal.id, to |-> journal.to, status |-> verdict]
    <3>1. \A r \in reports' : r \in reports \/ r = told
      BY <2>9 DEF Report
    <3>2. told.id = journal.id /\ told.to = journal.to /\ told.status = verdict
      OBVIOUS
    <3>3. \A r \in reports' : r.id <= updates'
      BY <2>9, <3>1, <3>2 DEF Report
    <3>4. \A r \in reports' : r.status = "committed" => r.to \in proven'
      BY <2>9, <3>1, <3>2 DEF Report
    <3>5. ASSUME ~unrestored
          PROVE  \A r \in reports' : r.id = journal.id /\ r.id # 0 => r.status = journal.state
      BY <2>9, <3>1, <3>2, <3>5 DEF Report
    <3>6. ASSUME ~unrestored
          PROVE  \A r, s \in reports' : r.id = s.id /\ r.id # 0 => r.status = s.status
      BY <3>5, <3>6, <3>1, <3>2
    <3>7. step' \in {"ack", "loop"} /\ UNCHANGED <<journal, checks, updates, unrestored, proven>>
      BY <2>9 DEF Report
    <3> QED BY <3>3, <3>4, <3>5, <3>6, <3>7, <2>9 DEF Report, Shape
  <2>10. CASE Acknowledge
    <3>1. NoJournal.id = 0 /\ NoJournal.state = "none"
      BY DEF NoJournal
    <3> QED BY <2>10, <3>1 DEF Acknowledge
  <2> QED BY <1>5, <2>1, <2>2, <2>3, <2>4, <2>5, <2>6, <2>7, <2>8, <2>9, <2>10
      DEF Resolve
<1>6. CASE UNCHANGED updateVars
  BY <1>6 DEF updateVars, files, process, history, bounds
<1> QED BY <1>1, <1>2, <1>3, <1>4, <1>5, <1>6 DEF UpdateNext

-----------------------------------------------------------------------------
\* The inductive invariant holds in every reachable state.
LEMMA Invariance == UpdateSpec => [](UpdateTypeOK /\ Shape /\ Safe /\ Stranded /\ Verdicts)
<1> DEFINE UInv == UpdateTypeOK /\ Shape /\ Safe /\ Stranded /\ Verdicts
<1>1. UpdateInit => UInv
  <2>1. UpdateInit => Verdicts
    BY SelfUpdateConstants DEF UpdateInit, Verdicts, Tries, Told, Worked, NoJournal
  <2>2. UpdateInit => Stranded
    BY BuildSets DEF UpdateInit, Stranded
  <2> QED BY <2>1, <2>2, InitSafe
<1>2. UInv /\ [UpdateNext]_updateVars => UInv'
  BY ShapeStep, SafeStep, StrandedStep, VerdictStep
<1> QED BY <1>1, <1>2, PTL DEF UpdateSpec

\* The files, the process and the reports keep their types through every crash
\* and failed write (executeUpdate, executeRollback, Resolve).
THEOREM UpdateTypeCorrect == UpdateSpec => []UpdateTypeOK
BY Invariance, PTL

\* Whatever crashes and failed writes happen, but for a crash in the swap or a restore
\* that failed before, a build on trial can be undone: the backup that
\* resolveInstalled would restore is intact and has worked.
THEOREM TrialUndoable == UpdateSpec => []TrialCanBeUndone
<1>1. Safe => TrialCanBeUndone
  BY DEF Safe, Undoable, TrialCanBeUndone
<1> QED BY <1>1, Invariance, PTL

\* Whatever crashes and failed writes happen, but for a crash in the swap, the
\* executable executeUpdate, executeRollback and Resolve leave outside an attempt has
\* completed a check-in unless a backup could not be restored, and is missing only
\* after two faults: a replacement that failed, and the ignored failure to undo one
\* (replaceRunningBinary, restoreBackup).
THEOREM ProvenKept == UpdateSpec => []OnlyProvenBuildsKept
<1>1. UpdateTypeOK /\ Shape /\ Safe /\ Stranded => OnlyProvenBuildsKept
  BY DEF UpdateTypeOK, Shape, Safe, Stranded, OnlyProvenBuildsKept, InFlight
<1> QED BY <1>1, Invariance, PTL

\* maxHealthAttempts bounds the health checks of one attempt over any number of
\* crashes and restarts, because resolveInstalled counts before it checks.
THEOREM ChecksBounded == UpdateSpec => []TrialsBounded
<1>1. Verdicts => TrialsBounded
  BY DEF Verdicts, Tries, TrialsBounded
<1> QED BY <1>1, Invariance, PTL

\* Through any crashes between resolving, reporting and clearing the journal the
\* server gets one outcome of an attempt, and "succeeded" only for a build that worked
\* (resolveSelfUpdate, Acknowledge).
THEOREM VerdictUnique == UpdateSpec => []OneVerdict
<1>1. Verdicts => OneVerdict
  BY DEF Verdicts, Told, Worked, OneVerdict
<1> QED BY <1>1, Invariance, PTL
=============================================================================
