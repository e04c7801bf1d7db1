----------------------------- MODULE AdminAuth -----------------------------
(***************************************************************************)
(* Operator accounts, sign-in, sessions, second factors and break-glass    *)
(* access (server/app/api: auth.py, mfa.py, admin_sessions.py, deps.py;    *)
(* core: sessions.py, mfa.py, mfa_email.py, webauthn.py, break_glass.py,   *)
(* password_reset.py, security.py, ratelimit.py).                          *)
(*                                                                         *)
(* A handler reads without locks and writes at its commit, under the lock  *)
(* of the audit chain: it is a step that loads and a step that commits.    *)
(* Columns are written one by one from what was loaded (SQLAlchemy writes  *)
(* the changed attributes), conditional UPDATEs look at the row again.     *)
(***************************************************************************)
EXTENDS Naturals, FiniteSets

CONSTANTS
  Staff, Emergency,      \* people, and the identity of the break-glass account
  InitialAccount,        \* the accounts at the start
  InitialKeys,           \* the owners of the security keys registered at the start
  InitialSessions,       \* the operators signed in at the start
  InitialFactor,         \* the mailboxes registered at the start
  Enforcement,           \* settings.mfa_enforcement
  RequiredRole,          \* settings.mfa_required_minimum_role
  EmailPolicy,           \* settings.mfa_email_code_policy
  MaxConcurrent, MaxKeys, MaxAttempts, MaxFailures,
  TokenTtl, PendingTtl, Absolute, GlassLifetime, Idle, ChallengeTtl, CodeTtl, StepUpAge,
  None,
  (* bounds of the model *)
  Slots, NumSessions, NumKeys, NumChallenges, NumRecovery, NumCodes, MaxClock,
  Budgets                \* how many handlers of each class an instance runs

Operators == Staff \cup {Emergency}
Classes   == {"signin", "edit", "session", "factor", "glass"}

Account == [role : {"absent", "readonly", "operator", "admin"}, disabled : BOOLEAN,
            platform : BOOLEAN, member : BOOLEAN, script : BOOLEAN, gen : Nat]
NoAccount == [role |-> "absent", disabled |-> FALSE, platform |-> FALSE, member |-> FALSE,
              script |-> FALSE, gen |-> 0]

OperatorSession == [status : {"absent", "live", "ended", "purged"},
                    op : Operators \cup {None}, gen : Nat, glass : BOOLEAN,
                    seen : Nat, abs : Nat]
NoSession == [status |-> "absent", op |-> None, gen |-> 0, glass |-> FALSE, seen |-> 0, abs |-> 0]

\* A WebAuthn key, a challenge, a recovery code and a mailed code.
WebAuthnCredential == [op : Operators \cup {None}, revoked : BOOLEAN]
WebAuthnChallenge  == [op : Operators \cup {None}, purpose : {"none", "signin", "step_up", "register"},
                       consumed : BOOLEAN, exp : Nat]
MfaRecoveryCode    == [op : Operators \cup {None}, status : {"absent", "unused", "used", "deleted"}]
MfaEmailCode       == [op : Operators \cup {None}, purpose : {"none", "signin", "enroll"}, attempts : Nat,
                       exp : Nat, consumed : BOOLEAN, superseded : BOOLEAN]

ASSUME AdminAuthAssumption ==
  /\ None \notin Operators /\ None \notin Nat
  /\ InitialAccount \in [Operators -> Account]
  /\ InitialFactor \in [Operators -> {"none", "unverified", "verified"}]
  /\ \A k \in DOMAIN InitialKeys : InitialKeys[k] \in Operators
  /\ \A s \in DOMAIN InitialSessions : s \in 1..NumSessions /\ InitialSessions[s] \in Operators
  /\ {NumSessions, NumKeys, NumChallenges, NumRecovery, NumCodes, MaxClock} \subseteq Nat
  /\ {Absolute, GlassLifetime, ChallengeTtl, CodeTtl} \subseteq Nat
  /\ Budgets \subseteq [Classes -> Nat]

\* What a second factor proves: one sign-in, step-up or registration each.
Proofs == ({"challenge"} \X (1..NumChallenges)) \cup ({"recovery"} \X (1..NumRecovery))
          \cup ({"code"} \X (1..NumCodes))

VARIABLES
  clock, accounts, sessions,
  tokens,       \* the bearer tokens ever handed out
  keys, challenges, recovery, codes,
  factor,       \* MfaEmailFactor: "none", "unverified", "verified"
  glass,        \* the break-glass account and its activations
  failures,     \* the in-memory rate limiters, by operator
  uses,         \* what each proof was accepted for (history)
  txns, budget

factors == <<keys, challenges, recovery, codes, factor, uses>>
vars == <<clock, accounts, sessions, tokens, factors, glass, failures, txns, budget>>

Free == [op |-> "free", tok |-> None, on |-> None, seen |-> NoAccount, row |-> None,
         now |-> 0, touch |-> FALSE, ok |-> TRUE, ids |-> {}]

Session(o, gen, isGlass) ==
  [status |-> "live", op |-> o, gen |-> gen, glass |-> isGlass, seen |-> clock,
   abs |-> clock + IF isGlass THEN GlassLifetime ELSE Absolute]

\* create_access_token and create_mfa_pending_token
AccessToken(o, gen, amr, sua, sid) ==
  [typ |-> "access", op |-> o, gen |-> gen, amr |-> amr, sua |-> sua, sid |-> sid,
   exp |-> clock + TokenTtl]
PendingToken(o, gen) ==
  [typ |-> "mfa_pending", op |-> o, gen |-> gen, amr |-> {"pwd"}, sua |-> None, sid |-> None,
   exp |-> clock + PendingTtl]

Init ==
  /\ clock = 0
  /\ accounts = InitialAccount
  /\ sessions = [s \in 1..NumSessions |->
       IF s \in DOMAIN InitialSessions
       THEN [status |-> "live", op |-> InitialSessions[s], gen |-> 0, glass |-> FALSE,
             seen |-> 0, abs |-> Absolute]
       ELSE NoSession]
  /\ tokens = {[typ |-> "access", op |-> InitialSessions[s], gen |-> 0, amr |-> {"pwd", "webauthn"},
                sua |-> 0, sid |-> s, exp |-> TokenTtl] : s \in DOMAIN InitialSessions}
  /\ keys = [k \in 1..NumKeys |->
       [op |-> IF k \in DOMAIN InitialKeys THEN InitialKeys[k] ELSE None, revoked |-> FALSE]]
  /\ challenges = [c \in 1..NumChallenges |->
       [op |-> None, purpose |-> "none", consumed |-> FALSE, exp |-> 0]]
  /\ recovery = [r \in 1..NumRecovery |-> [op |-> None, status |-> "absent"]]
  /\ codes = [c \in 1..NumCodes |-> [op |-> None, purpose |-> "none", attempts |-> 0, exp |-> 0,
                                     consumed |-> FALSE, superseded |-> FALSE]]
  /\ factor = InitialFactor
  /\ glass = [secret |-> 1, disabled |-> FALSE, activations |-> {}, reviewed |-> {}]
  /\ failures = [o \in Operators |-> 0]
  /\ uses = [p \in Proofs |-> 0]
  /\ txns = [t \in Slots |-> Free]
  /\ budget \in Budgets

(***************************************************************************)
(* Who is asking                                                           *)
(***************************************************************************)
RoleRank == [absent |-> 0, readonly |-> 1, operator |-> 2, admin |-> 3]

ActiveKeys(o) == {k \in DOMAIN keys : keys[k].op = o /\ ~keys[k].revoked}
UnusedCodes(o) == {r \in DOMAIN recovery : recovery[r].op = o /\ recovery[r].status = "unused"}

\* _bearer_claims and _operator_for_claims
ClaimsHold(tok) ==
  /\ clock < tok.exp
  /\ accounts[tok.op].role # "absent" /\ ~accounts[tok.op].disabled
  /\ tok.gen = accounts[tok.op].gen

\* sessions.resolve: the absolute ceiling and the idle deadline
Lapsed(s) == clock >= sessions[s].abs \/ clock >= sessions[s].seen + Idle

\* get_current_operator with _bind_session
Accepted(tok) ==
  /\ tok.typ = "access" /\ ClaimsHold(tok)
  /\ sessions[tok.sid].status = "live" /\ sessions[tok.sid].gen = accounts[tok.op].gen
  /\ ~Lapsed(tok.sid)

get_mfa_pending_operator(tok) == tok.typ = "mfa_pending" /\ ClaimsHold(tok)

Fresh(tok) == "webauthn" \in tok.amr /\ tok.sua # None /\ clock <= tok.sua + StepUpAge

require_step_up(tok) ==
  /\ Accepted(tok)
  /\ Enforcement = "off" \/ ActiveKeys(tok.op) = {} \/ Fresh(tok)

RequireAdmin(tok)    == require_step_up(tok) /\ accounts[tok.op].role = "admin"
RequirePlatform(tok) == require_step_up(tok) /\ accounts[tok.op].platform

enrollment_is_required(o) ==
  Enforcement = "required" /\ RoleRank[accounts[o].role] >= RoleRank[RequiredRole]

\* A partial sign-in may enrol only when the operator has to and has no key yet.
get_enrollment_operator(tok) ==
  /\ ClaimsHold(tok)
  /\ IF tok.typ = "mfa_pending"
     THEN ActiveKeys(tok.op) = {} /\ enrollment_is_required(tok.op)
     ELSE \/ ActiveKeys(tok.op) = {} \/ Enforcement = "off"
          \/ tok.amr \cap {"webauthn", "recovery_code", "email_code"} # {}

EmailUsable(o) == EmailPolicy # "off" /\ factor[o] = "verified"

\* The second factors a sign-in may finish with; none are needed when empty.
decide_login(o) ==
  CASE Enforcement = "off" -> {}
    [] OTHER -> IF ActiveKeys(o) # {}
                THEN {"webauthn"} \cup (IF UnusedCodes(o) # {} THEN {"recovery_code"} ELSE {})
                     \cup (IF EmailUsable(o) /\ EmailPolicy = "always" THEN {"email_code"} ELSE {})
                ELSE IF EmailUsable(o) THEN {"email_code"}
                ELSE IF enrollment_is_required(o) THEN {"enrollment"} ELSE {}

Limited(o) == failures[o] >= MaxFailures
Failed(o)  == failures' = [failures EXCEPT ![o] = IF @ < MaxFailures THEN @ + 1 ELSE @]
Cleared(o) == failures' = [failures EXCEPT ![o] = 0]

(***************************************************************************)
(* The two steps of a handler                                              *)
(***************************************************************************)
\* sessions.touch: the last use, written when the stored one is older.
Touches(tok) == tok # None /\ tok.sid # None /\ clock > sessions[tok.sid].seen
Asked(tok) == [Free EXCEPT !.tok = tok, !.now = clock, !.touch = Touches(tok)]

Load(class, handler) == \E t \in DOMAIN txns :
  /\ txns[t] = Free
  /\ budget[class] > 0
  /\ budget' = [budget EXCEPT ![class] = @ - 1]
  /\ txns' = [txns EXCEPT ![t] = handler]
  /\ UNCHANGED <<clock, accounts, sessions, tokens, factors, glass, failures>>

Done(t) == txns' = [txns EXCEPT ![t] = Free] /\ UNCHANGED <<clock, budget>>

Touch(t, after) ==
  IF txns[t].touch THEN [after EXCEPT ![txns[t].tok.sid].seen = txns[t].now] ELSE after
Touched(t) == sessions' = Touch(t, sessions)

\* An error or a restart of the server: nothing is written.
Abort(t) ==
  /\ txns[t] # Free
  /\ Done(t)
  /\ UNCHANGED <<accounts, sessions, tokens, factors, glass, failures>>

Live(o) == {s \in DOMAIN sessions : sessions[s].op = o /\ sessions[s].status = "live"}

\* revoke_all_for_operator: the UPDATE ended the sessions that were live then.
EndListed(t) == Touch(t, [s \in DOMAIN sessions |->
  IF s \in txns[t].ids THEN [sessions[s] EXCEPT !.status = "ended"] ELSE sessions[s]])

\* _enforce_concurrency_ceiling: the oldest beyond the ceiling, the new one aside.
excess(o) == {s \in Live(o) : Cardinality({r \in Live(o) : r > s}) >= MaxConcurrent - 1}

\* sessions.create with the token it is opened for
OpenSession(t, o, amr, sua, isGlass, superseded) ==
  \E s \in DOMAIN sessions :
    /\ sessions[s] = NoSession
    /\ \A r \in DOMAIN sessions : sessions[r] = NoSession => s <= r
    /\ sessions' = [r \in DOMAIN sessions |->
         IF r = s THEN Session(o, txns[t].seen.gen, isGlass)
         ELSE IF r \in superseded /\ sessions[r].status = "live"
              THEN [sessions[r] EXCEPT !.status = "ended"] ELSE sessions[r]]
    /\ tokens' = tokens \cup {AccessToken(o, txns[t].seen.gen, amr, sua, s)}

(***************************************************************************)
(* Sign-in with a password                                                 *)
(***************************************************************************)
\* A second factor is needed: a token that only finishes the sign-in.
login_pending(o) ==
  /\ ~Limited(o) /\ o \in Staff
  /\ accounts[o].role # "absent" /\ ~accounts[o].disabled
  /\ decide_login(o) # {} /\ budget["signin"] > 0
  /\ budget' = [budget EXCEPT !["signin"] = @ - 1]
  /\ tokens' = tokens \cup {PendingToken(o, accounts[o].gen)}
  /\ Cleared(o)
  /\ UNCHANGED <<clock, accounts, sessions, factors, glass, txns>>

login(o) ==
  /\ ~Limited(o) /\ o \in Staff
  /\ accounts[o].role # "absent" /\ ~accounts[o].disabled
  /\ decide_login(o) = {}
  /\ Load("signin", [Asked(None) EXCEPT !.op = "login", !.on = o, !.seen = accounts[o],
                                        !.ids = excess(o)])

\* The ceiling was enforced before the audit lock, on what was live then.
start_session(t) ==
  /\ txns[t].op = "login"
  /\ OpenSession(t, txns[t].on, {"pwd"}, None, FALSE, txns[t].ids)
  /\ Cleared(txns[t].on) /\ Done(t)
  /\ UNCHANGED <<accounts, factors, glass>>

\* A wrong password, code or assertion: counted, and refused from the limit on.
wrong_password(o) ==
  /\ ~Limited(o) /\ budget["signin"] > 0
  /\ budget' = [budget EXCEPT !["signin"] = @ - 1]
  /\ Failed(o)
  /\ UNCHANGED <<clock, accounts, sessions, tokens, factors, glass, txns>>

\* resolve ends a session it finds lapsed, and commits that with the refusal.
refuse_lapsed(tok) ==
  /\ tok.typ = "access" /\ ClaimsHold(tok)
  /\ sessions[tok.sid].status = "live" /\ Lapsed(tok.sid)
  /\ sessions' = [sessions EXCEPT ![tok.sid].status = "ended"]
  /\ UNCHANGED <<clock, accounts, tokens, factors, glass, failures, txns, budget>>

(***************************************************************************)
(* WebAuthn                                                                *)
(***************************************************************************)
Unconsumed(o, purpose) == {c \in DOMAIN challenges :
  challenges[c].op = o /\ challenges[c].purpose = purpose /\ ~challenges[c].consumed}

\* login_options, step_up_options and registration_options: issue_challenge
\* uses up the outstanding ones it sees.
issue_challenge(tok) == \E purpose \in {"signin", "step_up", "register"} :
  /\ Enforcement # "off"
  /\ CASE purpose = "signin"   -> get_mfa_pending_operator(tok) /\ ActiveKeys(tok.op) # {}
       [] purpose = "step_up"  -> Accepted(tok) /\ ActiveKeys(tok.op) # {}
       [] purpose = "register" -> /\ get_enrollment_operator(tok)
                                  /\ Cardinality(ActiveKeys(tok.op)) < MaxKeys
  /\ Load("factor", [Asked(tok) EXCEPT !.op = "challenge", !.on = tok.op, !.row = purpose,
                                       !.ids = Unconsumed(tok.op, purpose),
                                       !.touch = Touches(tok) /\ purpose # "register"])

store_challenge(t) ==
  /\ txns[t].op = "challenge"
  /\ \E c \in DOMAIN challenges :
       /\ challenges[c].op = None
       /\ \A d \in DOMAIN challenges : challenges[d].op = None => c <= d
       /\ challenges' = [d \in DOMAIN challenges |->
            IF d = c THEN [op |-> txns[t].on, purpose |-> txns[t].row, consumed |-> FALSE,
                           exp |-> txns[t].now + ChallengeTtl]
            ELSE [challenges[d] EXCEPT !.consumed = @ \/ d \in txns[t].ids]]
  /\ Touched(t) /\ Done(t)
  /\ UNCHANGED <<accounts, tokens, keys, recovery, codes, factor, uses, glass, failures>>

\* consume_challenge: the latest outstanding one of the purpose, not expired
Candidate(o, purpose) ==
  LET open == {c \in Unconsumed(o, purpose) : challenges[c].exp > clock} IN
  IF open = {} THEN None ELSE CHOOSE c \in open : \A d \in open : d <= c

\* What a browser sends back: the challenge its key signed, whether the page and
\* the relying party are ours, the user was there, the signature is the key's and
\* its counter moved on.
Response == [signs : 1..NumChallenges, origin : BOOLEAN, present : BOOLEAN,
             signature : BOOLEAN, counter : BOOLEAN]

_verify_client_data(r, c)     == r.signs = c /\ r.origin
_check_authenticator_data(r)  == r.present
verify_assertion(r, c)    == _verify_client_data(r, c) /\ _check_authenticator_data(r)
                             /\ r.signature /\ r.counter
verify_registration(r, c) == _verify_client_data(r, c) /\ _check_authenticator_data(r)
                             /\ r.signature

\* complete_login_with_webauthn, complete_step_up and register_credential
answer_challenge(tok) == \E purpose \in {"signin", "step_up", "register"} :
  LET c == Candidate(tok.op, purpose)
      verdicts == IF purpose = "register" THEN {verify_registration(r, c) : r \in Response}
                  ELSE {ActiveKeys(tok.op) # {} /\ verify_assertion(r, c) : r \in Response}
  IN /\ Enforcement # "off" /\ ~Limited(tok.op)
     /\ CASE purpose = "signin"   -> get_mfa_pending_operator(tok)
          [] purpose = "step_up"  -> Accepted(tok)
          [] purpose = "register" -> get_enrollment_operator(tok)
     /\ c # None
     /\ \E verified \in verdicts :
          Load(IF purpose = "signin" THEN "signin" ELSE "factor",
               [Asked(tok) EXCEPT !.op = "answer", !.on = c, !.seen = accounts[tok.op],
                                  !.row = purpose, !.ok = verified])

\* Mutant: the challenge found by the select is used without a look at the row.
MutClaimUnconditional(t) == TRUE
\* The UPDATE of consume_challenge claims the row only if nobody has.
ChallengeClaimed(t) == ~challenges[txns[t].on].consumed

Consume(t) ==
  /\ challenges' = [challenges EXCEPT ![txns[t].on].consumed = TRUE]
  /\ uses' = [uses EXCEPT ![<<"challenge", txns[t].on>>] = @ + 1]

challenge_signin(t) ==
  /\ txns[t].op = "answer" /\ txns[t].row = "signin" /\ txns[t].ok
  /\ ChallengeClaimed(t) /\ Consume(t)
  /\ LET o == txns[t].tok.op IN
     /\ OpenSession(t, o, {"pwd", "webauthn"}, clock, FALSE, excess(o))
     /\ Cleared(o)
  /\ Done(t)
  /\ UNCHANGED <<accounts, keys, recovery, codes, factor, glass>>

\* The session stays the same: only the token says more.
challenge_step_up(t) ==
  /\ txns[t].op = "answer" /\ txns[t].row = "step_up" /\ txns[t].ok
  /\ ChallengeClaimed(t) /\ Consume(t)
  /\ LET tok == txns[t].tok IN
     /\ tokens' = tokens \cup {AccessToken(tok.op, txns[t].seen.gen,
                                           tok.amr \cup {"pwd", "webauthn"}, clock, tok.sid)}
     /\ Cleared(tok.op)
  /\ Touched(t) /\ Done(t)
  /\ UNCHANGED <<accounts, keys, recovery, codes, factor, glass>>

challenge_register(t) ==
  /\ txns[t].op = "answer" /\ txns[t].row = "register" /\ txns[t].ok
  /\ ChallengeClaimed(t) /\ Consume(t)
  /\ Cardinality(ActiveKeys(txns[t].tok.op)) < MaxKeys
  /\ \E k \in DOMAIN keys :
       /\ keys[k].op = None
       /\ \A j \in DOMAIN keys : keys[j].op = None => k <= j
       /\ keys' = [keys EXCEPT ![k].op = txns[t].tok.op]
  /\ Cleared(txns[t].tok.op) /\ Done(t)
  /\ UNCHANGED <<accounts, sessions, tokens, recovery, codes, factor, glass>>

\* A challenge that is gone, an unknown key or a failed check: the challenge
\* stays used up, the failure is counted and committed.
challenge_failed(t) ==
  /\ txns[t].op = "answer" /\ (~txns[t].ok \/ ~ChallengeClaimed(t))
  /\ challenges' = [challenges EXCEPT ![txns[t].on].consumed = TRUE]
  /\ Failed(txns[t].tok.op)
  /\ IF txns[t].row = "step_up" THEN Touched(t) ELSE UNCHANGED sessions
  /\ Done(t)
  /\ UNCHANGED <<accounts, tokens, keys, recovery, codes, factor, uses, glass>>

revoke_credential(tok) == \E k \in ActiveKeys(tok.op) :
  /\ require_step_up(tok)
  /\ ~(enrollment_is_required(tok.op) /\ Cardinality(ActiveKeys(tok.op)) <= 1)
  /\ Load("factor", [Asked(tok) EXCEPT !.op = "revoke_key", !.on = k])

write_key_revoked(t) ==
  /\ txns[t].op = "revoke_key"
  /\ keys' = [keys EXCEPT ![txns[t].on].revoked = TRUE]
  /\ Touched(t) /\ Done(t)
  /\ UNCHANGED <<accounts, tokens, challenges, recovery, codes, factor, uses, glass, failures>>

(***************************************************************************)
(* Recovery codes                                                          *)
(***************************************************************************)
generate_recovery_codes(tok) ==
  /\ Enforcement # "off" /\ require_step_up(tok) /\ ActiveKeys(tok.op) # {}
  /\ Load("factor", [Asked(tok) EXCEPT !.op = "codes", !.on = tok.op])

\* replace_recovery_codes: the old batch is deleted; the new one is one code here.
write_recovery_codes(t) ==
  /\ txns[t].op = "codes"
  /\ \E r \in DOMAIN recovery :
       /\ recovery[r].op = None
       /\ \A q \in DOMAIN recovery : recovery[q].op = None => r <= q
       /\ recovery' = [q \in DOMAIN recovery |->
            IF q = r THEN [op |-> txns[t].on, status |-> "unused"]
            ELSE IF recovery[q].op = txns[t].on THEN [recovery[q] EXCEPT !.status = "deleted"]
            ELSE recovery[q]]
  /\ Touched(t) /\ Done(t)
  /\ UNCHANGED <<accounts, tokens, keys, challenges, codes, factor, uses, glass, failures>>

\* consume_recovery_code: found among the unused ones, then claimed.
present_recovery_code(tok) ==
  /\ Enforcement # "off" /\ ~Limited(tok.op) /\ get_mfa_pending_operator(tok)
  /\ \E r \in UnusedCodes(tok.op) :
       Load("signin", [Asked(tok) EXCEPT !.op = "recover", !.on = r, !.seen = accounts[tok.op]])

complete_login_with_recovery_code(t) ==
  /\ txns[t].op = "recover"
  /\ recovery[txns[t].on].status = "unused"
  /\ recovery' = [recovery EXCEPT ![txns[t].on].status = "used"]
  /\ uses' = [uses EXCEPT ![<<"recovery", txns[t].on>>] = @ + 1]
  /\ LET o == txns[t].tok.op IN
     /\ OpenSession(t, o, {"pwd", "recovery_code"}, None, FALSE, excess(o))
     /\ Cleared(o)
  /\ Done(t)
  /\ UNCHANGED <<accounts, keys, challenges, codes, factor, glass>>

recovery_code_gone(t) ==
  /\ txns[t].op = "recover" /\ recovery[txns[t].on].status # "unused"
  /\ Failed(txns[t].tok.op) /\ Done(t)
  /\ UNCHANGED <<accounts, sessions, tokens, factors, glass>>

(***************************************************************************)
(* Mailed codes                                                            *)
(***************************************************************************)
LiveCodes(o) == {c \in DOMAIN codes :
  codes[c].op = o /\ ~codes[c].consumed /\ ~codes[c].superseded}

\* send_login_email_code and start_email_enrollment: the code is mailed while
\* the handler is open; what it supersedes was read before.
send_email_code(tok) == \E purpose \in {"signin", "enroll"} :
  /\ Enforcement # "off" /\ EmailPolicy # "off"
  /\ CASE purpose = "signin" -> /\ get_mfa_pending_operator(tok)
                                /\ "email_code" \in decide_login(tok.op)
       [] purpose = "enroll" -> get_enrollment_operator(tok)
  /\ Load("factor", [Asked(tok) EXCEPT !.op = "mail", !.on = tok.op, !.row = purpose,
                                       !.ids = LiveCodes(tok.op)])

\* begin_enrollment clears the verification in the same transaction; a code that
\* could not be mailed is superseded at once.
store_email_code(t) == \E delivered \in BOOLEAN :
  /\ txns[t].op = "mail"
  /\ \E c \in DOMAIN codes :
       /\ codes[c].op = None
       /\ \A d \in DOMAIN codes : codes[d].op = None => c <= d
       /\ codes' = [d \in DOMAIN codes |->
            IF d = c THEN [op |-> txns[t].on, purpose |-> txns[t].row, attempts |-> 0,
                           exp |-> txns[t].now + CodeTtl, consumed |-> FALSE,
                           superseded |-> ~delivered]
            ELSE [codes[d] EXCEPT !.superseded = @ \/ d \in txns[t].ids]]
  /\ factor' = IF txns[t].row = "enroll" THEN [factor EXCEPT ![txns[t].on] = "unverified"] ELSE factor
  /\ Done(t)
  /\ UNCHANGED <<accounts, sessions, tokens, keys, challenges, recovery, uses, glass, failures>>

\* consume_code reads the live code and its attempts.
present_email_code(tok) == \E purpose \in {"signin", "enroll"}, right \in BOOLEAN :
  /\ Enforcement # "off" /\ EmailPolicy # "off" /\ ~Limited(tok.op)
  /\ CASE purpose = "signin" -> /\ get_mfa_pending_operator(tok)
                                /\ "email_code" \in decide_login(tok.op)
       [] purpose = "enroll" -> get_enrollment_operator(tok) /\ factor[tok.op] # "none"
  /\ \E c \in LiveCodes(tok.op) :
       /\ codes[c].purpose = purpose /\ codes[c].exp > clock
       /\ Load("signin", [Asked(tok) EXCEPT !.op = "code", !.on = c, !.seen = accounts[tok.op],
                                            !.row = purpose, !.ok = right,
                                            !.ids = {codes[c].attempts}])

Attempts(t) == CHOOSE n \in txns[t].ids : TRUE

\* The final UPDATE asks only whether the code was consumed.
complete_login_with_email_code(t) ==
  /\ txns[t].op = "code" /\ txns[t].ok /\ ~codes[txns[t].on].consumed
  /\ codes' = [codes EXCEPT ![txns[t].on].consumed = TRUE,
                            ![txns[t].on].attempts = Attempts(t) + 1]
  /\ uses' = [uses EXCEPT ![<<"code", txns[t].on>>] = @ + 1]
  /\ LET o == txns[t].tok.op IN
     IF txns[t].row = "signin"
     THEN /\ OpenSession(t, o, {"pwd", "email_code"}, None, FALSE, excess(o))
          /\ Cleared(o) /\ UNCHANGED factor
     ELSE /\ factor' = [factor EXCEPT ![o] = IF @ = "none" THEN @ ELSE "verified"]
          /\ Cleared(o) /\ UNCHANGED <<sessions, tokens>>
  /\ Done(t)
  /\ UNCHANGED <<accounts, keys, challenges, recovery, glass>>

wrong_email_code(t) ==
  /\ txns[t].op = "code" /\ (~txns[t].ok \/ codes[txns[t].on].consumed)
  /\ codes' = [codes EXCEPT ![txns[t].on].attempts = Attempts(t) + 1,
                            ![txns[t].on].superseded =
                               \/ codes[txns[t].on].superseded
                               \/ ~txns[t].ok /\ Attempts(t) + 1 >= MaxAttempts]
  /\ Failed(txns[t].tok.op) /\ Done(t)
  /\ UNCHANGED <<accounts, sessions, tokens, keys, challenges, recovery, factor, uses, glass>>

remove_email_factor(tok) ==
  /\ Enforcement # "off" /\ require_step_up(tok) /\ factor[tok.op] # "none"
  /\ Load("factor", [Asked(tok) EXCEPT !.op = "remove_mail", !.on = tok.op, !.ids = LiveCodes(tok.op)])

write_factor_removed(t) ==
  /\ txns[t].op = "remove_mail"
  /\ factor' = [factor EXCEPT ![txns[t].on] = "none"]
  /\ codes' = [c \in DOMAIN codes |-> [codes[c] EXCEPT !.superseded = @ \/ c \in txns[t].ids]]
  /\ Touched(t) /\ Done(t)
  /\ UNCHANGED <<accounts, tokens, keys, challenges, recovery, uses, glass, failures>>

(***************************************************************************)
(* Accounts                                                                *)
(***************************************************************************)
ActiveAdmins == {o \in Operators : accounts[o].role = "admin" /\ ~accounts[o].disabled}
ActivePlatform == {o \in Operators : accounts[o].role # "absent" /\ accounts[o].platform
                                     /\ ~accounts[o].disabled}

\* A handler that has loaded the account it changes.
Edit(tok, o) == [Asked(tok) EXCEPT !.on = o, !.seen = accounts[o]]
LoadAccount(o, handler) == accounts[o].role # "absent" /\ Load("edit", handler)

create_operator(tok) == \E o \in Staff :
  /\ Accepted(tok) /\ accounts[tok.op].role = "admin"
  /\ accounts[o].role = "absent"
  /\ Load("edit", [Asked(tok) EXCEPT !.op = "create", !.on = o])

write_created(t) ==
  /\ txns[t].op = "create" /\ accounts[txns[t].on].role = "absent"
  /\ accounts' = [accounts EXCEPT ![txns[t].on] = [NoAccount EXCEPT !.role = "operator"]]
  /\ Touched(t) /\ Done(t)
  /\ UNCHANGED <<tokens, factors, glass, failures>>

change_operator_role(tok) == \E o \in Operators, role \in {"readonly", "operator", "admin"} :
  /\ RequireAdmin(tok) /\ accounts[o].role # role
  /\ LoadAccount(o, [Edit(tok, o) EXCEPT !.op = "role", !.row = role])

change_operator_disabled_state(tok) == \E o \in Operators :
  /\ RequireAdmin(tok)
  /\ LoadAccount(o, [Edit(tok, o) EXCEPT !.op = "disabled"])

\* Mutant: the target itself counts as the other one.
MutCountsTarget(t) ==
  (txns[t].seen.role = "admin" /\ ~txns[t].seen.disabled) => Cardinality(ActiveAdmins) >= 1

\* _require_another_active_admin decides from the target it read, then counts
\* the administrators under a lock it keeps to the commit.
_require_another_active_admin(t) ==
  (txns[t].seen.role = "admin" /\ ~txns[t].seen.disabled) => Cardinality(ActiveAdmins) > 1

write_role(t) ==
  /\ txns[t].op = "role"
  /\ txns[t].row # "admin" => _require_another_active_admin(t)
  /\ accounts' = [accounts EXCEPT
       ![txns[t].on].role = txns[t].row,
       ![txns[t].on].script = accounts[txns[t].on].script /\ txns[t].row # "readonly",
       ![txns[t].on].gen = txns[t].seen.gen + 1]
  /\ Touched(t) /\ Done(t)
  /\ UNCHANGED <<tokens, factors, glass, failures>>

write_disabled(t) ==
  /\ txns[t].op = "disabled"
  /\ ~txns[t].seen.disabled => _require_another_active_admin(t)
  /\ accounts' = [accounts EXCEPT ![txns[t].on].disabled = ~txns[t].seen.disabled,
                                  ![txns[t].on].gen = txns[t].seen.gen + 1]
  /\ Touched(t) /\ Done(t)
  /\ UNCHANGED <<tokens, factors, glass, failures>>

change_platform_admin(tok) == \E o \in Operators :
  /\ RequirePlatform(tok)
  /\ LoadAccount(o, [Edit(tok, o) EXCEPT !.op = "platform"])

write_platform(t) ==
  /\ txns[t].op = "platform"
  /\ txns[t].seen.platform => ActivePlatform \ {txns[t].on} # {}
  /\ accounts' = [accounts EXCEPT ![txns[t].on].platform = ~txns[t].seen.platform,
                                  ![txns[t].on].gen = txns[t].seen.gen + 1]
  /\ Touched(t) /\ Done(t)
  /\ UNCHANGED <<tokens, factors, glass, failures>>

\* set_ and revoke_script_execution_permission
change_script_permission(tok) == \E o \in Staff :
  /\ Accepted(tok) /\ accounts[tok.op].role = "admin"
  /\ accounts[o].script \/ accounts[o].role # "readonly"
  /\ LoadAccount(o, [Edit(tok, o) EXCEPT !.op = "script"])

write_script(t) ==
  /\ txns[t].op = "script"
  /\ accounts' = [accounts EXCEPT ![txns[t].on].script = ~txns[t].seen.script]
  /\ Touched(t) /\ Done(t)
  /\ UNCHANGED <<tokens, factors, glass, failures>>

\* grant_ and revoke_client_membership
change_client_membership(tok) == \E o \in Staff :
  /\ RequirePlatform(tok)
  /\ LoadAccount(o, [Edit(tok, o) EXCEPT !.op = "member"])

write_member(t) ==
  /\ txns[t].op = "member"
  /\ accounts' = [accounts EXCEPT ![txns[t].on].member = ~txns[t].seen.member,
                                  ![txns[t].on].gen = txns[t].seen.gen + 1]
  /\ Touched(t) /\ Done(t)
  /\ UNCHANGED <<tokens, factors, glass, failures>>

\* revoke_own_tokens and revoke_operator_tokens
revoke_tokens(tok) == \E o \in Operators :
  /\ IF o = tok.op THEN Accepted(tok) ELSE RequireAdmin(tok)
  /\ LoadAccount(o, [Edit(tok, o) EXCEPT !.op = "revoke", !.ids = Live(o)])

write_tokens_revoked(t) ==
  /\ txns[t].op = "revoke"
  /\ accounts' = [accounts EXCEPT ![txns[t].on].gen = txns[t].seen.gen + 1]
  /\ sessions' = EndListed(t)
  /\ Done(t)
  /\ UNCHANGED <<tokens, factors, glass, failures>>

\* reset_operator_mfa by an administrator, reset_password from the server's console
reset_operator_mfa(tok) == \E o \in Staff :
  /\ Enforcement # "off" /\ RequireAdmin(tok)
  /\ LoadAccount(o, [Edit(tok, o) EXCEPT !.op = "reset_mfa"])
reset_password == \E o \in Staff, clear_mfa \in BOOLEAN :
  LoadAccount(o, [Edit(None, o) EXCEPT !.op = "reset_password", !.ok = clear_mfa, !.ids = Live(o)])

\* revoke_all_factors: keys, recovery codes and challenges, not the mailbox.
RevokeAllFactors(o) ==
  /\ keys' = [k \in DOMAIN keys |-> [keys[k] EXCEPT !.revoked = @ \/ keys[k].op = o]]
  /\ recovery' = [r \in DOMAIN recovery |->
       IF recovery[r].op = o THEN [recovery[r] EXCEPT !.status = "deleted"] ELSE recovery[r]]
  /\ challenges' = [c \in DOMAIN challenges |->
       [challenges[c] EXCEPT !.consumed = @ \/ challenges[c].op = o]]

write_reset(t) ==
  /\ txns[t].op \in {"reset_mfa", "reset_password"}
  /\ IF txns[t].ok THEN RevokeAllFactors(txns[t].on) ELSE UNCHANGED <<keys, recovery, challenges>>
  /\ accounts' = [accounts EXCEPT ![txns[t].on].gen = txns[t].seen.gen + 1]
  /\ sessions' = EndListed(t)
  /\ Done(t)
  /\ UNCHANGED <<tokens, codes, factor, uses, glass, failures>>

(***************************************************************************)
(* Sessions                                                                *)
(***************************************************************************)
\* revoke_own_session, revoke_other_own_sessions and revoke_operator_sessions
Ending(tok, ids) == Load("session", [Asked(tok) EXCEPT !.op = "end", !.ids = ids])
revoke_sessions(tok) ==
  /\ Accepted(tok)
  /\ \/ \E s \in Live(tok.op) : Ending(tok, {s})
     \/ Ending(tok, Live(tok.op) \ {tok.sid})
     \/ \E o \in Operators : RequirePlatform(tok)
                             /\ Ending(tok, Live(o))

write_sessions_ended(t) ==
  /\ txns[t].op = "end"
  /\ sessions' = EndListed(t)
  /\ Done(t)
  /\ UNCHANGED <<accounts, tokens, factors, glass, failures>>

\* Mutant: the methods of the sign-in are not carried over.
MutRefreshForgetsMethods(tok) ==
  /\ Accepted(tok) /\ budget["session"] > 0
  /\ budget' = [budget EXCEPT !["session"] = @ - 1]
  /\ tokens' = tokens \cup {AccessToken(tok.op, accounts[tok.op].gen, {"pwd"}, tok.sua, tok.sid)}
  /\ sessions' = [sessions EXCEPT ![tok.sid].seen = clock]
  /\ UNCHANGED <<clock, accounts, factors, glass, failures, txns>>

\* A new token for the same session, its ceiling unmoved.
refresh_session(tok) ==
  /\ Accepted(tok) /\ budget["session"] > 0
  /\ budget' = [budget EXCEPT !["session"] = @ - 1]
  /\ tokens' = tokens \cup {AccessToken(tok.op, accounts[tok.op].gen, tok.amr, tok.sua, tok.sid)}
  /\ sessions' = [sessions EXCEPT ![tok.sid].seen = clock]
  /\ UNCHANGED <<clock, accounts, factors, glass, failures, txns>>

\* The sweep: sessions past their ceiling end, old ended ones are deleted.
expire_lapsed ==
  /\ \E s \in DOMAIN sessions : sessions[s].status = "live" /\ clock >= sessions[s].abs
  /\ sessions' = [s \in DOMAIN sessions |->
       IF sessions[s].status = "live" /\ clock >= sessions[s].abs
       THEN [sessions[s] EXCEPT !.status = "ended"] ELSE sessions[s]]
  /\ UNCHANGED <<clock, accounts, tokens, factors, glass, failures, txns, budget>>

purge_ended == \E s \in DOMAIN sessions :
  /\ sessions[s].status = "ended" /\ clock >= sessions[s].abs
  /\ sessions' = [sessions EXCEPT ![s].status = "purged"]
  /\ UNCHANGED <<clock, accounts, tokens, factors, glass, failures, txns, budget>>

(***************************************************************************)
(* Break-glass                                                             *)
(***************************************************************************)
\* _refuse_break_glass_session reads the methods in the token.
MayProvision(tok) == RequirePlatform(tok) /\ "break_glass" \notin tok.amr

\* create_, rotate_ and set_break_glass_disabled
provision_break_glass(tok) == \E op \in {"glass_create", "glass_rotate", "glass_disable"} :
  /\ MayProvision(tok)
  /\ (op = "glass_create") = (accounts[Emergency].role = "absent")
  /\ Load("glass", [Asked(tok) EXCEPT !.op = op, !.on = Emergency, !.seen = accounts[Emergency],
                                      !.ok = glass.disabled])

write_glass(t) ==
  /\ txns[t].op \in {"glass_create", "glass_rotate", "glass_disable"}
  /\ glass' = IF txns[t].op = "glass_disable" THEN [glass EXCEPT !.disabled = ~txns[t].ok]
              ELSE [glass EXCEPT !.secret = @ + 1]
  /\ accounts' = CASE txns[t].op = "glass_create" ->
                        [accounts EXCEPT ![Emergency] =
                           [NoAccount EXCEPT !.role = "admin", !.platform = TRUE]]
                   [] txns[t].op = "glass_disable" ->
                        [accounts EXCEPT ![Emergency].disabled = ~txns[t].ok]
                   [] OTHER -> accounts
  /\ Touched(t) /\ Done(t)
  /\ UNCHANGED <<tokens, factors, failures>>

\* The credential in force, and an account and an identity that are enabled.
activate_break_glass == \E secret \in 1..glass.secret :
  /\ ~Limited(Emergency) /\ secret = glass.secret /\ ~glass.disabled
  /\ accounts[Emergency].role # "absent" /\ ~accounts[Emergency].disabled
  /\ Load("glass", [Asked(None) EXCEPT !.op = "activate", !.on = Emergency,
                                       !.seen = accounts[Emergency], !.ids = excess(Emergency)])

\* The activation names its session and stays open until it is reviewed.
start_glass_session(t) ==
  /\ txns[t].op = "activate"
  /\ OpenSession(t, Emergency, {"break_glass"}, None, TRUE, txns[t].ids)
  /\ glass' = [glass EXCEPT !.activations = @ \cup
                {s \in DOMAIN sessions : sessions'[s] # sessions[s] /\ sessions[s] = NoSession}]
  /\ Cleared(Emergency) /\ Done(t)
  /\ UNCHANGED <<accounts, factors>>

review_break_glass_activation(tok) == \E s \in glass.activations \ glass.reviewed :
  /\ Accepted(tok) /\ accounts[tok.op].platform
  /\ Load("glass", [Asked(tok) EXCEPT !.op = "review", !.on = s])

write_glass_reviewed(t) ==
  /\ txns[t].op = "review"
  /\ glass' = [glass EXCEPT !.reviewed = @ \cup {txns[t].on}]
  /\ Touched(t) /\ Done(t)
  /\ UNCHANGED <<accounts, tokens, factors, failures>>

\* Time passes; the failures of the window before it are forgotten.
Tick ==
  /\ clock < MaxClock
  /\ clock' = clock + 1
  /\ failures' = [o \in Operators |-> 0]
  /\ UNCHANGED <<accounts, sessions, tokens, factors, glass, txns, budget>>

Next ==
  \/ \E o \in Operators : login(o) \/ login_pending(o) \/ wrong_password(o)
  \/ \E tok \in tokens :
       \/ refuse_lapsed(tok)
       \/ issue_challenge(tok) \/ answer_challenge(tok) \/ revoke_credential(tok)
       \/ generate_recovery_codes(tok) \/ present_recovery_code(tok)
       \/ send_email_code(tok) \/ present_email_code(tok) \/ remove_email_factor(tok)
       \/ create_operator(tok) \/ change_operator_role(tok)
       \/ change_operator_disabled_state(tok) \/ change_platform_admin(tok)
       \/ change_script_permission(tok) \/ change_client_membership(tok)
       \/ revoke_tokens(tok) \/ reset_operator_mfa(tok)
       \/ revoke_sessions(tok) \/ refresh_session(tok)
       \/ provision_break_glass(tok) \/ review_break_glass_activation(tok)
  \/ reset_password \/ activate_break_glass \/ expire_lapsed \/ purge_ended
  \/ \E t \in DOMAIN txns :
       \/ start_session(t) \/ store_challenge(t)
       \/ challenge_signin(t) \/ challenge_step_up(t) \/ challenge_register(t)
       \/ challenge_failed(t) \/ write_key_revoked(t)
       \/ write_recovery_codes(t) \/ complete_login_with_recovery_code(t) \/ recovery_code_gone(t)
       \/ store_email_code(t) \/ complete_login_with_email_code(t) \/ wrong_email_code(t)
       \/ write_factor_removed(t)
       \/ write_created(t) \/ write_role(t) \/ write_disabled(t) \/ write_platform(t)
       \/ write_script(t) \/ write_member(t) \/ write_tokens_revoked(t) \/ write_reset(t)
       \/ write_sessions_ended(t) \/ write_glass(t) \/ start_glass_session(t)
       \/ write_glass_reviewed(t) \/ Abort(t)
  \/ Tick

Spec == Init /\ [][Next]_vars

----------------------------------------------------------------------------
TypeOK ==
  /\ clock \in 0..MaxClock
  /\ accounts \in [Operators -> Account]
  /\ sessions \in [1..NumSessions -> OperatorSession]
  /\ \A tok \in tokens : tok.op \in Operators /\ (tok.typ = "access") = (tok.sid # None)
  /\ keys \in [1..NumKeys -> WebAuthnCredential]
  /\ challenges \in [1..NumChallenges -> WebAuthnChallenge]
  /\ recovery \in [1..NumRecovery -> MfaRecoveryCode]
  /\ codes \in [1..NumCodes -> MfaEmailCode]
  /\ factor \in [Operators -> {"none", "unverified", "verified"}]
  /\ glass.reviewed \subseteq glass.activations
  /\ DOMAIN uses = Proofs /\ DOMAIN budget = Classes

(* A challenge, a recovery code and a mailed code each finish one sign-in, *)
(* step-up or enrolment, however many requests present it at once          *)
(* (consume_challenge: two concurrent requests "cannot both be accepted"). *)
SecondFactorOnce == \A p \in Proofs : uses[p] <= 1

(* Emergency access never provisions emergency access: whoever creates,    *)
(* rotates or disables the break-glass account acts in an ordinary         *)
(* session, after any sequence of refreshes, enrolments and step-ups       *)
(* (_refuse_break_glass_session reads the token, not the session).         *)
EmergencyNeverProvisions == \A t \in DOMAIN txns :
  txns[t].op \in {"glass_create", "glass_rotate", "glass_disable"} =>
    ~sessions[txns[t].tok.sid].glass

\* A handler commits over an account that changed since it read it.
StaleCommit == \E t \in DOMAIN txns :
  /\ txns[t].op \in {"role", "disabled"} /\ txns'[t] = Free
  /\ <<txns[t].seen.role, txns[t].seen.disabled>>
       # <<accounts[txns[t].on].role, accounts[txns[t].on].disabled>>

(* The operator endpoints never take away the last active administrator,   *)
(* however many changes run at once, unless a change commits over a target *)
(* that another change has meanwhile promoted or enabled; disabling the    *)
(* break-glass account is outside the rule (_require_another_active_admin).*)
AdminRemains == [][
  (/\ ActiveAdmins # {} /\ ~StaleCommit
   /\ ~\E t \in DOMAIN txns : txns[t].op = "glass_disable" /\ txns'[t] = Free) =>
     \E o \in Operators : accounts'[o].role = "admin" /\ ~accounts'[o].disabled]_vars
====
