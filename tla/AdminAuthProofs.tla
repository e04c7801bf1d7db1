-------------------------- MODULE AdminAuthProofs --------------------------
(***************************************************************************)
(* Proofs about AdminAuth, for every number of operators, sessions, keys,  *)
(* codes and handlers at once.                                             *)
(*                                                                         *)
(* A handler commits what it read earlier.  What it relies on is never     *)
(* taken back: a token stays what it was, a session that was opened stays  *)
(* ordinary or emergency, a proof that was used up stays used up.  A step  *)
(* relation for each table says so, and Handler what a handler knows.      *)
(***************************************************************************)
EXTENDS AdminAuth, FiniteSetTheorems, WellFoundedInduction, TLAPS

\* A token names its operator, and an access token its session; that of an
\* emergency session says so.
Bearer(tok) ==
  /\ tok.op \in Operators /\ tok.typ \in {"access", "mfa_pending"}
  /\ tok.typ = "mfa_pending" => tok.sid = None
  /\ tok.typ = "access" =>
       /\ tok.sid \in 1..NumSessions /\ sessions[tok.sid].status # "absent"
       /\ sessions[tok.sid].glass => "break_glass" \in tok.amr

Provisions == {"glass_create", "glass_rotate", "glass_disable"}
Anonymous  == {"free", "login", "activate", "reset_password"}
OfRows     == {"free", "answer", "recover", "code", "revoke_key", "end", "review"}

\* What a handler has loaded: times, accounts, rows that exist, and the token
\* of whoever asked.
Handler(h) ==
  /\ h.now \in Nat /\ h.seen \in Account
  /\ h.op \notin Anonymous => h.tok \in tokens
  /\ h.op \notin OfRows => h.on \in Operators
  /\ h.op = "challenge" => h.row \in {"signin", "step_up", "register"}
  /\ h.op = "mail" => h.row \in {"signin", "enroll"}
  /\ h.op = "role" => h.row \in {"readonly", "operator", "admin"}
  /\ h.op = "answer" => /\ h.on \in 1..NumChallenges /\ challenges[h.on].op # None
                        /\ h.row = "step_up" => h.tok.typ = "access"
  /\ h.op = "recover" => h.on \in 1..NumRecovery /\ recovery[h.on].op # None
  /\ h.op = "code" => /\ h.on \in 1..NumCodes /\ codes[h.on].op # None
                      /\ \E n \in Nat : h.ids = {n}
  /\ h.op = "revoke_key" => h.on \in 1..NumKeys
  /\ h.op = "review" => h.on \in glass.activations
  /\ h.op \in Provisions => h.tok.typ = "access" /\ "break_glass" \notin h.tok.amr

Tables ==
  /\ accounts \in [Operators -> Account]
  /\ sessions \in [1..NumSessions -> OperatorSession]
  /\ keys \in [1..NumKeys -> WebAuthnCredential]
  /\ challenges \in [1..NumChallenges -> WebAuthnChallenge]
  /\ recovery \in [1..NumRecovery -> MfaRecoveryCode]
  /\ codes \in [1..NumCodes -> MfaEmailCode]
  /\ factor \in [Operators -> {"none", "unverified", "verified"}]
  /\ glass \in [secret : Nat, disabled : BOOLEAN,
                activations : SUBSET (1..NumSessions), reviewed : SUBSET (1..NumSessions)]
  /\ glass.reviewed \subseteq glass.activations

\* A proof that was accepted is used up.
UsedUp ==
  /\ \A c \in 1..NumChallenges :
       uses[<<"challenge", c>>] = 1 => challenges[c].op # None /\ challenges[c].consumed
  /\ \A r \in 1..NumRecovery :
       uses[<<"recovery", r>>] = 1 => recovery[r].op # None /\ recovery[r].status \in {"used", "deleted"}
  /\ \A c \in 1..NumCodes :
       uses[<<"code", c>>] = 1 => codes[c].op # None /\ codes[c].consumed

Handlers == /\ txns = [t \in Slots |-> txns[t]]
            /\ \A h \in {txns[t] : t \in Slots} : Handler(h)

Bounds == clock \in 0..MaxClock /\ budget \in [Classes -> Nat]

AdminInv ==
  /\ Bounds /\ Tables /\ (\A tok \in tokens : Bearer(tok))
  /\ uses \in [Proofs -> {0, 1}] /\ UsedUp /\ Handlers

-----------------------------------------------------------------------------
(* What a step may do to each table *)

SessionStep ==
  /\ sessions' \in [1..NumSessions -> OperatorSession]
  /\ \A s \in 1..NumSessions :
       sessions[s].status # "absent" =>
         sessions'[s].status # "absent" /\ sessions'[s].glass = sessions[s].glass

TokenStep == tokens \subseteq tokens' /\ \A tok \in tokens' \ tokens : Bearer(tok)'

ChallengeStep ==
  /\ challenges' \in [1..NumChallenges -> WebAuthnChallenge]
  /\ \A c \in 1..NumChallenges :
       challenges[c].op # None =>
         challenges'[c].op # None /\ (challenges[c].consumed => challenges'[c].consumed)

RecoveryStep ==
  /\ recovery' \in [1..NumRecovery -> MfaRecoveryCode]
  /\ \A r \in 1..NumRecovery :
       recovery[r].op # None =>
         /\ recovery'[r].op # None
         /\ recovery[r].status \in {"used", "deleted"} => recovery'[r].status \in {"used", "deleted"}

CodeStep ==
  /\ codes' \in [1..NumCodes -> MfaEmailCode]
  /\ \A c \in 1..NumCodes :
       codes[c].op # None => codes'[c].op # None /\ (codes[c].consumed => codes'[c].consumed)

GlassStep ==
  /\ glass' \in [secret : Nat, disabled : BOOLEAN,
                 activations : SUBSET (1..NumSessions), reviewed : SUBSET (1..NumSessions)]
  /\ glass'.reviewed \subseteq glass'.activations
  /\ glass.activations \subseteq glass'.activations

OtherStep ==
  /\ accounts' \in [Operators -> Account]
  /\ keys' \in [1..NumKeys -> WebAuthnCredential]
  /\ factor' \in [Operators -> {"none", "unverified", "verified"}]

\* A table that a step leaves alone.
LEMMA Untouched ==
  ASSUME AdminInv
  PROVE  /\ UNCHANGED sessions => SessionStep
         /\ UNCHANGED tokens => TokenStep
         /\ UNCHANGED challenges => ChallengeStep
         /\ UNCHANGED recovery => RecoveryStep
         /\ UNCHANGED codes => CodeStep
         /\ UNCHANGED glass => GlassStep
         /\ UNCHANGED <<accounts, keys, factor>> => OtherStep
<1>1. UNCHANGED sessions => SessionStep
  BY DEF AdminInv, Tables, SessionStep
<1>2. UNCHANGED tokens => TokenStep
  BY DEF TokenStep
<1>3. UNCHANGED challenges => ChallengeStep
  BY DEF AdminInv, Tables, ChallengeStep
<1>4. UNCHANGED recovery => RecoveryStep
  BY DEF AdminInv, Tables, RecoveryStep
<1>5. UNCHANGED codes => CodeStep
  BY DEF AdminInv, Tables, CodeStep
<1>6. UNCHANGED glass => GlassStep
  BY DEF AdminInv, Tables, GlassStep
<1>7. UNCHANGED <<accounts, keys, factor>> => OtherStep
  BY DEF AdminInv, Tables, OtherStep
<1> QED BY <1>1, <1>2, <1>3, <1>4, <1>5, <1>6, <1>7

\* What a handler has loaded stands through every step.
LEMMA HandlerStands ==
  ASSUME NEW h, Handler(h), SessionStep, TokenStep, ChallengeStep, RecoveryStep, CodeStep, GlassStep
  PROVE  Handler(h)'
<1>1. h.tok \in tokens => h.tok \in tokens'
  BY DEF TokenStep
<1>2. /\ \A c \in 1..NumChallenges : challenges[c].op # None => challenges'[c].op # None
      /\ \A r \in 1..NumRecovery : recovery[r].op # None => recovery'[r].op # None
      /\ \A c \in 1..NumCodes : codes[c].op # None => codes'[c].op # None
      /\ glass.activations \subseteq glass'.activations
  BY DEF ChallengeStep, RecoveryStep, CodeStep, GlassStep
<1> QED BY <1>1, <1>2 DEF Handler

\* What the slots hold after a step that writes one of them, or none.
Slotted == \/ UNCHANGED txns
           \/ \E t \in Slots, h \in {txns'[s] : s \in Slots} : Handler(h)' /\ txns' = [txns EXCEPT ![t] = h]

\* Such a step keeps the invariant.
LEMMA Written ==
  ASSUME AdminInv, SessionStep, TokenStep, ChallengeStep, RecoveryStep, CodeStep, GlassStep, OtherStep,
         Bounds', uses' \in [Proofs -> {0, 1}], UsedUp', Slotted
  PROVE  AdminInv'
<1>1. Tables'
  BY DEF Tables, SessionStep, ChallengeStep, RecoveryStep, CodeStep, GlassStep, OtherStep
<1>2. \A tok \in tokens' : Bearer(tok)'
  <2> SUFFICES ASSUME NEW tok \in tokens, Bearer(tok) PROVE Bearer(tok)'
    BY DEF AdminInv, TokenStep
  <2> QED BY DEF Bearer, SessionStep
<1>3. Handlers'
  <2>1. txns = [t \in Slots |-> txns[t]] /\ \A h \in {txns[t] : t \in Slots} : Handler(h)
    BY DEF AdminInv, Handlers
  <2>2. \A h \in {txns[t] : t \in Slots} : Handler(h)'
    BY <2>1, HandlerStands
  <2>3. CASE UNCHANGED txns
    BY <2>1, <2>2, <2>3 DEF Handlers
  <2>4. CASE ~UNCHANGED txns
    <3>1. PICK t \in Slots, h \in {txns'[s] : s \in Slots} : Handler(h)' /\ txns' = [txns EXCEPT ![t] = h]
      BY <2>4 DEF Slotted
    <3>2. txns' = [u \in Slots |-> txns'[u]] /\ \A u \in Slots : txns'[u] = h \/ txns'[u] = txns[u]
      BY <2>1, <3>1
    <3>3. \A g \in {txns'[u] : u \in Slots} : Handler(g)'
      BY <2>2, <3>1, <3>2
    <3> QED BY <3>2, <3>3 DEF Handlers
  <2> QED BY <2>3, <2>4
<1> QED BY <1>1, <1>2, <1>3 DEF AdminInv

-----------------------------------------------------------------------------
(* Handlers *)

\* A free slot knows nothing.
LEMMA FreeHandler == Handler(Free) /\ Handler(Free)'
<1>1. NoAccount \in Account
  BY DEF NoAccount, Account
<1>2. /\ Free.op = "free" /\ Free.now = 0 /\ Free.seen = NoAccount
  BY DEF Free
<1> QED BY <1>1, <1>2 DEF Handler, Anonymous, OfRows, Provisions

\* A commit frees its slot.
LEMMA Committed ==
  ASSUME AdminInv, NEW t \in Slots, Done(t)
  PROVE  Slotted /\ Bounds' /\ DOMAIN txns = Slots
<1>1. txns' = [txns EXCEPT ![t] = Free] /\ txns = [u \in Slots |-> txns[u]]
  BY DEF Done, AdminInv, Handlers
<1>2. txns'[t] = Free
  BY <1>1
<1>3. Slotted
  BY <1>1, <1>2, FreeHandler DEF Slotted
<1> QED BY <1>1, <1>3 DEF Done, AdminInv, Bounds

\* A handler that loads writes nothing but its slot.
LEMMA Loaded ==
  ASSUME AdminInv, NEW class \in Classes, NEW h, Load(class, h), Handler(h)
  PROVE  AdminInv'
<1>1. PICK t \in DOMAIN txns : /\ budget[class] > 0 /\ budget' = [budget EXCEPT ![class] = budget[class] - 1]
                               /\ txns' = [txns EXCEPT ![t] = h]
  BY DEF Load
<1>2. UNCHANGED <<clock, accounts, sessions, tokens, keys, challenges, recovery, codes, factor, uses, glass>>
  BY DEF Load, factors
<1>3. SessionStep /\ TokenStep /\ ChallengeStep /\ RecoveryStep /\ CodeStep /\ GlassStep /\ OtherStep
  BY <1>2, Untouched
<1>4. Bounds'
  BY <1>1, <1>2 DEF AdminInv, Bounds
<1>5. uses' \in [Proofs -> {0, 1}] /\ UsedUp'
  BY <1>2 DEF AdminInv, UsedUp
<1>6. Slotted
  <2>1. txns = [u \in Slots |-> txns[u]]
    BY DEF AdminInv, Handlers
  <2>2. t \in Slots /\ txns'[t] = h
    BY <1>1, <2>1
  <2>3. Handler(h)'
    BY <1>3, HandlerStands
  <2> QED BY <1>1, <2>2, <2>3 DEF Slotted
<1> QED BY <1>3, <1>4, <1>5, <1>6, Written

\* What a handler that has read the token of its request starts from.
LEMMA Asking ==
  ASSUME AdminInv, NEW tok
  PROVE  \E touch, yes :
           Asked(tok) = [op |-> "free", tok |-> tok, on |-> None, seen |-> NoAccount, row |-> None,
                         now |-> clock, touch |-> touch, ok |-> yes, ids |-> {}]
<1>1. PICK yes, no : Free = [op |-> "free", tok |-> None, on |-> None, seen |-> NoAccount, row |-> None,
                             now |-> 0, touch |-> no, ok |-> yes, ids |-> {}]
  BY Zenon DEF Free
<1>2. PICK touch : Asked(tok) = [Free EXCEPT !.tok = tok, !.now = clock, !.touch = touch]
  BY Zenon DEF Asked
<1>3. Asked(tok) = [op |-> "free", tok |-> tok, on |-> None, seen |-> NoAccount, row |-> None,
                    now |-> clock, touch |-> touch, ok |-> yes, ids |-> {}]
  BY <1>1, <1>2
<1> QED BY <1>3

\* The numbers and accounts a handler reads.
LEMMA Reading ==
  ASSUME AdminInv
  PROVE  /\ clock \in Nat /\ NoAccount \in Account /\ Emergency \in Operators
         /\ \A o \in Operators : accounts[o] \in Account
         /\ \A tok \in tokens : tok.op \in Operators
         /\ \A o \in Staff : o \in Operators
<1>1. clock \in Nat
  BY AdminAuthAssumption DEF AdminInv, Bounds
<1>2. NoAccount \in Account
  BY DEF NoAccount, Account
<1> QED BY <1>1, <1>2 DEF AdminInv, Tables, Bearer, Operators

-----------------------------------------------------------------------------
(* What handlers read *)

Reads == \E class \in Classes : \E h : Load(class, h) /\ Handler(h)

\* The handlers that change an account.
EditOps == {"disabled", "platform", "script", "member", "revoke", "reset_mfa"}

\* What a handler that changes an account has read stands.
LEMMA ReadAccount ==
  ASSUME AdminInv, NEW tok \in tokens,
         \/ change_operator_role(tok) \/ change_operator_disabled_state(tok) \/ change_platform_admin(tok)
         \/ change_script_permission(tok) \/ change_client_membership(tok)
         \/ revoke_tokens(tok) \/ reset_operator_mfa(tok) \/ create_operator(tok)
  PROVE  Reads
<1>1. PICK touch, yes :
        Asked(tok) = [op |-> "free", tok |-> tok, on |-> None, seen |-> NoAccount, row |-> None,
                      now |-> clock, touch |-> touch, ok |-> yes, ids |-> {}]
  BY Asking
<1>3. /\ clock \in Nat /\ NoAccount \in Account /\ "edit" \in Classes
      /\ \A o \in Operators : accounts[o] \in Account
      /\ \A o \in Staff : o \in Operators
  BY Reading DEF Classes
<1> DEFINE Holds(h, op, o) == /\ h.op = op /\ h.tok = tok /\ h.on = o /\ h.now = clock
                              /\ h.seen \in Account
<1>4. ASSUME NEW h, NEW o \in Operators, NEW op \in EditOps \cup {"create"}, Holds(h, op, o)
      PROVE  Handler(h)
  BY <1>3, <1>4 DEF Handler, Anonymous, OfRows, Provisions, EditOps
<1>5. CASE change_operator_role(tok)
  <2>1. PICK o \in Operators, role \in {"readonly", "operator", "admin"} :
          Load("edit", [Edit(tok, o) EXCEPT !.op = "role", !.row = role])
    BY <1>5 DEF change_operator_role, LoadAccount
  <2>2. PICK h : h = [Edit(tok, o) EXCEPT !.op = "role", !.row = role]
    OBVIOUS
  <2>3. /\ h.op = "role" /\ h.tok = tok /\ h.on = o /\ h.now = clock /\ h.seen = accounts[o] /\ h.row = role
    BY <1>1, <2>2 DEF Edit
  <2>4. Handler(h)
    BY <1>3, <2>3 DEF Handler, Anonymous, OfRows, Provisions
  <2> QED BY <1>3, <2>1, <2>2, <2>4 DEF Reads
<1>6. ASSUME NEW o \in Operators, NEW op \in EditOps, Load("edit", [Edit(tok, o) EXCEPT !.op = op]) PROVE Reads
  <2>1. PICK h : h = [Edit(tok, o) EXCEPT !.op = op]
    OBVIOUS
  <2>2. Holds(h, op, o)
    BY <1>1, <1>3, <2>1 DEF Edit
  <2>3. Handler(h)
    BY <1>4, <2>2
  <2> QED BY <1>3, <1>6, <2>1, <2>3 DEF Reads
<1>7. CASE change_operator_disabled_state(tok) \/ change_platform_admin(tok)
  BY <1>6, <1>7 DEF change_operator_disabled_state, change_platform_admin, LoadAccount, EditOps
<1>8. CASE change_script_permission(tok) \/ change_client_membership(tok) \/ reset_operator_mfa(tok)
  BY <1>3, <1>6, <1>8 DEF change_script_permission, change_client_membership, reset_operator_mfa,
                          LoadAccount, EditOps
<1>9. CASE revoke_tokens(tok)
  <2>1. PICK o \in Operators : Load("edit", [Edit(tok, o) EXCEPT !.op = "revoke", !.ids = Live(o)])
    BY <1>9 DEF revoke_tokens, LoadAccount
  <2>2. PICK h : h = [Edit(tok, o) EXCEPT !.op = "revoke", !.ids = Live(o)]
    OBVIOUS
  <2>3. Holds(h, "revoke", o)
    BY <1>1, <1>3, <2>2 DEF Edit
  <2>4. Handler(h)
    BY <1>4, <2>3 DEF EditOps
  <2> QED BY <1>3, <2>1, <2>2, <2>4 DEF Reads
<1>10. CASE create_operator(tok)
  <2>1. PICK o \in Staff : Load("edit", [Asked(tok) EXCEPT !.op = "create", !.on = o])
    BY <1>10 DEF create_operator
  <2>2. PICK h : h = [Asked(tok) EXCEPT !.op = "create", !.on = o]
    OBVIOUS
  <2>3. Holds(h, "create", o)
    BY <1>1, <1>3, <2>2
  <2>4. Handler(h)
    BY <1>3, <1>4, <2>3
  <2> QED BY <1>3, <2>1, <2>2, <2>4 DEF Reads
<1> QED BY <1>5, <1>7, <1>8, <1>9, <1>10

\* A password handler, and the console, are asked without a token.
LEMMA ReadAnonymous ==
  ASSUME AdminInv,
         (\E o \in Operators : login(o)) \/ reset_password \/ activate_break_glass
  PROVE  Reads
<1>1. PICK touch, yes :
        Asked(None) = [op |-> "free", tok |-> None, on |-> None, seen |-> NoAccount, row |-> None,
                       now |-> clock, touch |-> touch, ok |-> yes, ids |-> {}]
  BY Asking
<1>2. /\ clock \in Nat /\ {"edit", "signin", "glass"} \subseteq Classes /\ Emergency \in Operators
      /\ \A o \in Operators : accounts[o] \in Account
      /\ \A o \in Staff : o \in Operators
  BY Reading DEF Classes
<1>3. ASSUME NEW h, h.op \in {"login", "activate", "reset_password"}, h.now = clock,
             NEW o \in Operators, h.on = o, h.seen = accounts[o]
      PROVE  Handler(h)
  BY <1>2, <1>3 DEF Handler, Anonymous, OfRows, Provisions
<1>4. ASSUME NEW o \in Operators, login(o) PROVE Reads
  <2>1. PICK h : h = [Asked(None) EXCEPT !.op = "login", !.on = o, !.seen = accounts[o], !.ids = excess(o)]
    OBVIOUS
  <2>2. h.op = "login" /\ h.now = clock /\ h.on = o /\ h.seen = accounts[o]
    BY <1>1, <2>1
  <2>3. Handler(h)
    BY <1>3, <2>2
  <2> QED BY <1>2, <1>4, <2>1, <2>3 DEF Reads, login
<1>5. CASE reset_password
  <2>1. PICK o \in Staff, clear_mfa \in BOOLEAN :
          Load("edit", [Edit(None, o) EXCEPT !.op = "reset_password", !.ok = clear_mfa, !.ids = Live(o)])
    BY <1>5 DEF reset_password, LoadAccount
  <2>2. PICK h : h = [Edit(None, o) EXCEPT !.op = "reset_password", !.ok = clear_mfa, !.ids = Live(o)]
    OBVIOUS
  <2>3. h.op = "reset_password" /\ h.now = clock /\ h.on = o /\ h.seen = accounts[o]
    BY <1>1, <2>2 DEF Edit
  <2>4. Handler(h)
    BY <1>2, <1>3, <2>3
  <2> QED BY <1>2, <2>1, <2>2, <2>4 DEF Reads
<1>6. CASE activate_break_glass
  <2>1. PICK h : h = [Asked(None) EXCEPT !.op = "activate", !.on = Emergency,
                                         !.seen = accounts[Emergency], !.ids = excess(Emergency)]
    OBVIOUS
  <2>2. h.op = "activate" /\ h.now = clock /\ h.on = Emergency /\ h.seen = accounts[Emergency]
    BY <1>1, <2>1
  <2>3. Handler(h)
    BY <1>2, <1>3, <2>2
  <2> QED BY <1>2, <1>6, <2>1, <2>3 DEF Reads, activate_break_glass
<1> QED BY <1>4, <1>5, <1>6

\* Every set of numbers has a least one, and if it is bounded a greatest one.
LEMMA LeastNumber ==
  ASSUME NEW S \in SUBSET Nat, S # {} PROVE \E x \in S : \A y \in S : x <= y
<1>1. PICK R : R = OpToRel(<, Nat) /\ IsWellFoundedOn(R, Nat)
  BY NatLessThanWellFounded
<1>2. \A x, y \in Nat : x < y => <<x, y>> \in R
  BY <1>1 DEF OpToRel
<1>3. PICK x \in S : \A y \in S : ~ (<<y, x>> \in R)
  BY <1>1, WFMin
<1>4. x \in Nat /\ \A y \in S : y \in Nat
  OBVIOUS
<1>5. \A y \in S : ~(y < x)
  BY <1>2, <1>3, <1>4
<1>6. \A y \in S : x <= y
  BY <1>4, <1>5
<1> QED BY <1>6

\* A set of numbers below a bound that is not empty has a greatest one.
LEMMA GreatestNumber ==
  ASSUME NEW N \in Nat, NEW S \in SUBSET (1..N), S # {} PROVE \E x \in S : \A y \in S : y <= x
<1> DEFINE left == {n \in Nat : \E c \in S : n = N - c}
<1>1. left \in SUBSET Nat /\ left # {}
  <2>1. PICK c : c \in S
    OBVIOUS
  <2>2. N - c \in left
    BY <2>1
  <2> QED BY <2>2
<1>2. PICK x \in left : \A y \in left : x <= y
  BY <1>1, LeastNumber
<1>3. PICK c \in S : x = N - c
  OBVIOUS
<1>4. ASSUME NEW d \in S PROVE d <= c
  <2>1. N - d \in left
    OBVIOUS
  <2>2. x <= N - d
    BY <1>2, <2>1
  <2> QED BY <1>3, <2>2
<1> QED BY <1>4

\* The challenge a proof is claimed for is one of the operator's.
LEMMA CandidateFound ==
  ASSUME AdminInv, NEW o, NEW purpose, Candidate(o, purpose) # None
  PROVE  Candidate(o, purpose) \in Unconsumed(o, purpose)
<1> DEFINE open == {c \in Unconsumed(o, purpose) : challenges[c].exp > clock}
<1>1. NumChallenges \in Nat /\ open \subseteq 1..NumChallenges /\ open \subseteq Unconsumed(o, purpose)
  BY AdminAuthAssumption DEF Unconsumed, AdminInv, Tables
<1>2. Candidate(o, purpose) = IF open = {} THEN None ELSE CHOOSE c \in open : \A d \in open : d <= c
  BY Zenon DEF Candidate
<1> HIDE DEF open
<1>3. open # {} /\ Candidate(o, purpose) = CHOOSE c \in open : \A d \in open : d <= c
  BY <1>2, Zenon
<1>4. \E c \in open : \A d \in open : d <= c
  BY <1>1, <1>3, GreatestNumber
<1>5. (CHOOSE c \in open : \A d \in open : d <= c) \in open
  BY <1>4, Zenon
<1> QED BY <1>1, <1>3, <1>5

\* Asking for a challenge or a mailed code, and managing factors.
LEMMA ReadFactor ==
  ASSUME AdminInv, NEW tok \in tokens,
         \/ issue_challenge(tok) \/ revoke_credential(tok) \/ generate_recovery_codes(tok)
         \/ send_email_code(tok) \/ remove_email_factor(tok)
  PROVE  Reads
<1>1. PICK touch, yes :
        Asked(tok) = [op |-> "free", tok |-> tok, on |-> None, seen |-> NoAccount, row |-> None,
                      now |-> clock, touch |-> touch, ok |-> yes, ids |-> {}]
  BY Asking
<1>2. clock \in Nat /\ NoAccount \in Account /\ "factor" \in Classes /\ tok.op \in Operators
  BY Reading DEF Classes
<1> DEFINE Holds(h, op, on) == /\ h.op = op /\ h.tok = tok /\ h.on = on /\ h.now = clock
                               /\ h.seen = NoAccount
<1>3. ASSUME NEW h, NEW op \in {"codes", "remove_mail"}, Holds(h, op, tok.op)
      PROVE  Handler(h)
  BY <1>2, <1>3 DEF Handler, Anonymous, OfRows, Provisions
<1>4. CASE issue_challenge(tok)
  <2>1. PICK purpose \in {"signin", "step_up", "register"} :
          Load("factor", [Asked(tok) EXCEPT !.op = "challenge", !.on = tok.op, !.row = purpose,
                                            !.ids = Unconsumed(tok.op, purpose),
                                            !.touch = Touches(tok) /\ purpose # "register"])
    BY <1>4, Zenon DEF issue_challenge
  <2>2. PICK h, u : /\ h = [Asked(tok) EXCEPT !.op = "challenge", !.on = tok.op, !.row = purpose,
                                              !.ids = Unconsumed(tok.op, purpose), !.touch = u]
                    /\ Load("factor", h)
    BY <2>1, Zenon
  <2>3. Holds(h, "challenge", tok.op) /\ h.row = purpose
    BY <1>1, <2>2
  <2>4. Handler(h)
    BY <1>2, <2>3 DEF Handler, Anonymous, OfRows, Provisions
  <2> QED BY <1>2, <2>2, <2>4 DEF Reads
<1>5. CASE revoke_credential(tok)
  <2>1. PICK k \in ActiveKeys(tok.op) : Load("factor", [Asked(tok) EXCEPT !.op = "revoke_key", !.on = k])
    BY <1>5 DEF revoke_credential
  <2>2. k \in 1..NumKeys
    BY DEF ActiveKeys, AdminInv, Tables
  <2>3. PICK h : h = [Asked(tok) EXCEPT !.op = "revoke_key", !.on = k]
    OBVIOUS
  <2>4. Holds(h, "revoke_key", k)
    BY <1>1, <2>3
  <2>5. Handler(h)
    BY <1>2, <2>2, <2>4 DEF Handler, Anonymous, OfRows, Provisions
  <2> QED BY <1>2, <2>1, <2>3, <2>5 DEF Reads
<1>6. CASE generate_recovery_codes(tok)
  <2>1. PICK h : h = [Asked(tok) EXCEPT !.op = "codes", !.on = tok.op]
    OBVIOUS
  <2>2. Holds(h, "codes", tok.op)
    BY <1>1, <2>1
  <2>3. Handler(h)
    BY <1>3, <2>2
  <2> QED BY <1>2, <1>6, <2>1, <2>3 DEF Reads, generate_recovery_codes
<1>7. CASE remove_email_factor(tok)
  <2>1. PICK h : h = [Asked(tok) EXCEPT !.op = "remove_mail", !.on = tok.op, !.ids = LiveCodes(tok.op)]
    OBVIOUS
  <2>2. Holds(h, "remove_mail", tok.op)
    BY <1>1, <2>1
  <2>3. Handler(h)
    BY <1>3, <2>2
  <2> QED BY <1>2, <1>7, <2>1, <2>3 DEF Reads, remove_email_factor
<1>8. CASE send_email_code(tok)
  <2>1. PICK purpose \in {"signin", "enroll"} :
          Load("factor", [Asked(tok) EXCEPT !.op = "mail", !.on = tok.op, !.row = purpose,
                                            !.ids = LiveCodes(tok.op)])
    BY <1>8, Zenon DEF send_email_code
  <2>2. PICK h : h = [Asked(tok) EXCEPT !.op = "mail", !.on = tok.op, !.row = purpose,
                                        !.ids = LiveCodes(tok.op)]
    OBVIOUS
  <2>3. Holds(h, "mail", tok.op) /\ h.row = purpose
    BY <1>1, <2>2
  <2>4. Handler(h)
    BY <1>2, <2>3 DEF Handler, Anonymous, OfRows, Provisions
  <2> QED BY <1>2, <2>1, <2>2, <2>4 DEF Reads
<1> QED BY <1>4, <1>5, <1>6, <1>7, <1>8

\* Presenting a second factor.
LEMMA ReadProof ==
  ASSUME AdminInv, NEW tok \in tokens,
         answer_challenge(tok) \/ present_recovery_code(tok) \/ present_email_code(tok)
  PROVE  Reads
<1>1. PICK touch, yes :
        Asked(tok) = [op |-> "free", tok |-> tok, on |-> None, seen |-> NoAccount, row |-> None,
                      now |-> clock, touch |-> touch, ok |-> yes, ids |-> {}]
  BY Asking
<1>2. /\ clock \in Nat /\ {"signin", "factor"} \subseteq Classes /\ tok.op \in Operators
      /\ accounts[tok.op] \in Account /\ tok.op # None
  BY Reading, AdminAuthAssumption DEF Classes
<1> DEFINE Holds(h, op, on) == /\ h.op = op /\ h.tok = tok /\ h.on = on /\ h.now = clock
                               /\ h.seen = accounts[tok.op]
<1>3. CASE answer_challenge(tok)
  <2> DEFINE Answers(purpose, verified) ==
               [Asked(tok) EXCEPT !.op = "answer", !.on = Candidate(tok.op, purpose),
                                  !.seen = accounts[tok.op], !.row = purpose, !.ok = verified]
  <2>1a. PICK purpose \in {"signin", "step_up", "register"} :
          /\ CASE purpose = "signin"   -> get_mfa_pending_operator(tok)
               [] purpose = "step_up"  -> Accepted(tok)
               [] purpose = "register" -> get_enrollment_operator(tok)
          /\ Candidate(tok.op, purpose) # None
          /\ \E verified :
               Load(IF purpose = "signin" THEN "signin" ELSE "factor", Answers(purpose, verified))
    BY <1>3, Zenon DEF answer_challenge
  <2>1b. PICK verified :
           Load(IF purpose = "signin" THEN "signin" ELSE "factor", Answers(purpose, verified))
    BY <2>1a
  <2>1c. (purpose = "step_up" => Accepted(tok)) /\ Candidate(tok.op, purpose) # None
    BY <2>1a
  <2>1. PICK class \in Classes : Load(class, Answers(purpose, verified))
    BY <1>2, <2>1b
  <2>2. PICK c : c = Candidate(tok.op, purpose)
    OBVIOUS
  <2>3. c \in 1..NumChallenges /\ challenges[c].op # None
    BY <1>2, <2>1c, <2>2, CandidateFound DEF Unconsumed, AdminInv, Tables
  <2>4. purpose = "step_up" => tok.typ = "access"
    BY <2>1c DEF Accepted
  <2>5. PICK h : h = [Asked(tok) EXCEPT !.op = "answer", !.on = c, !.seen = accounts[tok.op],
                                        !.row = purpose, !.ok = verified]
    OBVIOUS
  <2>6. Holds(h, "answer", c) /\ h.row = purpose
    BY <1>1, <2>5
  <2>7. Handler(h)
    BY <1>2, <2>3, <2>4, <2>6 DEF Handler, Anonymous, OfRows, Provisions
  <2> QED BY <2>1, <2>2, <2>5, <2>7 DEF Reads
<1>4. CASE present_recovery_code(tok)
  <2>1. PICK r \in UnusedCodes(tok.op) :
          Load("signin", [Asked(tok) EXCEPT !.op = "recover", !.on = r, !.seen = accounts[tok.op]])
    BY <1>4 DEF present_recovery_code
  <2>2. r \in 1..NumRecovery /\ recovery[r].op # None
    BY <1>2 DEF UnusedCodes, AdminInv, Tables
  <2>3. PICK h : h = [Asked(tok) EXCEPT !.op = "recover", !.on = r, !.seen = accounts[tok.op]]
    OBVIOUS
  <2>4. Holds(h, "recover", r)
    BY <1>1, <2>3
  <2>5. Handler(h)
    BY <1>2, <2>2, <2>4 DEF Handler, Anonymous, OfRows, Provisions
  <2> QED BY <1>2, <2>1, <2>3, <2>5 DEF Reads
<1>5. CASE present_email_code(tok)
  <2>1. PICK purpose \in {"signin", "enroll"}, right \in BOOLEAN, c \in LiveCodes(tok.op) :
          Load("signin", [Asked(tok) EXCEPT !.op = "code", !.on = c, !.seen = accounts[tok.op],
                                            !.row = purpose, !.ok = right,
                                            !.ids = {codes[c].attempts}])
    BY <1>5, Zenon DEF present_email_code
  <2>2. c \in 1..NumCodes /\ codes[c].op # None /\ codes[c].attempts \in Nat
    <3>1. c \in DOMAIN codes /\ codes[c].op = tok.op
      BY DEF LiveCodes
    <3>2. codes[c] \in MfaEmailCode /\ c \in 1..NumCodes
      BY <3>1 DEF AdminInv, Tables
    <3> QED BY <1>2, <3>1, <3>2 DEF MfaEmailCode
  <2>3. PICK h : h = [Asked(tok) EXCEPT !.op = "code", !.on = c, !.seen = accounts[tok.op],
                                        !.row = purpose, !.ok = right, !.ids = {codes[c].attempts}]
    OBVIOUS
  <2>4. Holds(h, "code", c) /\ h.ids = {codes[c].attempts}
    BY <1>1, <2>3
  <2>5. Handler(h)
    BY <1>2, <2>2, <2>4 DEF Handler, Anonymous, OfRows, Provisions
  <2> QED BY <1>2, <2>1, <2>3, <2>5 DEF Reads
<1> QED BY <1>3, <1>4, <1>5

\* Sessions and emergency access.
LEMMA ReadSession ==
  ASSUME AdminInv, NEW tok \in tokens,
         revoke_sessions(tok) \/ provision_break_glass(tok) \/ review_break_glass_activation(tok)
  PROVE  Reads
<1>1. PICK touch, yes :
        Asked(tok) = [op |-> "free", tok |-> tok, on |-> None, seen |-> NoAccount, row |-> None,
                      now |-> clock, touch |-> touch, ok |-> yes, ids |-> {}]
  BY Asking
<1>2. /\ clock \in Nat /\ {"session", "glass"} \subseteq Classes /\ NoAccount \in Account
      /\ Emergency \in Operators /\ accounts[Emergency] \in Account
  BY Reading DEF Classes
<1> DEFINE Holds(h, op) == h.op = op /\ h.tok = tok /\ h.now = clock /\ h.seen \in Account
<1>3. CASE revoke_sessions(tok)
  <2>1. PICK ids : Ending(tok, ids)
    BY <1>3, Zenon DEF revoke_sessions
  <2>2. PICK h : h = [Asked(tok) EXCEPT !.op = "end", !.ids = ids]
    OBVIOUS
  <2>3. Holds(h, "end")
    BY <1>1, <1>2, <2>2
  <2>4. Handler(h)
    BY <1>2, <2>3 DEF Handler, Anonymous, OfRows, Provisions
  <2> QED BY <1>2, <2>1, <2>2, <2>4 DEF Reads, Ending
<1>4. CASE provision_break_glass(tok)
  <2>1. PICK op \in Provisions :
          /\ MayProvision(tok)
          /\ Load("glass", [Asked(tok) EXCEPT !.op = op, !.on = Emergency, !.seen = accounts[Emergency],
                                              !.ok = glass.disabled])
    BY <1>4 DEF provision_break_glass, Provisions
  <2>2. tok.typ = "access" /\ "break_glass" \notin tok.amr
    BY <2>1 DEF MayProvision, RequirePlatform, require_step_up, Accepted
  <2>3. PICK h : h = [Asked(tok) EXCEPT !.op = op, !.on = Emergency, !.seen = accounts[Emergency],
                                        !.ok = glass.disabled]
    OBVIOUS
  <2>4. Holds(h, op) /\ h.on = Emergency
    BY <1>1, <1>2, <2>3
  <2>5. Handler(h)
    BY <1>2, <2>2, <2>4 DEF Handler, Anonymous, OfRows, Provisions
  <2> QED BY <1>2, <2>1, <2>3, <2>5 DEF Reads
<1>5. CASE review_break_glass_activation(tok)
  <2>1. PICK s \in glass.activations : Load("glass", [Asked(tok) EXCEPT !.op = "review", !.on = s])
    BY <1>5 DEF review_break_glass_activation
  <2>2. PICK h : h = [Asked(tok) EXCEPT !.op = "review", !.on = s]
    OBVIOUS
  <2>3. Holds(h, "review") /\ h.on = s
    BY <1>1, <1>2, <2>2
  <2>4. Handler(h)
    BY <1>2, <2>3 DEF Handler, Anonymous, OfRows, Provisions
  <2> QED BY <1>2, <2>1, <2>2, <2>4 DEF Reads
<1> QED BY <1>3, <1>4, <1>5

-----------------------------------------------------------------------------
(* What commits write *)

\* A proof that was used up stays used up.
LEMMA StillUsedUp ==
  ASSUME AdminInv, ChallengeStep, RecoveryStep, CodeStep, UNCHANGED uses
  PROVE  uses' \in [Proofs -> {0, 1}] /\ UsedUp'
<1>1. uses' \in [Proofs -> {0, 1}]
  BY DEF AdminInv
<1>2. \A c \in 1..NumChallenges :
        uses[<<"challenge", c>>] = 1 => challenges'[c].op # None /\ challenges'[c].consumed
  BY DEF AdminInv, UsedUp, ChallengeStep
<1>3. \A r \in 1..NumRecovery :
        uses[<<"recovery", r>>] = 1 => recovery'[r].op # None /\ recovery'[r].status \in {"used", "deleted"}
  BY DEF AdminInv, UsedUp, RecoveryStep
<1>4. \A c \in 1..NumCodes : uses[<<"code", c>>] = 1 => codes'[c].op # None /\ codes'[c].consumed
  BY DEF AdminInv, UsedUp, CodeStep
<1> QED BY <1>1, <1>2, <1>3, <1>4 DEF UsedUp

\* A commit that accepts no proof.
LEMMA Commits ==
  ASSUME AdminInv, NEW t \in Slots, Done(t), UNCHANGED uses,
         SessionStep, TokenStep, ChallengeStep, RecoveryStep, CodeStep, GlassStep, OtherStep
  PROVE  AdminInv'
<1>1. Slotted /\ Bounds'
  BY Committed
<1>2. uses' \in [Proofs -> {0, 1}] /\ UsedUp'
  BY StillUsedUp
<1> QED BY <1>1, <1>2, Written

\* A handler in progress is one that Handler describes.
LEMMA HandlerOf ==
  ASSUME AdminInv, NEW t \in DOMAIN txns
  PROVE  t \in Slots /\ Handler(txns[t])
<1>1. t \in Slots /\ \A h \in {txns[u] : u \in Slots} : Handler(h)
  BY DEF AdminInv, Handlers
<1>2. PICK h : h = txns[t]
  OBVIOUS
<1>3. Handler(h)
  BY <1>1, <1>2
<1> QED BY <1>1, <1>2, <1>3 DEF Handler

\* The last use of a session is written over it.
LEMMA Touching ==
  ASSUME AdminInv, NEW t \in DOMAIN txns, NEW after \in [1..NumSessions -> OperatorSession],
         sessions' = Touch(t, after),
         \A s \in 1..NumSessions : sessions[s].status # "absent" =>
           after[s].status # "absent" /\ after[s].glass = sessions[s].glass
  PROVE  SessionStep
<1>1. PICK now \in Nat : now = txns[t].now
  BY HandlerOf DEF Handler
<1>2. CASE ~txns[t].touch
  BY <1>2 DEF Touch, SessionStep
<1>3. CASE txns[t].touch
  <2>1. sessions' = [after EXCEPT ![txns[t].tok.sid].seen = now]
    BY <1>1, <1>3 DEF Touch
  <2>2. PICK sid : sid = txns[t].tok.sid
    OBVIOUS
  <2>3. sessions' = [after EXCEPT ![sid].seen = now]
    BY <2>1, <2>2
  <2>4. \A s \in 1..NumSessions : sessions'[s] \in OperatorSession
    BY <2>3 DEF OperatorSession
  <2>5. sessions' \in [1..NumSessions -> OperatorSession]
    BY <2>3, <2>4
  <2>6. \A s \in 1..NumSessions : /\ sessions'[s].status = after[s].status
                                  /\ sessions'[s].glass = after[s].glass
    BY <2>3 DEF OperatorSession
  <2> QED BY <2>5, <2>6 DEF SessionStep
<1> QED BY <1>2, <1>3

\* A handler that only writes its session's last use, and one that ends sessions.
LEMMA SessionsKept ==
  ASSUME AdminInv, NEW t \in DOMAIN txns, Touched(t) \/ sessions' = EndListed(t)
  PROVE  SessionStep
<1>1. sessions \in [1..NumSessions -> OperatorSession]
  BY DEF AdminInv, Tables
<1>2. CASE Touched(t)
  <2>1. PICK after : after = sessions
    OBVIOUS
  <2>2. sessions' = Touch(t, after)
    BY <1>2, <2>1 DEF Touched, Touch
  <2> QED BY <1>1, <2>1, <2>2, Touching
<1>3. CASE sessions' = EndListed(t)
  <2>1. PICK after : after = [s \in DOMAIN sessions |->
          IF s \in txns[t].ids THEN [sessions[s] EXCEPT !.status = "ended"] ELSE sessions[s]]
    OBVIOUS
  <2>2. sessions' = Touch(t, after)
    BY <1>3, <2>1 DEF EndListed, Touch
  <2>3. after \in [1..NumSessions -> OperatorSession]
    BY <1>1, <2>1 DEF OperatorSession
  <2>4. \A s \in 1..NumSessions : sessions[s].status # "absent" =>
          after[s].status # "absent" /\ after[s].glass = sessions[s].glass
    BY <1>1, <2>1 DEF OperatorSession
  <2> QED BY <2>2, <2>3, <2>4, Touching
<1> QED BY <1>2, <1>3

\* A session is opened in a row that none had, and an emergency one says so in
\* its token.
LEMMA Opening ==
  ASSUME AdminInv, NEW t \in DOMAIN txns, NEW o \in Operators, NEW amr, NEW sua, NEW isGlass \in BOOLEAN,
         NEW superseded, isGlass => "break_glass" \in amr,
         OpenSession(t, o, amr, sua, isGlass, superseded)
  PROVE  SessionStep /\ TokenStep
<1>1. PICK s \in DOMAIN sessions :
        /\ sessions[s] = NoSession
        /\ sessions' = [r \in DOMAIN sessions |->
             IF r = s THEN Session(o, txns[t].seen.gen, isGlass)
             ELSE IF r \in superseded /\ sessions[r].status = "live"
                  THEN [sessions[r] EXCEPT !.status = "ended"] ELSE sessions[r]]
        /\ tokens' = tokens \cup {AccessToken(o, txns[t].seen.gen, amr, sua, s)}
  BY DEF OpenSession
<1>2. sessions \in [1..NumSessions -> OperatorSession] /\ s \in 1..NumSessions /\ clock \in Nat
  BY <1>1, Reading DEF AdminInv, Tables
<1>3. PICK gen \in Nat : gen = txns[t].seen.gen
  BY HandlerOf DEF Handler, Account
<1>4. PICK new : new = Session(o, gen, isGlass)
  OBVIOUS
<1>5. new \in OperatorSession /\ new.status = "live" /\ new.glass = isGlass
  <2>1. PICK abs \in Nat : abs = clock + IF isGlass THEN GlassLifetime ELSE Absolute
    BY <1>2, AdminAuthAssumption
  <2>2. new = [status |-> "live", op |-> o, gen |-> gen, glass |-> isGlass, seen |-> clock, abs |-> abs]
    BY <1>4, <2>1 DEF Session
  <2> QED BY <1>2, <2>2 DEF OperatorSession
<1>6. sessions' = [r \in 1..NumSessions |->
        IF r = s THEN new
        ELSE IF r \in superseded /\ sessions[r].status = "live"
             THEN [sessions[r] EXCEPT !.status = "ended"] ELSE sessions[r]]
  BY <1>1, <1>2, <1>3, <1>4
<1>7. SessionStep
  <2>1. \A r \in 1..NumSessions : sessions'[r] \in OperatorSession
    BY <1>2, <1>5, <1>6 DEF OperatorSession
  <2>2. sessions[s].status = "absent"
    BY <1>1 DEF NoSession
  <2>3. \A r \in 1..NumSessions : sessions[r].status # "absent" =>
          sessions'[r].status # "absent" /\ sessions'[r].glass = sessions[r].glass
    BY <1>2, <1>6, <2>2 DEF OperatorSession
  <2> QED BY <1>6, <2>1, <2>3 DEF SessionStep
<1>8. TokenStep
  <2>1. PICK new_token : new_token = AccessToken(o, gen, amr, sua, s)
    OBVIOUS
  <2>2. PICK exp : new_token = [typ |-> "access", op |-> o, gen |-> gen, amr |-> amr, sua |-> sua, sid |-> s,
                                exp |-> exp]
    BY <2>1 DEF AccessToken
  <2>3. new_token.typ = "access" /\ new_token.op = o /\ new_token.amr = amr /\ new_token.sid = s
    BY <2>2
  <2>4. sessions'[s] = new
    BY <1>2, <1>6
  <2>5. Bearer(new_token)'
    BY <1>2, <1>5, <2>3, <2>4 DEF Bearer
  <2>6. tokens' = tokens \cup {new_token}
    BY <1>1, <1>3, <2>1
  <2> QED BY <2>5, <2>6 DEF TokenStep
<1> QED BY <1>7, <1>8

\* Commits over an account.
LEMMA AccountWrites ==
  ASSUME AdminInv, NEW t \in DOMAIN txns,
         \/ write_created(t) \/ write_role(t) \/ write_disabled(t) \/ write_platform(t)
         \/ write_script(t) \/ write_member(t) \/ write_tokens_revoked(t) \/ write_reset(t)
  PROVE  AdminInv'
<1>1. t \in Slots /\ Handler(txns[t]) /\ accounts \in [Operators -> Account]
  BY HandlerOf DEF AdminInv, Tables
<1>2. txns[t].on \in Operators
  BY <1>1 DEF Handler, OfRows, Provisions, write_created, write_role, write_disabled, write_platform,
              write_script, write_member, write_tokens_revoked, write_reset
<1>3. PICK o \in Operators : o = txns[t].on
  BY <1>2
<1>4. PICK gen \in Nat : gen = txns[t].seen.gen + 1
  BY <1>1 DEF Handler, Account
<1>5. PICK row : row = txns[t].row
  OBVIOUS
<1>6. accounts' \in [Operators -> Account]
  <2>1. CASE write_created(t)
    <3>1. PICK no, yes : no = FALSE /\ yes = TRUE
      BY Zenon
    <3>2. [NoAccount EXCEPT !.role = "operator"] \in Account
      BY DEF NoAccount, Account
    <3>3. accounts' = [accounts EXCEPT ![o] = [NoAccount EXCEPT !.role = "operator"]]
      BY <1>3, <2>1 DEF write_created
    <3> QED BY <1>1, <3>2, <3>3
  <2>2. CASE write_role(t)
    <3>1. row \in {"readonly", "operator", "admin"}
      BY <1>1, <1>5, <2>2 DEF Handler, write_role
    <3>2. PICK script \in BOOLEAN : script = (accounts[o].script /\ row # "readonly")
      BY <1>1 DEF Account
    <3>3. accounts' = [accounts EXCEPT ![o].role = row, ![o].script = script, ![o].gen = gen]
      BY <1>3, <1>4, <1>5, <2>2, <3>2 DEF write_role
    <3> QED BY <1>1, <3>1, <3>3, ZenonT(30) DEF Account
  <2>3. CASE write_disabled(t)
    <3>1. PICK disabled \in BOOLEAN : disabled = ~txns[t].seen.disabled
      BY <1>1 DEF Handler, Account
    <3>2. accounts' = [accounts EXCEPT ![o].disabled = disabled, ![o].gen = gen]
      BY <1>3, <1>4, <2>3, <3>1 DEF write_disabled
    <3> QED BY <1>1, <3>2, ZenonT(30) DEF Account
  <2>4. CASE write_platform(t)
    <3>1. PICK platform \in BOOLEAN : platform = ~txns[t].seen.platform
      BY <1>1 DEF Handler, Account
    <3>2. accounts' = [accounts EXCEPT ![o].platform = platform, ![o].gen = gen]
      BY <1>3, <1>4, <2>4, <3>1 DEF write_platform
    <3> QED BY <1>1, <3>2, ZenonT(30) DEF Account
  <2>5. CASE write_script(t)
    <3>1. PICK script \in BOOLEAN : script = ~txns[t].seen.script
      BY <1>1 DEF Handler, Account
    <3>2. accounts' = [accounts EXCEPT ![o].script = script]
      BY <1>3, <2>5, <3>1 DEF write_script
    <3> QED BY <1>1, <3>2 DEF Account
  <2>6. CASE write_member(t)
    <3>1. PICK member \in BOOLEAN : member = ~txns[t].seen.member
      BY <1>1 DEF Handler, Account
    <3>2. accounts' = [accounts EXCEPT ![o].member = member, ![o].gen = gen]
      BY <1>3, <1>4, <2>6, <3>1 DEF write_member
    <3> QED BY <1>1, <3>2 DEF Account
  <2>7. CASE write_tokens_revoked(t) \/ write_reset(t)
    <3>1. accounts' = [accounts EXCEPT ![o].gen = gen]
      BY <1>3, <1>4, <2>7 DEF write_tokens_revoked, write_reset
    <3> QED BY <1>1, <3>1 DEF Account
  <2> QED BY <2>1, <2>2, <2>3, <2>4, <2>5, <2>6, <2>7
<1>7. Done(t) /\ UNCHANGED <<tokens, codes, factor, uses, glass>> /\ (Touched(t) \/ sessions' = EndListed(t))
  BY DEF write_created, write_role, write_disabled, write_platform, write_script, write_member,
         write_tokens_revoked, write_reset, factors
<1>8. SessionStep
  BY <1>7, SessionsKept
<1>9. TokenStep /\ CodeStep /\ GlassStep
  BY <1>7, Untouched
<1>10. ChallengeStep /\ RecoveryStep /\ keys' \in [1..NumKeys -> WebAuthnCredential]
  <2>1. CASE UNCHANGED <<challenges, recovery, keys>>
    BY <2>1, Untouched DEF AdminInv, Tables
  <2>2. CASE write_reset(t) /\ txns[t].ok
    <3>1. RevokeAllFactors(o)
      BY <1>3, <2>2 DEF write_reset
    <3>2. keys \in [1..NumKeys -> WebAuthnCredential] /\ challenges \in [1..NumChallenges -> WebAuthnChallenge]
          /\ recovery \in [1..NumRecovery -> MfaRecoveryCode]
      BY DEF AdminInv, Tables
    <3>3. \A k \in 1..NumKeys : [keys[k] EXCEPT !.revoked = keys[k].revoked \/ keys[k].op = o] \in WebAuthnCredential
      BY <3>2 DEF WebAuthnCredential
    <3>4. keys' \in [1..NumKeys -> WebAuthnCredential]
      BY <3>1, <3>2, <3>3 DEF RevokeAllFactors
    <3>5. ASSUME NEW c \in 1..NumChallenges
          PROVE  /\ challenges'[c] \in WebAuthnChallenge /\ challenges'[c].op = challenges[c].op
                 /\ challenges[c].consumed => challenges'[c].consumed
      <4>1. PICK consumed \in BOOLEAN : consumed = (challenges[c].consumed \/ challenges[c].op = o)
        OBVIOUS
      <4>2. challenges'[c] = [challenges[c] EXCEPT !.consumed = consumed]
        BY <3>1, <3>2, <4>1 DEF RevokeAllFactors
      <4>3. PICK old \in WebAuthnChallenge : old = challenges[c]
        BY <3>2
      <4>4. /\ challenges'[c] \in WebAuthnChallenge /\ challenges'[c].op = old.op
            /\ challenges'[c].consumed = consumed
        BY <4>2, <4>3 DEF WebAuthnChallenge
      <4> QED BY <4>1, <4>3, <4>4
    <3>6. ChallengeStep
      <4>1. challenges' = [c \in 1..NumChallenges |-> challenges'[c]]
        BY <3>1, <3>2 DEF RevokeAllFactors
      <4> QED BY <3>5, <4>1 DEF ChallengeStep
    <3>7. recovery' = [r \in 1..NumRecovery |->
            IF recovery[r].op = o THEN [recovery[r] EXCEPT !.status = "deleted"] ELSE recovery[r]]
      BY <3>1, <3>2 DEF RevokeAllFactors
    <3>8. RecoveryStep
      BY <3>2, <3>7 DEF RecoveryStep, MfaRecoveryCode
    <3> QED BY <3>4, <3>6, <3>8
  <2> QED BY <2>1, <2>2 DEF write_created, write_role, write_disabled, write_platform, write_script,
                            write_member, write_tokens_revoked, write_reset, factors
<1>11. OtherStep
  BY <1>6, <1>7, <1>10 DEF OtherStep, AdminInv, Tables
<1> QED BY <1>1, <1>7, <1>8, <1>9, <1>10, <1>11, Commits

\* Commits that only end sessions, revoke a key or remove the mailbox, and an
\* error or a restart.
LEMMA PlainWrites ==
  ASSUME AdminInv, NEW t \in DOMAIN txns,
         \/ write_sessions_ended(t) \/ write_key_revoked(t) \/ write_factor_removed(t)
         \/ recovery_code_gone(t) \/ start_session(t) \/ Abort(t)
  PROVE  AdminInv'
<1>1. t \in Slots /\ Handler(txns[t]) /\ Done(t)
  BY HandlerOf DEF write_sessions_ended, write_key_revoked, write_factor_removed, recovery_code_gone,
                   start_session, Abort
<1>2. CASE write_sessions_ended(t) \/ recovery_code_gone(t) \/ Abort(t)
  <2>1. UNCHANGED <<accounts, tokens, keys, challenges, recovery, codes, factor, uses, glass>>
        /\ (UNCHANGED sessions \/ sessions' = EndListed(t))
    BY <1>2 DEF write_sessions_ended, recovery_code_gone, Abort, factors
  <2>2. SessionStep
    BY <2>1, SessionsKept, Untouched
  <2> QED BY <1>1, <2>1, <2>2, Untouched, Commits
<1>3. CASE write_key_revoked(t)
  <2>1. UNCHANGED <<accounts, tokens, challenges, recovery, codes, factor, uses, glass>> /\ Touched(t)
        /\ keys' = [keys EXCEPT ![txns[t].on].revoked = TRUE] /\ txns[t].op = "revoke_key"
    BY <1>3 DEF write_key_revoked
  <2>2. keys \in [1..NumKeys -> WebAuthnCredential] /\ txns[t].on \in 1..NumKeys
    BY <1>1, <2>1 DEF AdminInv, Tables, Handler
  <2>3. keys' \in [1..NumKeys -> WebAuthnCredential]
    BY <2>1, <2>2 DEF WebAuthnCredential
  <2>4. OtherStep
    BY <2>1, <2>3 DEF OtherStep, AdminInv, Tables
  <2> QED BY <1>1, <2>1, <2>4, Untouched, SessionsKept, Commits
<1>4. CASE write_factor_removed(t)
  <2>1. UNCHANGED <<accounts, tokens, keys, challenges, recovery, uses, glass>> /\ Touched(t)
        /\ factor' = [factor EXCEPT ![txns[t].on] = "none"]
    BY <1>4 DEF write_factor_removed
  <2>2. codes \in [1..NumCodes -> MfaEmailCode]
    BY DEF AdminInv, Tables
  <2>3. ASSUME NEW c \in 1..NumCodes
        PROVE  /\ codes'[c] \in MfaEmailCode /\ codes'[c].op = codes[c].op
               /\ codes'[c].consumed = codes[c].consumed
    <3>1. PICK superseded \in BOOLEAN : superseded = (codes[c].superseded \/ c \in txns[t].ids)
      OBVIOUS
    <3>2. codes'[c] = [codes[c] EXCEPT !.superseded = superseded]
      BY <1>4, <2>2, <3>1 DEF write_factor_removed
    <3> QED BY <2>2, <3>2 DEF MfaEmailCode
  <2>4. codes' = [c \in 1..NumCodes |-> codes'[c]]
    BY <1>4, <2>2 DEF write_factor_removed
  <2>5. CodeStep
    BY <2>3, <2>4 DEF CodeStep
  <2>6. OtherStep
    BY <2>1 DEF OtherStep, AdminInv, Tables
  <2> QED BY <1>1, <2>1, <2>5, <2>6, Untouched, SessionsKept, Commits
<1>5. CASE start_session(t)
  <2>1. /\ UNCHANGED <<accounts, keys, challenges, recovery, codes, factor, uses, glass>>
        /\ OpenSession(t, txns[t].on, {"pwd"}, None, FALSE, txns[t].ids) /\ txns[t].op = "login"
    BY <1>5 DEF start_session, factors
  <2>2. PICK o \in Operators : o = txns[t].on
    BY <1>1, <2>1 DEF Handler, OfRows
  <2>3. PICK ids : ids = txns[t].ids
    OBVIOUS
  <2>4. SessionStep /\ TokenStep
    BY <2>1, <2>2, <2>3, Opening
  <2> QED BY <1>1, <2>1, <2>4, Untouched, Commits
<1> QED BY <1>2, <1>3, <1>4, <1>5

-----------------------------------------------------------------------------
(* What a proof is accepted for *)

\* A proof that was not accepted before, and is used up with the acceptance.
LEMMA Accepting ==
  ASSUME AdminInv, ChallengeStep, RecoveryStep, CodeStep,
         NEW p \in Proofs, uses[p] = 0, uses' = [uses EXCEPT ![p] = uses[p] + 1],
         \A c \in 1..NumChallenges : p = <<"challenge", c>> =>
           challenges'[c].op # None /\ challenges'[c].consumed,
         \A r \in 1..NumRecovery : p = <<"recovery", r>> =>
           recovery'[r].op # None /\ recovery'[r].status \in {"used", "deleted"},
         \A c \in 1..NumCodes : p = <<"code", c>> => codes'[c].op # None /\ codes'[c].consumed
  PROVE  uses' \in [Proofs -> {0, 1}] /\ UsedUp'
<1>1. uses \in [Proofs -> {0, 1}]
  BY DEF AdminInv
<1>2. uses' \in [Proofs -> {0, 1}] /\ \A q \in Proofs : q # p => uses'[q] = uses[q]
  BY <1>1
<1>3. ASSUME NEW c \in 1..NumChallenges, uses'[<<"challenge", c>>] = 1
      PROVE  challenges'[c].op # None /\ challenges'[c].consumed
  <2>1. PICK q \in Proofs : q = <<"challenge", c>>
    BY DEF Proofs
  <2>2. CASE q = p
    BY <2>1, <2>2
  <2>3. CASE q # p
    BY <1>2, <1>3, <2>1, <2>3 DEF AdminInv, UsedUp, ChallengeStep
  <2> QED BY <2>2, <2>3
<1>4. ASSUME NEW r \in 1..NumRecovery, uses'[<<"recovery", r>>] = 1
      PROVE  recovery'[r].op # None /\ recovery'[r].status \in {"used", "deleted"}
  <2>1. PICK q \in Proofs : q = <<"recovery", r>>
    BY DEF Proofs
  <2>2. CASE q = p
    BY <2>1, <2>2
  <2>3. CASE q # p
    BY <1>2, <1>4, <2>1, <2>3 DEF AdminInv, UsedUp, RecoveryStep
  <2> QED BY <2>2, <2>3
<1>5. ASSUME NEW c \in 1..NumCodes, uses'[<<"code", c>>] = 1 PROVE codes'[c].op # None /\ codes'[c].consumed
  <2>1. PICK q \in Proofs : q = <<"code", c>>
    BY DEF Proofs
  <2>2. CASE q = p
    BY <2>1, <2>2
  <2>3. CASE q # p
    BY <1>2, <1>5, <2>1, <2>3 DEF AdminInv, UsedUp, CodeStep
  <2> QED BY <2>2, <2>3
<1> QED BY <1>2, <1>3, <1>4, <1>5 DEF UsedUp

\* A challenge is used up, whatever it was claimed for.
LEMMA Consumed ==
  ASSUME AdminInv, NEW t \in DOMAIN txns, txns[t].op = "answer",
         challenges' = [challenges EXCEPT ![txns[t].on].consumed = TRUE]
  PROVE  /\ ChallengeStep /\ txns[t].on \in 1..NumChallenges
         /\ challenges'[txns[t].on].op # None /\ challenges'[txns[t].on].consumed
<1>1. challenges \in [1..NumChallenges -> WebAuthnChallenge]
  BY DEF AdminInv, Tables
<1>2. PICK c \in 1..NumChallenges : c = txns[t].on /\ challenges[c].op # None
  BY HandlerOf DEF Handler
<1>3. PICK yes \in BOOLEAN : yes = TRUE
  BY Zenon
<1>4. PICK new : new = [challenges[c] EXCEPT !.consumed = yes]
  OBVIOUS
<1>5. challenges' = [challenges EXCEPT ![c] = new]
  BY <1>1, <1>2, <1>3, <1>4
<1>6. new \in WebAuthnChallenge /\ new.op = challenges[c].op /\ new.consumed = yes
  BY <1>1, <1>4 DEF WebAuthnChallenge
<1>7. new.consumed
  BY <1>3, <1>6
<1>8. challenges' \in [1..NumChallenges -> WebAuthnChallenge] /\ challenges'[c] = new
      /\ \A d \in 1..NumChallenges \ {c} : challenges'[d] = challenges[d]
  BY <1>1, <1>5, <1>6
<1> QED BY <1>2, <1>6, <1>7, <1>8 DEF ChallengeStep

\* The claim of a challenge: it was not used up, so it was not accepted.
LEMMA Claimed ==
  ASSUME AdminInv, NEW t \in DOMAIN txns, txns[t].op = "answer",
         ChallengeClaimed(t), Consume(t), UNCHANGED <<recovery, codes>>
  PROVE  ChallengeStep /\ RecoveryStep /\ CodeStep /\ uses' \in [Proofs -> {0, 1}] /\ UsedUp'
<1>1. /\ ChallengeStep /\ txns[t].on \in 1..NumChallenges
      /\ challenges'[txns[t].on].op # None /\ challenges'[txns[t].on].consumed
  BY Consumed DEF Consume
<1>2. PICK c \in 1..NumChallenges : c = txns[t].on
  BY <1>1
<1>3. PICK p \in Proofs : p = <<"challenge", c>>
  BY DEF Proofs
<1>4. RecoveryStep /\ CodeStep
  BY Untouched
<1>5. uses[p] \in {0, 1} /\ uses[p] # 1
  BY <1>2, <1>3 DEF ChallengeClaimed, AdminInv, UsedUp
<1>6. uses' = [uses EXCEPT ![p] = uses[p] + 1]
  BY <1>2, <1>3 DEF Consume
<1>7. \A d \in 1..NumChallenges : p = <<"challenge", d>> => challenges'[d].op # None /\ challenges'[d].consumed
  BY <1>1, <1>2, <1>3
<1>8. \A r : p # <<"recovery", r>> /\ p # <<"code", r>>
  BY <1>3
<1> QED BY <1>1, <1>4, <1>5, <1>6, <1>7, <1>8, Accepting

\* Answering a challenge.
LEMMA ChallengeWrites ==
  ASSUME AdminInv, NEW t \in DOMAIN txns,
         challenge_signin(t) \/ challenge_step_up(t) \/ challenge_register(t) \/ challenge_failed(t)
  PROVE  AdminInv'
<1>1. /\ t \in Slots /\ Handler(txns[t]) /\ Done(t) /\ txns[t].op = "answer"
      /\ UNCHANGED <<accounts, recovery, codes, factor, glass>>
  BY HandlerOf DEF challenge_signin, challenge_step_up, challenge_register, challenge_failed
<1>2. txns[t].tok \in tokens
  BY <1>1 DEF Handler, Anonymous
<1>3. PICK tok \in tokens : tok = txns[t].tok
  BY <1>2
<1>4. Bearer(tok) /\ tok.op \in Operators
  BY Reading DEF AdminInv
<1>5. Slotted /\ Bounds'
  BY <1>1, Committed
<1>6. RecoveryStep /\ CodeStep /\ GlassStep
  BY <1>1, Untouched
<1>7. UNCHANGED keys => OtherStep
  BY <1>1, Untouched
<1>8. CASE challenge_failed(t)
  <2>1. /\ challenges' = [challenges EXCEPT ![txns[t].on].consumed = TRUE]
        /\ UNCHANGED <<keys, uses, tokens>> /\ (Touched(t) \/ UNCHANGED sessions)
    BY <1>8 DEF challenge_failed
  <2>2. ChallengeStep
    BY <1>1, <2>1, Consumed
  <2> QED BY <1>1, <1>6, <1>7, <2>1, <2>2, Untouched, SessionsKept, Commits
<1>9. CASE challenge_signin(t)
  <2>1. /\ ChallengeClaimed(t) /\ Consume(t) /\ UNCHANGED keys
        /\ OpenSession(t, tok.op, {"pwd", "webauthn"}, clock, FALSE, excess(tok.op))
    BY <1>3, <1>9 DEF challenge_signin
  <2>2. ChallengeStep /\ uses' \in [Proofs -> {0, 1}] /\ UsedUp'
    BY <1>1, <2>1, Claimed
  <2>3. PICK o \in Operators : o = tok.op
    BY <1>4
  <2>4. PICK superseded, sua : superseded = excess(tok.op) /\ sua = clock
    OBVIOUS
  <2>5. SessionStep /\ TokenStep
    BY <2>1, <2>3, <2>4, Opening
  <2> QED BY <1>5, <1>6, <1>7, <2>1, <2>2, <2>5, Written
<1>10. CASE challenge_step_up(t)
  <2>1. /\ ChallengeClaimed(t) /\ Consume(t) /\ UNCHANGED keys /\ Touched(t)
        /\ tokens' = tokens \cup {AccessToken(tok.op, txns[t].seen.gen, tok.amr \cup {"pwd", "webauthn"},
                                              clock, tok.sid)}
        /\ txns[t].row = "step_up"
    BY <1>3, <1>10 DEF challenge_step_up
  <2>2. ChallengeStep /\ uses' \in [Proofs -> {0, 1}] /\ UsedUp'
    BY <1>1, <2>1, Claimed
  <2>3. SessionStep
    BY <2>1, SessionsKept
  <2>4. tok.typ = "access"
    BY <1>1, <1>3, <2>1 DEF Handler
  <2>5. PICK new : new = AccessToken(tok.op, txns[t].seen.gen, tok.amr \cup {"pwd", "webauthn"}, clock, tok.sid)
    OBVIOUS
  <2>6. /\ new.typ = "access" /\ new.op = tok.op /\ new.amr = tok.amr \cup {"pwd", "webauthn"}
        /\ new.sid = tok.sid
    BY <2>5 DEF AccessToken
  <2>7. Bearer(new)'
    BY <1>4, <2>3, <2>4, <2>6 DEF Bearer, SessionStep
  <2>8. TokenStep
    BY <2>1, <2>5, <2>7 DEF TokenStep
  <2> QED BY <1>5, <1>6, <1>7, <2>1, <2>2, <2>3, <2>8, Written
<1>11. CASE challenge_register(t)
  <2>1. ChallengeClaimed(t) /\ Consume(t) /\ UNCHANGED <<sessions, tokens>>
    BY <1>11 DEF challenge_register
  <2>2. PICK k \in DOMAIN keys : keys' = [keys EXCEPT ![k].op = tok.op]
    BY <1>3, <1>11 DEF challenge_register
  <2>3. ChallengeStep /\ uses' \in [Proofs -> {0, 1}] /\ UsedUp'
    BY <1>1, <2>1, Claimed
  <2>4. keys \in [1..NumKeys -> WebAuthnCredential]
    BY DEF AdminInv, Tables
  <2>5. PICK o \in Operators : o = tok.op
    BY <1>4
  <2>6. keys' \in [1..NumKeys -> WebAuthnCredential]
    BY <2>2, <2>4, <2>5 DEF WebAuthnCredential
  <2>7. OtherStep
    BY <1>1, <2>6 DEF OtherStep, AdminInv, Tables
  <2> QED BY <1>5, <1>6, <2>1, <2>3, <2>7, Untouched, Written
<1> QED BY <1>8, <1>9, <1>10, <1>11

\* A new challenge uses up the outstanding ones.
LEMMA ChallengeStored ==
  ASSUME AdminInv, NEW t \in DOMAIN txns, store_challenge(t)
  PROVE  AdminInv'
<1>1. /\ t \in Slots /\ Handler(txns[t]) /\ Done(t) /\ txns[t].op = "challenge" /\ Touched(t)
      /\ UNCHANGED <<accounts, tokens, keys, recovery, codes, factor, uses, glass>>
  BY HandlerOf DEF store_challenge
<1>2. challenges \in [1..NumChallenges -> WebAuthnChallenge]
  BY DEF AdminInv, Tables
<1>3. PICK o \in Operators, row \in {"signin", "step_up", "register"}, exp \in Nat :
        o = txns[t].on /\ row = txns[t].row /\ exp = txns[t].now + ChallengeTtl
  BY <1>1, AdminAuthAssumption DEF Handler, OfRows
<1>4. PICK no \in BOOLEAN : no = FALSE
  BY Zenon
<1>5. PICK new : new = [op |-> o, purpose |-> row, consumed |-> no, exp |-> exp]
  OBVIOUS
<1>6. new \in WebAuthnChallenge
  BY <1>5 DEF WebAuthnChallenge
<1>7. PICK c \in 1..NumChallenges :
        /\ challenges[c].op = None
        /\ challenges' = [d \in 1..NumChallenges |-> IF d = c THEN new
             ELSE [challenges[d] EXCEPT !.consumed = challenges[d].consumed \/ d \in txns[t].ids]]
  <2>1. PICK c \in DOMAIN challenges :
          /\ challenges[c].op = None
          /\ challenges' = [d \in DOMAIN challenges |->
               IF d = c THEN [op |-> txns[t].on, purpose |-> txns[t].row, consumed |-> FALSE,
                              exp |-> txns[t].now + ChallengeTtl]
               ELSE [challenges[d] EXCEPT !.consumed = challenges[d].consumed \/ d \in txns[t].ids]]
    BY DEF store_challenge
  <2> QED BY <1>2, <1>3, <1>4, <1>5, <2>1
<1>8. ASSUME NEW d \in 1..NumChallenges, d # c
      PROVE  /\ challenges'[d] \in WebAuthnChallenge /\ challenges'[d].op = challenges[d].op
             /\ challenges[d].consumed => challenges'[d].consumed
  <2>1. PICK consumed \in BOOLEAN : consumed = (challenges[d].consumed \/ d \in txns[t].ids)
    OBVIOUS
  <2>2. PICK old \in WebAuthnChallenge : old = challenges[d]
    BY <1>2
  <2>3. challenges'[d] = [old EXCEPT !.consumed = consumed]
    BY <1>7, <1>8, <2>1, <2>2
  <2>4. /\ challenges'[d] \in WebAuthnChallenge /\ challenges'[d].op = old.op
        /\ challenges'[d].consumed = consumed
    BY <2>2, <2>3 DEF WebAuthnChallenge
  <2> QED BY <2>1, <2>2, <2>4
<1>9. challenges' = [d \in 1..NumChallenges |-> challenges'[d]] /\ challenges'[c] = new
  BY <1>7
<1>10. ChallengeStep
  BY <1>6, <1>7, <1>8, <1>9 DEF ChallengeStep
<1> QED BY <1>1, <1>10, Untouched, SessionsKept, Commits

\* A new batch of recovery codes replaces the old one.
LEMMA RecoveryStored ==
  ASSUME AdminInv, NEW t \in DOMAIN txns, write_recovery_codes(t)
  PROVE  AdminInv'
<1>1. /\ t \in Slots /\ Handler(txns[t]) /\ Done(t) /\ txns[t].op = "codes" /\ Touched(t)
      /\ UNCHANGED <<accounts, tokens, keys, challenges, codes, factor, uses, glass>>
  BY HandlerOf DEF write_recovery_codes
<1>2. recovery \in [1..NumRecovery -> MfaRecoveryCode]
  BY DEF AdminInv, Tables
<1>3. PICK o \in Operators : o = txns[t].on
  BY <1>1 DEF Handler, OfRows
<1>4. PICK r \in 1..NumRecovery :
        /\ recovery[r].op = None
        /\ recovery' = [q \in 1..NumRecovery |->
             IF q = r THEN [op |-> o, status |-> "unused"]
             ELSE IF recovery[q].op = o THEN [recovery[q] EXCEPT !.status = "deleted"] ELSE recovery[q]]
  BY <1>2, <1>3 DEF write_recovery_codes
<1>5. RecoveryStep
  BY <1>2, <1>4 DEF RecoveryStep, MfaRecoveryCode
<1> QED BY <1>1, <1>5, Untouched, SessionsKept, Commits

\* A recovery code that was unused was not accepted.
LEMMA RecoveryAccepted ==
  ASSUME AdminInv, NEW t \in DOMAIN txns, complete_login_with_recovery_code(t)
  PROVE  AdminInv'
<1>1. /\ t \in Slots /\ Handler(txns[t]) /\ Done(t) /\ txns[t].op = "recover"
      /\ UNCHANGED <<accounts, keys, challenges, codes, factor, glass>>
  BY HandlerOf DEF complete_login_with_recovery_code
<1>2. recovery \in [1..NumRecovery -> MfaRecoveryCode]
  BY DEF AdminInv, Tables
<1>3. PICK r \in 1..NumRecovery : r = txns[t].on /\ recovery[r].op # None
  BY <1>1 DEF Handler
<1>4. /\ recovery[r].status = "unused" /\ recovery' = [recovery EXCEPT ![r].status = "used"]
      /\ uses' = [uses EXCEPT ![<<"recovery", r>>] = uses[<<"recovery", r>>] + 1]
  BY <1>3 DEF complete_login_with_recovery_code
<1>5. RecoveryStep /\ recovery'[r].op # None /\ recovery'[r].status = "used"
  BY <1>2, <1>3, <1>4 DEF RecoveryStep, MfaRecoveryCode
<1>6. ChallengeStep /\ CodeStep /\ GlassStep /\ OtherStep
  BY <1>1, Untouched
<1>7. PICK p \in Proofs : p = <<"recovery", r>>
  BY DEF Proofs
<1>8. uses[p] \in {0, 1} /\ uses[p] # 1
  BY <1>4, <1>7 DEF AdminInv, UsedUp
<1>9. uses' \in [Proofs -> {0, 1}] /\ UsedUp'
  <2>1. \A q \in 1..NumRecovery : p = <<"recovery", q>> =>
          recovery'[q].op # None /\ recovery'[q].status \in {"used", "deleted"}
    BY <1>5, <1>7
  <2>2. \A c : p # <<"challenge", c>> /\ p # <<"code", c>>
    BY <1>7
  <2> QED BY <1>4, <1>5, <1>6, <1>7, <1>8, <2>1, <2>2, Accepting
<1>10. SessionStep /\ TokenStep
  <2>1. txns[t].tok \in tokens
    BY <1>1 DEF Handler, Anonymous
  <2>2. PICK o \in Operators : o = txns[t].tok.op
    BY <2>1, Reading
  <2>2a. PICK superseded : superseded = excess(o)
    OBVIOUS
  <2>3. OpenSession(t, o, {"pwd", "recovery_code"}, None, FALSE, superseded)
    BY <2>2, <2>2a DEF complete_login_with_recovery_code
  <2> QED BY <2>3, Opening
<1> QED BY <1>1, <1>5, <1>6, <1>9, <1>10, Committed, Written

\* A new mailed code supersedes the ones that were read.
LEMMA CodeStored ==
  ASSUME AdminInv, NEW t \in DOMAIN txns, store_email_code(t)
  PROVE  AdminInv'
<1>1. /\ t \in Slots /\ Handler(txns[t]) /\ Done(t) /\ txns[t].op = "mail"
      /\ UNCHANGED <<accounts, sessions, tokens, keys, challenges, recovery, uses, glass>>
  BY HandlerOf DEF store_email_code
<1>2. codes \in [1..NumCodes -> MfaEmailCode] /\ factor \in [Operators -> {"none", "unverified", "verified"}]
  BY DEF AdminInv, Tables
<1>3. PICK o \in Operators, row \in {"signin", "enroll"}, exp \in Nat :
        o = txns[t].on /\ row = txns[t].row /\ exp = txns[t].now + CodeTtl
  BY <1>1, AdminAuthAssumption DEF Handler, OfRows
<1>4. PICK no \in BOOLEAN : no = FALSE
  BY Zenon
<1>5. PICK superseded \in BOOLEAN, c \in DOMAIN codes :
        /\ codes[c].op = None
        /\ codes' = [d \in DOMAIN codes |->
             IF d = c THEN [op |-> o, purpose |-> row, attempts |-> 0, exp |-> exp, consumed |-> no,
                            superseded |-> superseded]
             ELSE [codes[d] EXCEPT !.superseded = codes[d].superseded \/ d \in txns[t].ids]]
  <2>1. PICK delivered \in BOOLEAN, c \in DOMAIN codes :
          /\ codes[c].op = None
          /\ codes' = [d \in DOMAIN codes |->
               IF d = c THEN [op |-> txns[t].on, purpose |-> txns[t].row, attempts |-> 0,
                              exp |-> txns[t].now + CodeTtl, consumed |-> FALSE, superseded |-> ~delivered]
               ELSE [codes[d] EXCEPT !.superseded = codes[d].superseded \/ d \in txns[t].ids]]
    BY DEF store_email_code
  <2>2. PICK superseded \in BOOLEAN : superseded = ~delivered
    OBVIOUS
  <2> QED BY <1>3, <1>4, <2>1, <2>2
<1>6. PICK new : new = [op |-> o, purpose |-> row, attempts |-> 0, exp |-> exp, consumed |-> no,
                        superseded |-> superseded]
  OBVIOUS
<1>7. new \in MfaEmailCode
  BY <1>6 DEF MfaEmailCode
<1>8. ASSUME NEW d \in 1..NumCodes, d # c
      PROVE  /\ codes'[d] \in MfaEmailCode /\ codes'[d].op = codes[d].op
             /\ codes[d].consumed => codes'[d].consumed
  <2>1. PICK gone \in BOOLEAN : gone = (codes[d].superseded \/ d \in txns[t].ids)
    OBVIOUS
  <2>2. PICK old \in MfaEmailCode : old = codes[d]
    BY <1>2
  <2>3. codes'[d] = [old EXCEPT !.superseded = gone]
    BY <1>2, <1>5, <1>8, <2>1, <2>2
  <2>4. codes'[d] \in MfaEmailCode /\ codes'[d].op = old.op /\ codes'[d].consumed = old.consumed
    BY <2>2, <2>3 DEF MfaEmailCode
  <2> QED BY <2>2, <2>4
<1>9. codes' = [d \in 1..NumCodes |-> codes'[d]] /\ codes'[c] = new /\ c \in 1..NumCodes
  BY <1>2, <1>5, <1>6
<1>10. CodeStep
  BY <1>5, <1>7, <1>8, <1>9 DEF CodeStep
<1>11. factor' \in [Operators -> {"none", "unverified", "verified"}]
  BY <1>2 DEF store_email_code
<1>12. OtherStep
  BY <1>1, <1>11 DEF OtherStep, AdminInv, Tables
<1> QED BY <1>1, <1>10, <1>12, Untouched, Commits

\* What an attempt reads stays a number.
LEMMA Attempted ==
  ASSUME AdminInv, NEW t \in DOMAIN txns, txns[t].op = "code"
  PROVE  Attempts(t) + 1 \in Nat
<1>1. PICK n \in Nat : txns[t].ids = {n}
  BY HandlerOf DEF Handler
<1>2. Attempts(t) = n
  BY <1>1 DEF Attempts
<1> QED BY <1>2

\* A mailed code that was not consumed was not accepted.
LEMMA CodeAccepted ==
  ASSUME AdminInv, NEW t \in DOMAIN txns, complete_login_with_email_code(t)
  PROVE  AdminInv'
<1>1. /\ t \in Slots /\ Handler(txns[t]) /\ Done(t) /\ txns[t].op = "code"
      /\ UNCHANGED <<accounts, keys, challenges, recovery, glass>>
  BY HandlerOf DEF complete_login_with_email_code
<1>2. codes \in [1..NumCodes -> MfaEmailCode] /\ factor \in [Operators -> {"none", "unverified", "verified"}]
  BY DEF AdminInv, Tables
<1>3. PICK c \in 1..NumCodes : c = txns[t].on /\ codes[c].op # None
  BY <1>1 DEF Handler
<1>4. PICK yes \in BOOLEAN : yes = TRUE
  BY Zenon
<1>5. PICK attempts \in Nat : attempts = Attempts(t) + 1
  BY <1>1, Attempted
<1>6. /\ ~codes[c].consumed /\ codes' = [codes EXCEPT ![c].consumed = yes, ![c].attempts = attempts]
      /\ uses' = [uses EXCEPT ![<<"code", c>>] = uses[<<"code", c>>] + 1]
  BY <1>3, <1>4, <1>5 DEF complete_login_with_email_code
<1>7. CodeStep /\ codes'[c].op # None /\ codes'[c].consumed = yes
  <2>1. PICK old \in MfaEmailCode : old = codes[c]
    BY <1>2
  <2>2. PICK new : new = [old EXCEPT !.consumed = yes, !.attempts = attempts]
    OBVIOUS
  <2>3. new \in MfaEmailCode /\ new.op = old.op /\ new.consumed = yes
    BY <2>1, <2>2 DEF MfaEmailCode
  <2>4. codes' = [codes EXCEPT ![c] = new]
    BY <1>2, <1>6, <2>1, <2>2
  <2>5. codes' \in [1..NumCodes -> MfaEmailCode] /\ codes'[c] = new
        /\ \A d \in 1..NumCodes \ {c} : codes'[d] = codes[d]
    BY <1>2, <2>3, <2>4
  <2> QED BY <1>3, <1>6, <2>1, <2>3, <2>5 DEF CodeStep
<1>8. ChallengeStep /\ RecoveryStep /\ GlassStep
  BY <1>1, Untouched
<1>9. PICK p \in Proofs : p = <<"code", c>>
  BY DEF Proofs
<1>10. uses[p] \in {0, 1} /\ uses[p] # 1
  BY <1>6, <1>9 DEF AdminInv, UsedUp
<1>11. uses' \in [Proofs -> {0, 1}] /\ UsedUp'
  <2>1. \A d \in 1..NumCodes : p = <<"code", d>> => codes'[d].op # None /\ codes'[d].consumed
    BY <1>4, <1>7, <1>9
  <2>2. \A d : p # <<"challenge", d>> /\ p # <<"recovery", d>>
    BY <1>9
  <2> QED BY <1>6, <1>7, <1>8, <1>9, <1>10, <2>1, <2>2, Accepting
<1>12. PICK o \in Operators : o = txns[t].tok.op
  BY <1>1, Reading DEF Handler, Anonymous
<1>12a. PICK superseded : superseded = excess(o)
  OBVIOUS
<1>13. SessionStep /\ TokenStep
  <2>1. \/ OpenSession(t, o, {"pwd", "email_code"}, None, FALSE, superseded)
        \/ UNCHANGED <<sessions, tokens>>
    BY <1>12, <1>12a DEF complete_login_with_email_code
  <2> QED BY <2>1, Opening, Untouched
<1>14. OtherStep
  <2>1. factor' \in [Operators -> {"none", "unverified", "verified"}]
    BY <1>2, <1>12 DEF complete_login_with_email_code
  <2> QED BY <1>1, <2>1 DEF OtherStep, AdminInv, Tables
<1> QED BY <1>1, <1>7, <1>8, <1>11, <1>13, <1>14, Committed, Written

\* A wrong code counts.
LEMMA CodeRefused ==
  ASSUME AdminInv, NEW t \in DOMAIN txns, wrong_email_code(t)
  PROVE  AdminInv'
<1>1. /\ t \in Slots /\ Handler(txns[t]) /\ Done(t) /\ txns[t].op = "code"
      /\ UNCHANGED <<accounts, sessions, tokens, keys, challenges, recovery, factor, uses, glass>>
  BY HandlerOf DEF wrong_email_code
<1>2. codes \in [1..NumCodes -> MfaEmailCode]
  BY DEF AdminInv, Tables
<1>3. PICK c \in 1..NumCodes : c = txns[t].on
  BY <1>1 DEF Handler
<1>4. PICK attempts \in Nat : attempts = Attempts(t) + 1
  BY <1>1, Attempted
<1>5. PICK superseded \in BOOLEAN :
        superseded = (codes[c].superseded \/ (~txns[t].ok /\ attempts >= MaxAttempts))
  OBVIOUS
<1>6. codes' = [codes EXCEPT ![c].attempts = attempts, ![c].superseded = superseded]
  BY <1>3, <1>4, <1>5 DEF wrong_email_code
<1>7. CodeStep
  BY <1>2, <1>6, ZenonT(30) DEF CodeStep, MfaEmailCode
<1> QED BY <1>1, <1>7, Untouched, Commits

\* Provisioning, activating and reviewing emergency access.
LEMMA GlassWrites ==
  ASSUME AdminInv, NEW t \in DOMAIN txns,
         write_glass(t) \/ start_glass_session(t) \/ write_glass_reviewed(t)
  PROVE  AdminInv'
<1>1. /\ t \in Slots /\ Handler(txns[t]) /\ Done(t)
      /\ UNCHANGED <<keys, challenges, recovery, codes, factor, uses>>
  BY HandlerOf DEF write_glass, start_glass_session, write_glass_reviewed, factors
<1>2. /\ glass \in [secret : Nat, disabled : BOOLEAN,
                    activations : SUBSET (1..NumSessions), reviewed : SUBSET (1..NumSessions)]
      /\ glass.reviewed \subseteq glass.activations /\ accounts \in [Operators -> Account]
      /\ sessions \in [1..NumSessions -> OperatorSession]
  BY DEF AdminInv, Tables
<1>3. CASE write_glass(t)
  <2>1. UNCHANGED tokens /\ Touched(t) /\ txns[t].op \in Provisions
    BY <1>3 DEF write_glass, Provisions
  <2>11. PICK disabled \in BOOLEAN : disabled = ~txns[t].ok
    OBVIOUS
  <2>2. PICK secret \in Nat : secret = glass.secret + 1
    BY <1>2
  <2>3. glass' = [glass EXCEPT !.disabled = disabled] \/ glass' = [glass EXCEPT !.secret = secret]
    BY <1>3, <2>11, <2>2 DEF write_glass
  <2>4. GlassStep
    BY <1>2, <2>3 DEF GlassStep
  <2>5. PICK yes \in BOOLEAN : yes = TRUE
    BY Zenon
  <2>6. PICK new : new = [NoAccount EXCEPT !.role = "admin", !.platform = yes]
    OBVIOUS
  <2>7. new \in Account
    BY <2>6 DEF NoAccount, Account
  <2>8. \/ accounts' = [accounts EXCEPT ![Emergency] = new]
        \/ accounts' = [accounts EXCEPT ![Emergency].disabled = disabled]
        \/ UNCHANGED accounts
    BY <1>3, <2>11, <2>5, <2>6 DEF write_glass
  <2>9. accounts' \in [Operators -> Account]
    BY <1>2, <2>7, <2>8, SMTT(30) DEF Account
  <2>10. OtherStep
    BY <1>1, <2>9 DEF OtherStep, AdminInv, Tables
  <2> QED BY <1>1, <2>1, <2>4, <2>10, Untouched, SessionsKept, Commits
<1>4. CASE start_glass_session(t)
  <2>1. UNCHANGED accounts /\ OpenSession(t, Emergency, {"break_glass"}, None, TRUE, txns[t].ids)
    BY <1>4 DEF start_glass_session
  <2>2. PICK superseded : superseded = txns[t].ids
    OBVIOUS
  <2>3. SessionStep /\ TokenStep
    BY <2>1, <2>2, Opening, Reading
  <2>4. PICK opened \in SUBSET (1..NumSessions) : glass' = [glass EXCEPT !.activations = glass.activations \cup opened]
    BY <1>2, <1>4 DEF start_glass_session
  <2>5. GlassStep
    BY <1>2, <2>4 DEF GlassStep
  <2> QED BY <1>1, <2>1, <2>3, <2>5, Untouched, Commits
<1>5. CASE write_glass_reviewed(t)
  <2>1. UNCHANGED <<accounts, tokens>> /\ Touched(t) /\ txns[t].op = "review"
    BY <1>5 DEF write_glass_reviewed
  <2>2. PICK s \in glass.activations : glass' = [glass EXCEPT !.reviewed = glass.reviewed \cup {s}]
    BY <1>1, <1>5 DEF write_glass_reviewed, Handler
  <2>3. GlassStep
    BY <1>2, <2>2 DEF GlassStep
  <2> QED BY <1>1, <2>1, <2>3, Untouched, SessionsKept, Commits
<1> QED BY <1>3, <1>4, <1>5

\* Steps outside the two-step handlers.
LEMMA Immediate ==
  ASSUME AdminInv,
         \/ \E o \in Operators : login_pending(o) \/ wrong_password(o)
         \/ \E tok \in tokens : refuse_lapsed(tok) \/ refresh_session(tok)
         \/ expire_lapsed \/ purge_ended \/ Tick
  PROVE  AdminInv'
<1>1. /\ UNCHANGED <<accounts, keys, challenges, recovery, codes, factor, uses, glass, txns>>
      /\ clock' \in 0..MaxClock
  <2>1. clock \in 0..MaxClock /\ MaxClock \in Nat
    BY AdminAuthAssumption DEF AdminInv, Bounds
  <2>2. ASSUME NEW o \in Operators, login_pending(o) \/ wrong_password(o)
        PROVE  UNCHANGED <<clock, accounts, keys, challenges, recovery, codes, factor, uses, glass, txns>>
    BY <2>2 DEF login_pending, wrong_password, factors
  <2>3. ASSUME NEW tok \in tokens, refuse_lapsed(tok) \/ refresh_session(tok)
        PROVE  UNCHANGED <<clock, accounts, keys, challenges, recovery, codes, factor, uses, glass, txns>>
    BY <2>3 DEF refuse_lapsed, refresh_session, factors
  <2>4. CASE expire_lapsed \/ purge_ended
    BY <2>1, <2>4 DEF expire_lapsed, purge_ended, factors
  <2>5. CASE Tick
    BY <2>1, <2>5 DEF Tick, factors
  <2> QED BY <2>1, <2>2, <2>3, <2>4, <2>5
<1>2. budget' \in [Classes -> Nat]
  <2>1. budget \in [Classes -> Nat] /\ "signin" \in Classes /\ "session" \in Classes
    BY DEF AdminInv, Bounds, Classes
  <2>2. ASSUME NEW o \in Operators, login_pending(o) \/ wrong_password(o)
        PROVE  budget' \in [Classes -> Nat]
    BY <2>1, <2>2 DEF login_pending, wrong_password
  <2>3. ASSUME NEW tok \in tokens, refuse_lapsed(tok) \/ refresh_session(tok)
        PROVE  budget' \in [Classes -> Nat]
    BY <2>1, <2>3 DEF refuse_lapsed, refresh_session
  <2>4. CASE expire_lapsed \/ purge_ended \/ Tick
    BY <2>1, <2>4 DEF expire_lapsed, purge_ended, Tick
  <2> QED BY <2>2, <2>3, <2>4
<1>3. ChallengeStep /\ RecoveryStep /\ CodeStep /\ GlassStep /\ OtherStep
  BY <1>1, Untouched
<1>4. uses' \in [Proofs -> {0, 1}] /\ UsedUp' /\ Slotted /\ Bounds'
  BY <1>1, <1>2, <1>3, StillUsedUp DEF Slotted, Bounds
<1>5. sessions \in [1..NumSessions -> OperatorSession] /\ clock \in Nat
  BY Reading DEF AdminInv, Tables
<1>6. SessionStep
  <2>1. CASE UNCHANGED sessions
    BY <2>1, Untouched
  <2>2. CASE \E tok \in tokens : refuse_lapsed(tok)
    <3>1. PICK s \in DOMAIN sessions \cup {None} : /\ s \in DOMAIN sessions => sessions[s].status # "absent"
                                    /\ sessions' = [sessions EXCEPT ![s].status = "ended"]
      <4>1. PICK tok \in tokens : refuse_lapsed(tok)
        BY <2>2
      <4>2. tok.sid \in 1..NumSessions
        BY <4>1 DEF refuse_lapsed, AdminInv, Bearer
      <4> QED BY <1>5, <4>1, <4>2 DEF refuse_lapsed
    <3> QED BY <1>5, <3>1, ZenonT(30) DEF SessionStep, OperatorSession
  <2>3. CASE \E tok \in tokens : refresh_session(tok)
    <3>1. PICK tok \in tokens : refresh_session(tok)
      BY <2>3
    <3>2. PICK s : s = tok.sid
      OBVIOUS
    <3>3. sessions' = [sessions EXCEPT ![s].seen = clock]
      BY <3>1, <3>2 DEF refresh_session
    <3> QED BY <1>5, <3>3 DEF SessionStep, OperatorSession
  <2>4. CASE expire_lapsed
    BY <1>5, <2>4 DEF expire_lapsed, SessionStep, OperatorSession
  <2>5. CASE purge_ended
    <3>1. PICK s \in DOMAIN sessions : sessions' = [sessions EXCEPT ![s].status = "purged"]
      BY <2>5 DEF purge_ended
    <3> QED BY <1>5, <3>1 DEF SessionStep, OperatorSession
  <2> QED BY <2>1, <2>2, <2>3, <2>4, <2>5 DEF login_pending, wrong_password, Tick
<1>7. TokenStep
  <2>1. CASE UNCHANGED tokens
    BY <2>1, Untouched
  <2>2. ASSUME NEW o \in Operators, login_pending(o) PROVE TokenStep
    <3>1. PICK new : new = PendingToken(o, accounts[o].gen)
      OBVIOUS
    <3>2. new.op = o /\ new.typ = "mfa_pending" /\ new.sid = None
      BY <3>1 DEF PendingToken
    <3>3. Bearer(new)'
      BY <3>2 DEF Bearer
    <3> QED BY <2>2, <3>1, <3>3 DEF login_pending, TokenStep
  <2>3. ASSUME NEW tok \in tokens, refresh_session(tok) PROVE TokenStep
    <3>1. PICK new : new = AccessToken(tok.op, accounts[tok.op].gen, tok.amr, tok.sua, tok.sid)
      OBVIOUS
    <3>2. new.op = tok.op /\ new.typ = "access" /\ new.sid = tok.sid /\ new.amr = tok.amr
      BY <3>1 DEF AccessToken
    <3>3. tok.typ = "access" /\ Bearer(tok)
      BY <2>3 DEF refresh_session, Accepted, AdminInv
    <3>4. Bearer(new)'
      BY <1>6, <3>2, <3>3 DEF Bearer, SessionStep
    <3> QED BY <2>3, <3>1, <3>4 DEF refresh_session, TokenStep
  <2> QED BY <2>1, <2>2, <2>3 DEF wrong_password, refuse_lapsed, expire_lapsed, purge_ended, Tick
<1> QED BY <1>3, <1>4, <1>6, <1>7, Written

-----------------------------------------------------------------------------
(* The invariant *)

\* The accounts, sessions and keys at the start.
LEMMA InitInv == Init => AdminInv
<1> SUFFICES ASSUME Init PROVE AdminInv
  OBVIOUS
<1>1. PICK no \in BOOLEAN : no = FALSE
  BY Zenon
<1>2. Tables
  <2>1. accounts \in [Operators -> Account] /\ factor \in [Operators -> {"none", "unverified", "verified"}]
    BY AdminAuthAssumption DEF Init
  <2>2. sessions \in [1..NumSessions -> OperatorSession]
    <3>1. sessions = [s \in 1..NumSessions |->
            IF s \in DOMAIN InitialSessions
            THEN [status |-> "live", op |-> InitialSessions[s], gen |-> 0, glass |-> no,
                  seen |-> 0, abs |-> Absolute]
            ELSE [status |-> "absent", op |-> None, gen |-> 0, glass |-> no, seen |-> 0, abs |-> 0]]
      BY <1>1 DEF Init, NoSession
    <3> QED BY <3>1, AdminAuthAssumption DEF OperatorSession
  <2>3. keys \in [1..NumKeys -> WebAuthnCredential]
    <3>1. keys = [k \in 1..NumKeys |->
            [op |-> IF k \in DOMAIN InitialKeys THEN InitialKeys[k] ELSE None, revoked |-> no]]
      BY <1>1 DEF Init
    <3> QED BY <3>1, AdminAuthAssumption DEF WebAuthnCredential
  <2>4. challenges \in [1..NumChallenges -> WebAuthnChallenge]
    <3>1. challenges = [c \in 1..NumChallenges |-> [op |-> None, purpose |-> "none", consumed |-> no, exp |-> 0]]
      BY <1>1 DEF Init
    <3> QED BY <3>1 DEF WebAuthnChallenge
  <2>5. recovery \in [1..NumRecovery -> MfaRecoveryCode]
    BY DEF Init, MfaRecoveryCode
  <2>6. codes \in [1..NumCodes -> MfaEmailCode]
    <3>1. codes = [c \in 1..NumCodes |-> [op |-> None, purpose |-> "none", attempts |-> 0, exp |-> 0,
                                          consumed |-> no, superseded |-> no]]
      BY <1>1 DEF Init
    <3> QED BY <3>1 DEF MfaEmailCode
  <2>7. /\ glass \in [secret : Nat, disabled : BOOLEAN,
                      activations : SUBSET (1..NumSessions), reviewed : SUBSET (1..NumSessions)]
        /\ glass.reviewed \subseteq glass.activations
    <3>1. glass = [secret |-> 1, disabled |-> no, activations |-> {}, reviewed |-> {}]
      BY <1>1 DEF Init
    <3> QED BY <3>1
  <2> QED BY <2>1, <2>2, <2>3, <2>4, <2>5, <2>6, <2>7 DEF Tables
<1>3. ASSUME NEW tok \in tokens PROVE Bearer(tok)
  <2>1. PICK s \in DOMAIN InitialSessions :
          tok = [typ |-> "access", op |-> InitialSessions[s], gen |-> 0, amr |-> {"pwd", "webauthn"},
                 sua |-> 0, sid |-> s, exp |-> TokenTtl]
    BY DEF Init
  <2>2. tok.typ = "access" /\ tok.op = InitialSessions[s] /\ tok.sid = s
    BY <2>1
  <2>3. s \in 1..NumSessions /\ InitialSessions[s] \in Operators
    BY AdminAuthAssumption
  <2>4. sessions[s] = [status |-> "live", op |-> InitialSessions[s], gen |-> 0, glass |-> no,
                       seen |-> 0, abs |-> Absolute]
    BY <1>1, <2>3 DEF Init
  <2>5. sessions[s].status = "live" /\ sessions[s].glass = no
    BY <2>4
  <2> QED BY <1>1, <2>2, <2>3, <2>5 DEF Bearer
<1>4. uses \in [Proofs -> {0, 1}] /\ UsedUp
  <2>1. uses = [p \in Proofs |-> 0]
    BY DEF Init
  <2>2. /\ \A c \in 1..NumChallenges : <<"challenge", c>> \in Proofs
        /\ \A r \in 1..NumRecovery : <<"recovery", r>> \in Proofs
        /\ \A c \in 1..NumCodes : <<"code", c>> \in Proofs
    BY DEF Proofs
  <2> QED BY <2>1, <2>2 DEF UsedUp
<1>5. Handlers
  <2>1. txns = [t \in Slots |-> Free]
    BY DEF Init
  <2> QED BY <2>1, FreeHandler DEF Handlers
<1>6. Bounds
  BY AdminAuthAssumption DEF Init, Bounds
<1> QED BY <1>2, <1>3, <1>4, <1>5, <1>6 DEF AdminInv

\* Every step of every handler, and of the clock and the sweep.
LEMMA StepInv == AdminInv /\ [Next]_vars => AdminInv'
<1> SUFFICES ASSUME AdminInv, [Next]_vars PROVE AdminInv'
  OBVIOUS
<1>1. CASE UNCHANGED vars
  <2>1. UNCHANGED <<clock, accounts, sessions, tokens, keys, challenges, recovery, codes, factor, glass, uses,
                    txns, budget>>
    BY <1>1 DEF vars, factors
  <2>2. SessionStep /\ TokenStep /\ ChallengeStep /\ RecoveryStep /\ CodeStep /\ GlassStep /\ OtherStep
    BY <2>1, Untouched
  <2>3. Bounds' /\ Slotted
    BY <2>1 DEF AdminInv, Bounds, Slotted
  <2> QED BY <2>1, <2>2, <2>3, StillUsedUp, Written
<1>2. CASE Reads
  BY <1>2, Loaded DEF Reads
<1>3. ASSUME NEW o \in Operators, login(o) \/ login_pending(o) \/ wrong_password(o) PROVE AdminInv'
  BY <1>2, <1>3, ReadAnonymous, Immediate
<1>4. ASSUME NEW tok \in tokens,
             \/ refuse_lapsed(tok)
             \/ issue_challenge(tok) \/ answer_challenge(tok) \/ revoke_credential(tok)
             \/ generate_recovery_codes(tok) \/ present_recovery_code(tok)
             \/ send_email_code(tok) \/ present_email_code(tok) \/ remove_email_factor(tok)
             \/ create_operator(tok) \/ change_operator_role(tok)
             \/ change_operator_disabled_state(tok) \/ change_platform_admin(tok)
             \/ change_script_permission(tok) \/ change_client_membership(tok)
             \/ revoke_tokens(tok) \/ reset_operator_mfa(tok)
             \/ revoke_sessions(tok) \/ refresh_session(tok)
             \/ provision_break_glass(tok) \/ review_break_glass_activation(tok)
      PROVE  AdminInv'
  BY <1>2, <1>4, ReadAccount, ReadFactor, ReadProof, ReadSession, Immediate
<1>5. CASE reset_password \/ activate_break_glass \/ expire_lapsed \/ purge_ended \/ Tick
  BY <1>2, <1>5, ReadAnonymous, Immediate
<1>6. ASSUME NEW t \in DOMAIN txns,
             \/ start_session(t) \/ store_challenge(t)
             \/ challenge_signin(t) \/ challenge_step_up(t) \/ challenge_register(t)
             \/ challenge_failed(t) \/ write_key_revoked(t)
             \/ write_recovery_codes(t) \/ complete_login_with_recovery_code(t) \/ recovery_code_gone(t)
             \/ store_email_code(t) \/ complete_login_with_email_code(t) \/ wrong_email_code(t)
             \/ write_factor_removed(t)
             \/ write_created(t) \/ write_role(t) \/ write_disabled(t) \/ write_platform(t)
             \/ write_script(t) \/ write_member(t) \/ write_tokens_revoked(t) \/ write_reset(t)
             \/ write_sessions_ended(t) \/ write_glass(t) \/ start_glass_session(t)
             \/ write_glass_reviewed(t) \/ Abort(t)
      PROVE  AdminInv'
  BY <1>6, AccountWrites, PlainWrites, ChallengeWrites, ChallengeStored, RecoveryStored, RecoveryAccepted,
     CodeStored, CodeAccepted, CodeRefused, GlassWrites
<1> QED BY <1>1, <1>3, <1>4, <1>5, <1>6 DEF Next

\* AdminInv holds in every state that is reached.
LEMMA Invariance == Spec => []AdminInv
<1> QED BY InitInv, StepInv, PTL DEF Spec

\* Every variable keeps its type, and only an access token names a session.
THEOREM TypeCorrect == Spec => []TypeOK
<1>1. AdminInv => TypeOK
  <2> SUFFICES ASSUME AdminInv PROVE TypeOK
    OBVIOUS
  <2>1. \A tok \in tokens : tok.op \in Operators /\ (tok.typ = "access") = (tok.sid # None)
    BY AdminAuthAssumption DEF AdminInv, Bearer
  <2>2. DOMAIN uses = Proofs /\ DOMAIN budget = Classes /\ clock \in 0..MaxClock
    BY DEF AdminInv, Bounds
  <2> QED BY <2>1, <2>2 DEF AdminInv, Tables, TypeOK
<1> QED BY <1>1, Invariance, PTL

\* A challenge, a recovery code and a mailed code are each accepted once, however
\* many requests present them at once (consume_challenge, consume_recovery_code,
\* consume_code).
THEOREM AcceptedOnce == Spec => []SecondFactorOnce
<1>1. AdminInv => SecondFactorOnce
  BY DEF AdminInv, SecondFactorOnce
<1> QED BY <1>1, Invariance, PTL

\* Whoever provisions emergency access is in an ordinary session, although the
\* handler reads the methods in the token (_refuse_break_glass_session).
THEOREM NoSelfExtension == Spec => []EmergencyNeverProvisions
<1>1. AdminInv => EmergencyNeverProvisions
  <2> SUFFICES ASSUME AdminInv, NEW t \in DOMAIN txns, txns[t].op \in Provisions
               PROVE  ~sessions[txns[t].tok.sid].glass
    BY DEF EmergencyNeverProvisions, Provisions
  <2>1. /\ txns[t].tok \in tokens /\ txns[t].tok.typ = "access" /\ "break_glass" \notin txns[t].tok.amr
    BY HandlerOf DEF Handler, Anonymous, Provisions
  <2> QED BY <2>1 DEF AdminInv, Bearer
<1> QED BY <1>1, Invariance, PTL

-----------------------------------------------------------------------------
(* The last administrator *)

\* Where more than one administrator is active, one is active besides any other.
LEMMA AnotherAdmin ==
  ASSUME NEW o, Cardinality(ActiveAdmins) > 1 PROVE \E x \in ActiveAdmins : x # o
<1> SUFFICES ASSUME ActiveAdmins \subseteq {o} PROVE FALSE
  OBVIOUS
<1>1. Cardinality({o}) = 1 /\ IsFiniteSet({o})
  BY FS_Singleton
<1>2. Cardinality(ActiveAdmins) <= 1 /\ Cardinality(ActiveAdmins) \in Nat
  BY <1>1, FS_Subset, FS_CardinalityType
<1> QED BY <1>2

\* The steps that do not write accounts.
LEMMA AccountsKept ==
  ASSUME AdminInv, [Next]_vars,
         ~\E t \in DOMAIN txns :
            \/ write_created(t) \/ write_role(t) \/ write_disabled(t) \/ write_platform(t)
            \/ write_script(t) \/ write_member(t) \/ write_tokens_revoked(t) \/ write_reset(t)
            \/ write_glass(t)
  PROVE  UNCHANGED accounts
<1>1. CASE UNCHANGED vars
  BY <1>1 DEF vars
<1>2. CASE Reads
  BY <1>2 DEF Reads, Load
<1>3. ASSUME NEW o \in Operators, login(o) \/ login_pending(o) \/ wrong_password(o)
      PROVE  UNCHANGED accounts
  <2>1. CASE login(o)
    BY <1>2, <2>1, ReadAnonymous
  <2>2. CASE login_pending(o) \/ wrong_password(o)
    BY <2>2 DEF login_pending, wrong_password
  <2> QED BY <1>3, <2>1, <2>2
<1>4. ASSUME NEW tok \in tokens,
             \/ refuse_lapsed(tok)
             \/ issue_challenge(tok) \/ answer_challenge(tok) \/ revoke_credential(tok)
             \/ generate_recovery_codes(tok) \/ present_recovery_code(tok)
             \/ send_email_code(tok) \/ present_email_code(tok) \/ remove_email_factor(tok)
             \/ create_operator(tok) \/ change_operator_role(tok)
             \/ change_operator_disabled_state(tok) \/ change_platform_admin(tok)
             \/ change_script_permission(tok) \/ change_client_membership(tok)
             \/ revoke_tokens(tok) \/ reset_operator_mfa(tok)
             \/ revoke_sessions(tok) \/ refresh_session(tok)
             \/ provision_break_glass(tok) \/ review_break_glass_activation(tok)
      PROVE  UNCHANGED accounts
  <2>1. CASE refuse_lapsed(tok) \/ refresh_session(tok)
    BY <2>1 DEF refuse_lapsed, refresh_session
  <2> QED BY <1>2, <1>4, <2>1, ReadAccount, ReadFactor, ReadProof, ReadSession
<1>5. CASE reset_password \/ activate_break_glass \/ expire_lapsed \/ purge_ended \/ Tick
  <2>1. CASE expire_lapsed \/ purge_ended \/ Tick
    BY <2>1 DEF expire_lapsed, purge_ended, Tick
  <2> QED BY <1>2, <1>5, <2>1, ReadAnonymous
<1>6. ASSUME NEW t \in DOMAIN txns,
             \/ start_session(t) \/ store_challenge(t) \/ write_key_revoked(t)
             \/ challenge_signin(t) \/ challenge_step_up(t) \/ challenge_register(t)
             \/ challenge_failed(t)
      PROVE  UNCHANGED accounts
  BY <1>6 DEF start_session, store_challenge, challenge_signin, challenge_step_up, challenge_register,
              challenge_failed, write_key_revoked
<1>7. ASSUME NEW t \in DOMAIN txns,
             \/ write_recovery_codes(t) \/ complete_login_with_recovery_code(t) \/ recovery_code_gone(t)
             \/ store_email_code(t) \/ complete_login_with_email_code(t) \/ wrong_email_code(t)
             \/ write_factor_removed(t)
      PROVE  UNCHANGED accounts
  BY <1>7 DEF write_recovery_codes, complete_login_with_recovery_code, recovery_code_gone, store_email_code,
              complete_login_with_email_code, wrong_email_code, write_factor_removed
<1>8. ASSUME NEW t \in DOMAIN txns,
             \/ write_sessions_ended(t) \/ start_glass_session(t) \/ write_glass_reviewed(t) \/ Abort(t)
      PROVE  UNCHANGED accounts
  BY <1>8 DEF write_sessions_ended, start_glass_session, write_glass_reviewed, Abort
<1> QED BY <1>1, <1>3, <1>4, <1>5, <1>6, <1>7, <1>8 DEF Next

\* A change of one account that leaves its role and its state alone, or leaves
\* another administrator, or makes one, keeps an active administrator.
LEMMA OneAccount ==
  ASSUME AdminInv, NEW a \in Operators, ActiveAdmins # {}, accounts' = [accounts EXCEPT ![a] = accounts'[a]],
         \/ accounts'[a].role = accounts[a].role /\ accounts'[a].disabled = accounts[a].disabled
         \/ a \notin ActiveAdmins
         \/ Cardinality(ActiveAdmins) > 1
         \/ accounts'[a].role = "admin" /\ ~accounts'[a].disabled
  PROVE  \E o \in Operators : accounts'[o].role = "admin" /\ ~accounts'[o].disabled
<1>1. accounts \in [Operators -> Account]
  BY DEF AdminInv, Tables
<1>2. ASSUME NEW o \in Operators, o # a PROVE accounts'[o] = accounts[o]
  BY <1>1, <1>2
<1>3. PICK x \in ActiveAdmins : TRUE
  OBVIOUS
<1>4. CASE accounts'[a].role = accounts[a].role /\ accounts'[a].disabled = accounts[a].disabled
  BY <1>2, <1>3, <1>4 DEF ActiveAdmins
<1>5. CASE a \notin ActiveAdmins
  BY <1>2, <1>3, <1>5 DEF ActiveAdmins
<1>6. CASE Cardinality(ActiveAdmins) > 1
  <2>1. PICK y \in ActiveAdmins : y # a
    BY <1>6, AnotherAdmin
  <2> QED BY <1>2, <2>1 DEF ActiveAdmins
<1> QED BY <1>4, <1>5, <1>6

\* What the commit of a role or of a disabled state read is still so.
LEMMA NotStale ==
  ASSUME AdminInv, NEW t \in DOMAIN txns, ~StaleCommit, txns[t].op \in {"role", "disabled"}, Done(t)
  PROVE  /\ txns[t].seen.role = accounts[txns[t].on].role
         /\ txns[t].seen.disabled = accounts[txns[t].on].disabled
<1>1. txns'[t] = Free
  BY DEF Done
<1>2. <<txns[t].seen.role, txns[t].seen.disabled>>
        = <<accounts[txns[t].on].role, accounts[txns[t].on].disabled>>
  BY <1>1 DEF StaleCommit
<1> QED BY <1>2

\* The commits over an account leave an active administrator.
LEMMA AdminLeft ==
  ASSUME AdminInv, NEW t \in DOMAIN txns, ActiveAdmins # {}, ~StaleCommit,
         ~(txns[t].op = "glass_disable" /\ txns'[t] = Free),
         \/ write_created(t) \/ write_role(t) \/ write_disabled(t) \/ write_platform(t)
         \/ write_script(t) \/ write_member(t) \/ write_tokens_revoked(t) \/ write_reset(t)
         \/ write_glass(t)
  PROVE  \E o \in Operators : accounts'[o].role = "admin" /\ ~accounts'[o].disabled
<1>1. Handler(txns[t]) /\ accounts \in [Operators -> Account]
  BY HandlerOf DEF AdminInv, Tables
<1>2. txns[t].on \in Operators
  BY <1>1 DEF Handler, OfRows, Provisions, write_created, write_role, write_disabled, write_platform,
              write_script, write_member, write_tokens_revoked, write_reset, write_glass
<1>3. PICK o \in Operators : o = txns[t].on
  BY <1>2
<1>4. PICK row : row = txns[t].row
  OBVIOUS
<1>5. PICK gen : gen = txns[t].seen.gen + 1
  OBVIOUS
<1>6. CASE write_created(t)
  <2>1. o \notin ActiveAdmins
    BY <1>3, <1>6 DEF write_created, ActiveAdmins
  <2>2. PICK new : new = [NoAccount EXCEPT !.role = "operator"]
    OBVIOUS
  <2>3. accounts' = [accounts EXCEPT ![o] = new]
    BY <1>3, <1>6, <2>2 DEF write_created
  <2>4. accounts' = [accounts EXCEPT ![o] = accounts'[o]]
    BY <1>1, <2>3
  <2> QED BY <2>1, <2>4, OneAccount
<1>7. CASE write_role(t)
  <2>1. PICK script : script = (accounts[o].script /\ row # "readonly")
    OBVIOUS
  <2>2. accounts' = [accounts EXCEPT ![o].role = row, ![o].script = script, ![o].gen = gen]
    BY <1>3, <1>4, <1>5, <1>7, <2>1 DEF write_role
  <2>3. /\ accounts' = [accounts EXCEPT ![o] = accounts'[o]]
        /\ accounts'[o].role = row /\ accounts'[o].disabled = accounts[o].disabled
    BY <1>1, <2>2 DEF Account
  <2>4. /\ txns[t].seen.role = accounts[o].role /\ txns[t].seen.disabled = accounts[o].disabled
        /\ row = "admin" \/ _require_another_active_admin(t)
    BY <1>3, <1>4, <1>7, NotStale DEF write_role
  <2>5. row = "admin" \/ o \notin ActiveAdmins \/ Cardinality(ActiveAdmins) > 1
    BY <2>4 DEF _require_another_active_admin, ActiveAdmins
  <2>6. CASE row = "admin" /\ o \in ActiveAdmins
    BY <2>3, <2>6 DEF ActiveAdmins
  <2> QED BY <2>3, <2>5, <2>6, OneAccount
<1>8. CASE write_disabled(t)
  <2>1. PICK disabled : disabled = ~txns[t].seen.disabled
    OBVIOUS
  <2>2. accounts' = [accounts EXCEPT ![o].disabled = disabled, ![o].gen = gen]
    BY <1>3, <1>5, <1>8, <2>1 DEF write_disabled
  <2>3. accounts' = [accounts EXCEPT ![o] = accounts'[o]]
    BY <1>1, <2>2
  <2>4. /\ txns[t].seen.role = accounts[o].role /\ txns[t].seen.disabled = accounts[o].disabled
        /\ txns[t].seen.disabled \/ _require_another_active_admin(t)
    BY <1>3, <1>8, NotStale DEF write_disabled
  <2>5. o \notin ActiveAdmins \/ Cardinality(ActiveAdmins) > 1
    BY <2>4 DEF _require_another_active_admin, ActiveAdmins
  <2> QED BY <2>3, <2>5, OneAccount
<1>9. CASE write_platform(t) \/ write_script(t) \/ write_member(t) \/ write_tokens_revoked(t) \/ write_reset(t)
  <2>1. PICK flag, other : flag = ~txns[t].seen.platform /\ other = ~txns[t].seen.script
    OBVIOUS
  <2>2. PICK member : member = ~txns[t].seen.member
    OBVIOUS
  <2>3. \/ accounts' = [accounts EXCEPT ![o].platform = flag, ![o].gen = gen]
        \/ accounts' = [accounts EXCEPT ![o].script = other]
        \/ accounts' = [accounts EXCEPT ![o].member = member, ![o].gen = gen]
        \/ accounts' = [accounts EXCEPT ![o].gen = gen]
    BY <1>3, <1>5, <1>9, <2>1, <2>2 DEF write_platform, write_script, write_member, write_tokens_revoked,
                                        write_reset
  <2>4. /\ accounts' = [accounts EXCEPT ![o] = accounts'[o]]
        /\ accounts'[o].role = accounts[o].role /\ accounts'[o].disabled = accounts[o].disabled
    BY <1>1, <2>3 DEF Account
  <2> QED BY <2>4, OneAccount
<1>10. CASE write_glass(t)
  <2>1. txns[t].op # "glass_disable"
    BY <1>10 DEF write_glass, Done
  <2>2. PICK no, yes : no = FALSE /\ yes = TRUE
    BY Zenon
  <2>3. PICK new : new = [NoAccount EXCEPT !.role = "admin", !.platform = TRUE]
    OBVIOUS
  <2>4. accounts' = [accounts EXCEPT ![Emergency] = new] \/ UNCHANGED accounts
    BY <1>10, <2>1, <2>3 DEF write_glass
  <2>5. Emergency \in Operators /\ new.role = "admin" /\ new.disabled = no
    <3>1. NoAccount = [role |-> "absent", disabled |-> no, platform |-> no, member |-> no,
                       script |-> no, gen |-> 0]
      BY <2>2 DEF NoAccount
    <3>2. new = [NoAccount EXCEPT !.role = "admin", !.platform = yes]
      BY <2>2, <2>3
    <3> QED BY <3>1, <3>2 DEF Operators
  <2>6. CASE accounts' = [accounts EXCEPT ![Emergency] = new]
    <3>1. accounts'[Emergency] = new
      BY <1>1, <2>5, <2>6
    <3> QED BY <2>2, <2>5, <3>1
  <2> QED BY <2>4, <2>6 DEF ActiveAdmins
<1> QED BY <1>6, <1>7, <1>8, <1>9, <1>10

\* Requests at once never take away the last active administrator, unless one
\* commits over a target that changed since it read it
\* (_require_another_active_admin counts under the audit lock).
THEOREM AnAdminRemains == Spec => AdminRemains
<1>1. AdminInv /\ [Next]_vars =>
        [(/\ ActiveAdmins # {} /\ ~StaleCommit
          /\ ~\E t \in DOMAIN txns : txns[t].op = "glass_disable" /\ txns'[t] = Free) =>
            \E o \in Operators : accounts'[o].role = "admin" /\ ~accounts'[o].disabled]_vars
  <2> SUFFICES ASSUME AdminInv, [Next]_vars, ActiveAdmins # {}, ~StaleCommit,
                      ~\E t \in DOMAIN txns : txns[t].op = "glass_disable" /\ txns'[t] = Free
               PROVE  \E o \in Operators : accounts'[o].role = "admin" /\ ~accounts'[o].disabled
    OBVIOUS
  <2>1. CASE UNCHANGED accounts
    BY <2>1 DEF ActiveAdmins
  <2> QED BY <2>1, AccountsKept, AdminLeft
<1> QED BY <1>1, Invariance, PTL DEF Spec, AdminRemains
=============================================================================
