---------------------------- MODULE MCAdminAuth ----------------------------
(* ann administers and holds a security key, bob is an operator without one,
   cyd has no account yet, eve stands for the break-glass identity.  Five instances: changes of
   accounts, sign-ins with second factors, emergency access. *)
EXTENDS AdminAuth, TLC

CONSTANTS ann, bob, cyd, eve, t1, t2

MCSlots  == {t1, t2}
Symmetry == Permutations(MCSlots)

Admin == [NoAccount EXCEPT !.role = "admin", !.platform = TRUE]
MCInitialAccount == [o \in {ann, bob, cyd, eve} |->
  CASE o = bob -> [NoAccount EXCEPT !.role = "operator"]
    [] o = cyd -> NoAccount
    [] OTHER   -> Admin]
MCInitialKeys     == <<ann, ann>>
MCInitialSessions == <<ann>>
MCInitialFactor   == [o \in {ann, bob, cyd, eve} |-> IF o = ann THEN "verified" ELSE "none"]

None0 == [c \in Classes |-> 0]
MCBudgets == {[None0 EXCEPT !["edit"] = 3],
              [None0 EXCEPT !["signin"] = 3, !["factor"] = 1],
              [None0 EXCEPT !["factor"] = 2],
              [None0 EXCEPT !["edit"] = 1, !["signin"] = 1, !["session"] = 1],
              [None0 EXCEPT !["glass"] = 2, !["session"] = 1]}
=============================================================================
