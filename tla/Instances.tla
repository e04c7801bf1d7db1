----------------------------- MODULE Instances -----------------------------
(***************************************************************************)
(* The instances a model is checked on.  A budget says how often each      *)
(* class of steps that nothing else bounds may happen: what administrators *)
(* ask for, faults, losses.  One run checks several budgets, each chosen   *)
(* for the steps that interact.                                            *)
(***************************************************************************)
EXTENDS Integers

CONSTANTS Budgets, None

VARIABLE budget

Spend(class) == /\ budget.ops[class] > 0
                /\ budget' = [budget EXCEPT !.ops[class] = @ - 1]
=============================================================================
