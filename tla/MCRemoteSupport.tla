-------------------------- MODULE MCRemoteSupport --------------------------
(* One endpoint and two operators: instances with sessions that overlap, that
   lose answers and processes, and instances with conversations. *)
EXTENDS ShellSession

Ops(open, input, output, close, fault, trust, talk, tech) ==
  [open |-> open, input |-> input, output |-> output, close |-> close, fault |-> fault,
   trust |-> trust, chat |-> talk, beat |-> talk, page |-> talk + tech, technician |-> tech,
   lapse |-> IF talk > 0 THEN 1 ELSE 0, prune |-> IF talk > 0 THEN 1 ELSE 0]
MCBudgets ==
  {[handlers |-> 2, clock |-> 2, ops |-> Ops(1, 2, 0, 0, 1, 0, 0, 0)],
   [handlers |-> 2, clock |-> 2, ops |-> Ops(1, 0, 3, 0, 2, 0, 0, 0)],
   [handlers |-> 2, clock |-> 2, ops |-> Ops(2, 0, 0, 2, 0, 0, 0, 0)],
   [handlers |-> 2, clock |-> 2, ops |-> Ops(1, 0, 1, 0, 1, 1, 0, 0)],
   [handlers |-> 0, clock |-> 0, ops |-> Ops(0, 0, 0, 0, 0, 1, 2, 1)]}
=============================================================================
