-------------------------- MODULE CommandContract --------------------------
(***************************************************************************)
(* What an operator may rely on when a command is issued, whatever happens *)
(* on the way: it runs at most once and only while its answer is open, and *)
(* it is answered at most once, with the truth.  The details are those of  *)
(* CommandDelivery, which implements this specification.                   *)
(***************************************************************************)
CONSTANTS
  Cmds,
  Outcomes       \* what a process that ran returns

VARIABLES
  ran,           \* what the command's process returned, or "none"
  answer         \* "unissued", "open", or what is recorded for good

contractVars == <<ran, answer>>

Denials == {"refused", "expired"}      \* it has not run, and never will
Answers == Outcomes \cup Denials \cup {"unknown"}

Init ==
  /\ ran = [c \in Cmds |-> "none"]
  /\ answer = [c \in Cmds |-> "unissued"]

Issue(c) ==
  /\ answer[c] = "unissued"
  /\ answer' = [answer EXCEPT ![c] = "open"]
  /\ UNCHANGED ran

Run(c) ==
  /\ answer[c] = "open" /\ ran[c] = "none"
  /\ \E o \in Outcomes : ran' = [ran EXCEPT ![c] = o]
  /\ UNCHANGED answer

\* Nothing is known of a process that was interrupted.
Answer(c) ==
  /\ answer[c] = "open"
  /\ \E a \in Answers :
       /\ a \in Outcomes => ran[c] = a
       /\ a \in Denials => ran[c] = "none"
       /\ answer' = [answer EXCEPT ![c] = a]
  /\ UNCHANGED ran

\* A heartbeat may write several rows off at once.
Expire == \E S \in (SUBSET Cmds) \ {{}} :
  /\ \A c \in S : answer[c] = "open" /\ ran[c] = "none"
  /\ answer' = [c \in Cmds |-> IF c \in S THEN "expired" ELSE answer[c]]
  /\ UNCHANGED ran

Next == Expire \/ \E c \in Cmds : Issue(c) \/ Run(c) \/ Answer(c)

Spec == Init /\ [][Next]_contractVars
=============================================================================
