---------------------------- MODULE SupportChat ----------------------------
(***************************************************************************)
(* Support conversations between the user of an endpoint and technicians   *)
(* (server/app/core/support_chat.py, api/support_chat.py), and the launch  *)
(* link the heartbeat hands out (api/agents.py).                           *)
(*                                                                         *)
(* A conversation is reached with one bearer token, of which the row holds *)
(* the hash.  Handlers lock the rows they work on; the two kinds that hold *)
(* a lock across other work, opening and the heartbeat, are two steps, and *)
(* every other handler is one step that needs the row to be unlocked.      *)
(* Rate limits and message bodies are left out.                            *)
(***************************************************************************)
EXTENDS Integers, Sequences, FiniteSets

CONSTANTS
  Chats,           \* conversation ids
  MaxMessages,     \* support_chat_max_messages
  Budgets,         \* the instances: how often each kind of step happens
  None

ASSUME ChatAssumption == None \notin [kind : {"random", "launch"}, epoch : Nat]

VARIABLES
  chats,
  issued,          \* tokens handed to somebody: [chat, token]
  opening,         \* handlers that hold the lock of the endpoint's row
  beat,            \* the conversation a heartbeat has locked, as it read it
  trusted,         \* the endpoint's trust state is active
  budget

chatVars == <<chats, issued, opening, beat>>

Spend(class) == /\ budget.ops[class] > 0
                /\ budget' = [budget EXCEPT !.ops[class] = @ - 1]

SupportConversationStatus == {"absent", "open", "closed", "pruned"}
SupportParty == {"end_user", "technician"}

\* The row; epoch stands for token_expires_at.  A launch token is a function of
\* the conversation and that time, every other token is random.
SupportConversation == [status |-> "absent", by |-> None, epoch |-> 0, lapsed |-> FALSE,
                        token |-> None, notice |-> FALSE, messages |-> <<>>]

NoBeat == [chat |-> None, row |-> SupportConversation]

ChatInit ==
  /\ chats = [c \in Chats |-> SupportConversation]
  /\ issued = {} /\ opening = {} /\ beat = NoBeat
  /\ trusted = TRUE

OpenChats == {c \in Chats : chats[c].status = "open"}
Locked(c) == beat.chat = c \/ \E o \in opening : o.chat = c

rotate(row) ==
  [row EXCEPT !.epoch = @ + 1, !.lapsed = FALSE,
              !.token = [kind |-> "random", epoch |-> row.epoch + 1]]

technician_launch_url(row) ==
  LET epoch == IF row.lapsed THEN row.epoch + 1 ELSE row.epoch
  IN  [row EXCEPT !.epoch = epoch, !.lapsed = FALSE, !.token = [kind |-> "launch", epoch |-> epoch]]

Issue(c, row) == issued' = issued \cup {[chat |-> c, token |-> row.token]}

(***************************************************************************)
(* Opening: the endpoint's row is locked first, then the open conversation *)
(***************************************************************************)
TakeAgentLock == opening = {}

open_load(by) ==
  /\ Spend("chat")
  /\ trusted
  /\ TakeAgentLock
  /\ \A c \in OpenChats : ~Locked(c)
  /\ opening' = opening \cup
       {[by |-> by, chat |-> IF OpenChats = {} THEN None ELSE CHOOSE c \in OpenChats : TRUE]}
  /\ UNCHANGED <<chats, issued, beat, trusted>>

open_conversation(o, c) ==
  LET row == rotate([chats[c] EXCEPT !.status = "open", !.notice = FALSE,
                                     !.by = IF o.chat = None THEN "end_user" ELSE @])
  IN  /\ o.by = "end_user"
      /\ chats' = [chats EXCEPT ![c] = row]
      /\ Issue(c, row)

\* An open conversation is returned as it is; a new one gets a launch token,
\* which the heartbeat hands out.
open_technician_conversation(o, c) ==
  /\ o.by = "technician"
  /\ chats' = IF o.chat # None THEN chats
              ELSE [chats EXCEPT ![c] = technician_launch_url(
                      rotate([@ EXCEPT !.status = "open", !.by = "technician"]))]
  /\ UNCHANGED issued

open_commit == \E o \in opening, c \in Chats :
  /\ IF o.chat = None THEN chats[c].status = "absent" ELSE c = o.chat
  /\ open_conversation(o, c) \/ open_technician_conversation(o, c)
  /\ opening' = opening \ {o}
  /\ UNCHANGED <<beat, trusted, budget>>

(***************************************************************************)
(* The heartbeat: a conversation a technician opened is launched on the    *)
(* endpoint until its user has acknowledged the notice                     *)
(***************************************************************************)
launches(c) == /\ chats[c].status = "open" /\ chats[c].by = "technician"
               /\ ~chats[c].notice

heartbeat_load == \E c \in Chats :
  /\ Spend("beat")
  /\ trusted
  /\ beat.chat = None /\ ~Locked(c)
  /\ launches(c)
  /\ beat' = [chat |-> c, row |-> chats[c]]
  /\ UNCHANGED <<chats, issued, opening, trusted>>

\* Of the row only the token and its expiry are written.
heartbeat_commit ==
  LET row == technician_launch_url(beat.row) IN
  /\ beat.chat # None
  /\ chats' = [chats EXCEPT ![beat.chat].token = row.token, ![beat.chat].epoch = row.epoch,
                            ![beat.chat].lapsed = FALSE]
  /\ Issue(beat.chat, row)
  /\ beat' = NoBeat
  /\ UNCHANGED <<opening, trusted, budget>>

(***************************************************************************)
(* The user's page, with a token                                           *)
(***************************************************************************)
verify(c, token) == chats[c].token = token /\ ~chats[c].lapsed

authorized(c) ==
  /\ Spend("page")
  /\ ~Locked(c)
  /\ \E i \in issued : i.chat = c /\ verify(c, i.token)
  /\ trusted
  /\ UNCHANGED <<opening, beat, trusted>>

notice(c) ==
  /\ authorized(c)
  /\ chats[c].status = "open" /\ ~chats[c].notice
  /\ chats' = [chats EXCEPT ![c].notice = TRUE]
  /\ UNCHANGED issued

refresh(c) ==
  /\ authorized(c)
  /\ chats[c].status = "open"
  /\ chats' = [chats EXCEPT ![c] = rotate(@)]
  /\ Issue(c, chats'[c])

append_message(c, sender) ==
  /\ chats[c].status = "open"
  /\ sender = "end_user" => chats[c].notice
  /\ Len(chats[c].messages) < MaxMessages
  /\ chats' = [chats EXCEPT ![c].messages = Append(@, [sender |-> sender, read |-> FALSE])]
  /\ UNCHANGED issued

send(c) == authorized(c) /\ append_message(c, "end_user")

(***************************************************************************)
(* Technicians                                                             *)
(***************************************************************************)
_visible_conversation(c) ==
  /\ Spend("technician")
  /\ chats[c].status \in {"open", "closed"} /\ ~Locked(c)
  /\ UNCHANGED <<opening, beat, trusted>>

reply(c) == _visible_conversation(c) /\ append_message(c, "technician")

\* Every end-user message of the transcript, marked read; a reply stays as it is.
Seen(messages) ==
  [i \in DOMAIN messages |->
     [sender |-> messages[i].sender,
      read   |-> messages[i].read \/ messages[i].sender = "end_user"]]

transcript(c) ==
  /\ _visible_conversation(c)
  /\ \E i \in DOMAIN chats[c].messages :
       chats[c].messages[i] = [sender |-> "end_user", read |-> FALSE]
  /\ chats' = [chats EXCEPT ![c].messages = Seen(chats[c].messages)]
  /\ UNCHANGED issued

Mutclose_conversation(c) ==
  /\ Spend("technician")
  /\ chats[c].status = "open"
  /\ chats' = [chats EXCEPT ![c].status = "closed", ![c].token = None]
  /\ UNCHANGED <<opening, beat, trusted, issued>>
close_conversation(c) ==
  /\ _visible_conversation(c)
  /\ chats[c].status = "open"
  /\ chats' = [chats EXCEPT ![c].status = "closed", ![c].token = None]
  /\ UNCHANGED issued

_prune_support_chat(c) ==
  /\ Spend("prune")
  /\ chats[c].status = "closed" /\ ~Locked(c)
  /\ chats' = [chats EXCEPT ![c] = [SupportConversation EXCEPT !.status = "pruned"]]
  /\ UNCHANGED <<issued, opening, beat, trusted>>

\* The token's time to live passes.
lapses(c) ==
  /\ Spend("lapse")
  /\ chats[c].status = "open" /\ ~chats[c].lapsed
  /\ chats' = [chats EXCEPT ![c].lapsed = TRUE]
  /\ UNCHANGED <<issued, opening, beat, trusted>>

ChatNext ==
  \/ \E by \in SupportParty : open_load(by)
  \/ open_commit \/ heartbeat_load \/ heartbeat_commit
  \/ \E c \in Chats : \/ notice(c) \/ refresh(c) \/ send(c)
                      \/ reply(c) \/ transcript(c) \/ close_conversation(c)
                      \/ _prune_support_chat(c) \/ lapses(c)

----------------------------------------------------------------------------

(* A conversation that is closed can no longer be reached: no token anybody was
   handed opens it, even one a heartbeat was renewing while it was closed. *)
ClosedChatShut ==
  \A i \in issued : chats[i.chat].status # "open" => ~verify(i.chat, i.token)
=============================================================================
