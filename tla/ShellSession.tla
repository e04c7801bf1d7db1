---------------------------- MODULE ShellSession ----------------------------
(***************************************************************************)
(* Interactive shell sessions: the rows and their lifecycle                *)
(* (server/app/api/shell_sessions.py, the sweeper of core/tasks.py), the   *)
(* relay that carries the frames (core/shell_relay.py), the endpoint's     *)
(* loop (agent/internal/service/shell_session.go) and the operator's panel *)
(* (dashboard/src/components/shell-session-panel.tsx).                     *)
(*                                                                         *)
(* The relay is memory of the server process and is lost with it; the row  *)
(* is written at the end of a handler.  A handler is therefore a first     *)
(* step, which reads the row and changes the relay, and a commit, with the *)
(* answer, which may be lost.  A frame is one byte.  An answer that only   *)
(* makes the caller wait and try again is no step.                         *)
(***************************************************************************)
EXTENDS SupportChat

CONSTANTS
  Sessions,        \* session ids
  Operators,
  Inputs,          \* what may be typed in a frame
  MaxConcurrent,   \* shell_session_max_concurrent_per_agent
  BufferFrames,    \* shell_session_relay_max_frames
  ReadLimit,       \* frames a read answers with at most
  OutputLimit,     \* shell_session_output_byte_limit
  IdleTimeout, MaxLifetime,
  RetryWindow,     \* sequence numbers whose digest is kept behind the acknowledged one
  MaxShells        \* bounds the shells the endpoint starts

ASSUME ShellAssumption ==
  /\ None \notin Sessions
  /\ {IdleTimeout, MaxLifetime, RetryWindow, ReadLimit} \subseteq Nat

VARIABLES
  now,
  sessions,
  relays,
  handlers,        \* handlers between their first step and their commit
  agent,           \* the endpoint's process and the shell it runs
  panels           \* Operators -> the operator's page

shellVars == <<now, sessions, relays, handlers, agent, panels>>
vars == <<chatVars, shellVars, trusted, budget>>

_LIVE_STATES == {"pending", "active"}
_TERMINAL_STATES == {"closed", "timed_out", "failed"}

Row == [status |-> "absent", owner |-> None, idle |-> 0, absolute |-> 0, born |-> 0,
        client_last_seq |-> 0, agent_last_seq |-> 0, bytes |-> 0]
NoRelay == [up |-> FALSE]
Idle(n) == [on |-> None, gen |-> n, fails |-> FALSE, base |-> 0, outputSeq |-> 0, after |-> 0, got |-> <<>>]
NoPanel == [on |-> None, said |-> <<>>, inputSeq |-> 0, start |-> 0, screen |-> <<>>]

Init ==
  /\ budget \in Budgets
  /\ ChatInit
  /\ now = 0
  /\ sessions = [s \in Sessions |-> Row]
  /\ relays = [s \in Sessions |-> NoRelay]
  /\ handlers = {}
  /\ agent = Idle(0)
  /\ panels = [o \in Operators |-> NoPanel]

Live == {s \in Sessions : sessions[s].status \in _LIVE_STATES}
Oldest == CHOOSE s \in Live : \A r \in Live : sessions[s].born <= sessions[r].born

_touch(row) ==
  [row EXCEPT !.idle = IF now + IdleTimeout < row.absolute THEN now + IdleTimeout ELSE row.absolute]

(***************************************************************************)
(* The relay                                                               *)
(***************************************************************************)
_Direction(start) == [last |-> start, sent |-> start, evicted |-> start,
                      frames |-> <<>>, digests |-> <<>>]

create(inputSeq, outputSeq) ==
  [up |-> TRUE, closed |-> FALSE, input |-> _Direction(inputSeq), output |-> _Direction(outputSeq)]

\* The answers of a full buffer and of a closed relay are the callers'.
Mutappend(dir, frame) ==
  CASE frame.seq # dir.last + 1 /\ frame.seq # dir.last -> "conflict"
    [] Len(dir.frames) >= BufferFrames -> "full"
    [] OTHER -> "accepted"
append(dir, frame) ==
  CASE frame.seq <= dir.last /\ frame \in {dir.digests[i] : i \in DOMAIN dir.digests} -> "repeated"
    [] frame.seq # dir.last + 1 -> "conflict"
    [] Len(dir.frames) >= BufferFrames -> "full"
    [] OTHER -> "accepted"

Appended(dir, frame) ==
  [dir EXCEPT !.last = frame.seq, !.frames = Append(@, frame), !.digests = Append(@, frame)]

\* What is left when the frames up to a number are dropped. Their numbers
\* ascend, so dropping from the left and filtering are the same.
Past(frames, seq) ==
  LET gone == CHOOSE k \in 0..Len(frames) :
                /\ \A i \in 1..k : frames[i].seq <= seq
                /\ k < Len(frames) => frames[k + 1].seq > seq
  IN  SubSeq(frames, gone + 1, Len(frames))

acknowledge(dir, ack) ==
  LET kept == Past(dir.frames, ack) IN
  [dir EXCEPT !.frames = kept,
              !.evicted = IF Len(kept) = Len(dir.frames) THEN dir.evicted
                          ELSE dir.frames[Len(dir.frames) - Len(kept)].seq,
              !.digests = Past(dir.digests, ack - RetryWindow - 1)]

Refused(dir, after, ack) == ack > dir.sent \/ after > dir.last \/ after < acknowledge(dir, ack).evicted
Prefix(frames, limit) == SubSeq(frames, 1, IF Len(frames) < limit THEN Len(frames) ELSE limit)
After(dir, after) == Prefix(Past(dir.frames, after), ReadLimit)

\* The direction after a read; whether the answer arrives is the caller's.
read(dir, after, ack) ==
  LET kept == acknowledge(dir, ack)
      batch == After(kept, after)
  IN  [kept EXCEPT !.sent = IF batch = <<>> \/ batch[Len(batch)].seq < @ THEN @
                            ELSE batch[Len(batch)].seq]

CloseRelays(S) == relays' = [s \in Sessions |-> IF s \in S /\ relays[s].up
                                                THEN [relays[s] EXCEPT !.closed = TRUE] ELSE relays[s]]

Serving(s) == relays[s].up /\ ~relays[s].closed

(***************************************************************************)
(* Handlers                                                                *)
(***************************************************************************)
Room == Cardinality(handlers) < budget.handlers
Start(h) == handlers' = handlers \cup {h}
Ends(h) == handlers' = handlers \ {h}

\* The operator's page takes the session it was answered with.
Shown(o, s, row) ==
  panels' = [panels EXCEPT ![o] =
    [NoPanel EXCEPT !.on = s, !.inputSeq = row.client_last_seq,
                    !.start = IF row.status = "active" THEN row.agent_last_seq ELSE 0]]

\* Refusals (approval, trust, capability, another's session) change no session.
open_shell_session_load(o) ==
  /\ Spend("open") /\ Room
  /\ trusted
  /\ \/ /\ Live # {} /\ sessions[Oldest].owner = o
        /\ Shown(o, Oldest, sessions[Oldest])
        /\ UNCHANGED <<relays, handlers>>
     \/ /\ Live # {} => sessions[Oldest].owner # o
        /\ Cardinality(Live) < MaxConcurrent
        /\ now + MaxLifetime <= budget.clock
        /\ \E s \in Sessions :
             /\ sessions[s].status = "absent" /\ ~relays[s].up
             /\ relays' = [relays EXCEPT ![s] = create(0, 0)]
             /\ Start([op |-> "open", on |-> s, by |-> o, at |-> now])
        /\ UNCHANGED panels
  /\ UNCHANGED <<now, sessions, agent, trusted, chatVars>>

open_shell_session(h) == \E answered \in BOOLEAN :
  LET row == [Row EXCEPT !.status = "pending", !.owner = h.by, !.born = h.at,
                         !.absolute = h.at + MaxLifetime, !.idle = h.at + IdleTimeout]
  IN  /\ h.op = "open" /\ Ends(h)
      /\ sessions' = [sessions EXCEPT ![h.on] = row]
      /\ IF answered THEN Shown(h.by, h.on, row) ELSE UNCHANGED panels
      /\ UNCHANGED <<now, relays, agent, trusted, budget, chatVars>>

\* The same line again, or another one, under the number the last answer confirmed.
send_shell_input_load(o) == \E text \in Inputs :
  LET s == panels[o].on
      frame == [seq |-> panels[o].inputSeq + 1, text |-> text]
  IN  /\ Spend("input") /\ Room
      /\ s # None
      /\ sessions[s].owner = o /\ sessions[s].status \in _LIVE_STATES
      /\ Serving(s)
      /\ append(relays[s].input, frame) \in {"accepted", "repeated"}
      /\ relays' = IF append(relays[s].input, frame) = "repeated" THEN relays
                   ELSE [relays EXCEPT ![s].input = Appended(@, frame)]
      /\ Start([op |-> "input", on |-> s, by |-> o, frame |-> frame,
                accepted |-> append(relays[s].input, frame) = "accepted"])
      /\ UNCHANGED <<now, sessions, agent, panels, trusted, chatVars>>

send_shell_input(h) == \E answered \in BOOLEAN :
  /\ h.op = "input" /\ Ends(h)
  /\ sessions' = IF ~h.accepted THEN sessions
                 ELSE [sessions EXCEPT ![h.on] = _touch([@ EXCEPT !.client_last_seq = h.frame.seq])]
  /\ panels' = IF answered /\ panels[h.by].on = h.on /\ panels[h.by].inputSeq = h.frame.seq - 1
               THEN [panels EXCEPT ![h.by].inputSeq = h.frame.seq,
                                   ![h.by].said = Append(@, h.frame)]
               ELSE panels
  /\ UNCHANGED <<now, relays, agent, trusted, budget, chatVars>>

\* The page stops at the end of the session or at a refusal.
Cursor(panel) == IF panel.screen = <<>> THEN panel.start ELSE panel.screen[Len(panel.screen)].seq

read_shell_output(o) == \E answered \in BOOLEAN :
  LET s == panels[o].on
      cursor == Cursor(panels[o])
  IN  /\ s # None
      /\ sessions[s].status \in _LIVE_STATES
      /\ relays[s].up
      /\ ~Refused(relays[s].output, cursor, cursor)
      /\ \/ After(relays[s].output, cursor) # <<>>
         \/ acknowledge(relays[s].output, cursor) # relays[s].output
      /\ relays' = [relays EXCEPT ![s].output = read(@, cursor, cursor)]
      /\ panels' = IF answered THEN [panels EXCEPT ![o].screen = @ \o After(relays[s].output, cursor)]
                   ELSE panels
      /\ UNCHANGED <<now, sessions, handlers, agent, trusted, budget, chatVars>>

\* A page that is reloaded forgets the session.
panel_reloads(o) ==
  /\ Spend("fault")
  /\ panels[o].on # None
  /\ panels' = [panels EXCEPT ![o] = NoPanel]
  /\ UNCHANGED <<now, sessions, relays, handlers, agent, trusted, chatVars>>

\* Every end of a session: the relay is closed at once, the row at the commit.
Ending(S, status) ==
  /\ CloseRelays(S)
  /\ Start([op |-> "end", rows |-> S, status |-> status])

close_shell_session_load(o) ==
  LET s == panels[o].on IN
  /\ Spend("close") /\ Room
  /\ s # None
  /\ sessions[s].owner = o /\ sessions[s].status \in _LIVE_STATES
  /\ Ending({s}, "closed")
  /\ UNCHANGED <<now, sessions, agent, panels, trusted, chatVars>>

Mut_shell_session_sweep_once_load ==
  LET due == {s \in Live : sessions[s].status = "active" /\ sessions[s].idle <= now} IN
  /\ due # {}
  /\ \A h \in handlers : h.op = "end" => h.status # "timed_out"
  /\ Ending(due, "timed_out")
  /\ UNCHANGED <<now, sessions, agent, panels, trusted, budget, chatVars>>
_shell_session_sweep_once_load ==
  LET due == {s \in Live : sessions[s].absolute <= now \/ sessions[s].idle <= now} IN
  /\ due # {}
  /\ \A h \in handlers : h.op = "end" => h.status # "timed_out"
  /\ Ending(due, "timed_out")
  /\ UNCHANGED <<now, sessions, agent, panels, trusted, budget, chatVars>>

ended(h) ==
  /\ h.op = "end" /\ Ends(h)
  /\ sessions' = [s \in Sessions |-> IF s \in h.rows THEN [sessions[s] EXCEPT !.status = h.status]
                                     ELSE sessions[s]]
  /\ UNCHANGED <<now, relays, agent, panels, trusted, budget, chatVars>>

(***************************************************************************)
(* The endpoint                                                            *)
(***************************************************************************)
\* A session that was active when the server lost its relay has failed.
attach_shell_session_load ==
  /\ agent.on = None /\ agent.gen < MaxShells /\ Room
  /\ \A h \in handlers : h.op = "attach" => h.gen # agent.gen
  /\ Live # {} /\ trusted
  /\ LET s == Oldest IN
     IF sessions[s].status = "active" /\ ~relays[s].up
     THEN /\ Start([op |-> "end", rows |-> {s}, status |-> "failed"])
          /\ UNCHANGED relays
     ELSE /\ relays' = IF relays[s].up THEN relays
                       ELSE [relays EXCEPT ![s] = create(sessions[s].client_last_seq,
                                                         sessions[s].agent_last_seq)]
          /\ Start([op |-> "attach", on |-> s, gen |-> agent.gen, row |-> sessions[s]])
  /\ UNCHANGED <<now, sessions, agent, panels, trusted, budget, chatVars>>

attach_shell_session(h) == \E answered \in BOOLEAN :
  /\ h.op = "attach" /\ Ends(h)
  /\ sessions' = IF h.row.status = "active" THEN sessions
                 ELSE [sessions EXCEPT ![h.on] = _touch([@ EXCEPT !.status = "active"])]
  /\ agent' = IF answered /\ agent.gen = h.gen
              THEN [agent EXCEPT !.on = h.on, !.base = h.row.agent_last_seq,
                                 !.outputSeq = h.row.agent_last_seq]
              ELSE agent
  /\ UNCHANGED <<now, relays, panels, trusted, budget, chatVars>>

Running == agent.on # None /\ ~agent.fails
Reachable(s) == trusted /\ sessions[s].status \in _LIVE_STATES /\ relays[s].up

\* A refusal ends the shell; the next step reports it.
shell_refused ==
  LET s == agent.on IN
  /\ Running
  /\ \/ ~Reachable(s)
     \/ Reachable(s) /\ Refused(relays[s].input, agent.after, agent.after)
  /\ agent' = [agent EXCEPT !.fails = TRUE]
  /\ UNCHANGED <<now, sessions, relays, handlers, panels, trusted, budget, chatVars>>

pollShellInput == \E answered \in BOOLEAN :
  LET s == agent.on
      batch == After(relays[s].input, agent.after)
  IN  /\ Running /\ Reachable(s)
      /\ ~Refused(relays[s].input, agent.after, agent.after)
      /\ batch # <<>> \/ acknowledge(relays[s].input, agent.after) # relays[s].input
      /\ relays' = [relays EXCEPT ![s].input = read(@, agent.after, agent.after)]
      /\ agent' = IF answered THEN [agent EXCEPT !.got = @ \o batch,
                                                   !.after = IF batch = <<>> THEN @ ELSE batch[Len(batch)].seq]
                  ELSE agent
      /\ UNCHANGED <<now, sessions, handlers, panels, trusted, budget, chatVars>>

\* The n-th chunk of a shell is known by the process that ran it.
NextFrame == [seq |-> agent.outputSeq + 1, gen |-> agent.gen, n |-> agent.outputSeq + 1 - agent.base]

send_shell_output_load ==
  LET s == agent.on
      verdict == append(relays[s].output, NextFrame)
  IN  /\ Spend("output") /\ Room
      /\ Running /\ Reachable(s)
      /\ \/ /\ NextFrame.seq > sessions[s].agent_last_seq
            /\ sessions[s].bytes + 1 > OutputLimit
            /\ Ending({s}, "failed")
            /\ agent' = [agent EXCEPT !.fails = TRUE]
         \/ /\ NextFrame.seq <= sessions[s].agent_last_seq \/ sessions[s].bytes + 1 <= OutputLimit
            /\ Serving(s) /\ verdict \in {"accepted", "repeated"}
            /\ relays' = IF verdict = "repeated" THEN relays
                         ELSE [relays EXCEPT ![s].output = Appended(@, NextFrame)]
            /\ Start([op |-> "output", on |-> s, frame |-> NextFrame, bytes |-> sessions[s].bytes,
                      accepted |-> verdict = "accepted"])
            /\ UNCHANGED agent
         \/ /\ NextFrame.seq <= sessions[s].agent_last_seq \/ sessions[s].bytes + 1 <= OutputLimit
            /\ ~Serving(s) \/ verdict = "conflict"
            /\ agent' = [agent EXCEPT !.fails = TRUE]
            /\ UNCHANGED <<relays, handlers>>
      /\ UNCHANGED <<now, sessions, panels, trusted, chatVars>>

send_shell_output(h) == \E answered \in BOOLEAN :
  /\ h.op = "output" /\ Ends(h)
  /\ sessions' = IF ~h.accepted THEN sessions
                 ELSE [sessions EXCEPT ![h.on] =
                         _touch([@ EXCEPT !.agent_last_seq = h.frame.seq, !.bytes = h.bytes + 1])]
  /\ agent' = IF answered /\ Running /\ agent.on = h.on /\ NextFrame = h.frame
              THEN [agent EXCEPT !.outputSeq = h.frame.seq] ELSE agent
  /\ UNCHANGED <<now, relays, panels, trusted, budget, chatVars>>

\* The shell exits, or has been refused; the report is tried once.
complete_shell_session == \E status \in {"closed", "failed"} :
  LET s == agent.on IN
  /\ agent.on # None
  /\ status = "failed" <=> agent.fails
  /\ \/ /\ Room /\ sessions[s].status \in _LIVE_STATES
        /\ Ending({s}, status)
        /\ UNCHANGED budget
     \/ /\ sessions[s].status \in _TERMINAL_STATES
        /\ UNCHANGED <<relays, handlers, budget>>
     \/ /\ Spend("fault")
        /\ UNCHANGED <<relays, handlers>>
  /\ agent' = Idle(agent.gen + 1)
  /\ UNCHANGED <<now, sessions, panels, trusted, chatVars>>

(***************************************************************************)
(* Restarts, trust and time                                                *)
(***************************************************************************)
agent_restarts ==
  /\ Spend("fault")
  /\ agent.on # None
  /\ agent' = Idle(agent.gen + 1)
  /\ UNCHANGED <<now, sessions, relays, handlers, panels, trusted, chatVars>>

server_restarts ==
  /\ Spend("fault")
  /\ relays' = [s \in Sessions |-> NoRelay]
  /\ handlers' = {}
  /\ UNCHANGED <<now, sessions, agent, panels, trusted, chatVars>>

set_trust ==
  /\ Spend("trust")
  /\ opening = {}
  /\ trusted' = ~trusted
  /\ UNCHANGED <<chatVars, shellVars>>

tick ==
  /\ now < budget.clock
  /\ now' = now + 1
  /\ UNCHANGED <<sessions, relays, handlers, agent, panels, trusted, budget, chatVars>>

Commit(h) == \/ open_shell_session(h) \/ send_shell_input(h) \/ ended(h)
             \/ attach_shell_session(h) \/ send_shell_output(h)

Next ==
  \/ \E o \in Operators : \/ open_shell_session_load(o) \/ send_shell_input_load(o)
                          \/ read_shell_output(o) \/ panel_reloads(o)
                          \/ close_shell_session_load(o)
  \/ _shell_session_sweep_once_load
  \/ attach_shell_session_load \/ shell_refused \/ pollShellInput
  \/ send_shell_output_load \/ complete_shell_session
  \/ \E h \in handlers : Commit(h)
  \/ agent_restarts \/ server_restarts \/ set_trust \/ tick
  \/ ChatNext /\ UNCHANGED shellVars

\* Time passes, the sweeper is woken every poll timeout, and a handler ends.
Fairness ==
  /\ WF_vars(tick)
  /\ WF_vars(_shell_session_sweep_once_load)
  /\ WF_vars(\E h \in handlers : ended(h))
  /\ WF_vars(\E h \in handlers : attach_shell_session(h))
  /\ WF_vars(\E h \in handlers : \/ open_shell_session(h) \/ send_shell_input(h)
                                 \/ send_shell_output(h))

Spec == Init /\ [][Next]_vars /\ Fairness

----------------------------------------------------------------------------
(* Both streams arrive in order: a shell has been given the lines of the session
   from the first on, without a gap or a repetition, each as the operator was told
   it was sent; and the operator's page shows each shell's output from where the
   page began, gapless and in order, also across lost answers, retries, reloads and
   restarts of either side. *)
StreamsInOrder ==
  /\ \A i \in DOMAIN agent.got :
       /\ agent.got[i].seq = i
       /\ \A o \in Operators :
            panels[o].on = agent.on => \A j \in DOMAIN panels[o].said :
              panels[o].said[j].seq = i => panels[o].said[j].text = agent.got[i].text
  /\ \A o \in Operators : \A i \in DOMAIN panels[o].screen :
       LET f == panels[o].screen[i] IN
       /\ f.seq = panels[o].start + i
       /\ i > 1 => LET e == panels[o].screen[i - 1] IN
            IF e.gen = f.gen THEN f.n = e.n + 1 ELSE e.gen < f.gen /\ f.n = 1

(* Every session ends, whoever stalls: a session nobody attaches to, one that is
   kept busy, and one that a late attachment revives after it was closed. *)
EverySessionEnds == <>[](\A s \in Sessions : sessions[s].status \notin _LIVE_STATES)
=============================================================================
