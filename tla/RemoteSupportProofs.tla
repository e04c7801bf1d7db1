------------------------ MODULE RemoteSupportProofs ------------------------
(***************************************************************************)
(* Proofs about ShellSession and SupportChat, for every number of          *)
(* sessions, operators and conversations, every buffer, window and limit,  *)
(* and any number of handlers, restarts and lost answers.                  *)
(*                                                                         *)
(* The digests of a direction are the record of what was accepted last.    *)
(* What a frame was is read off them: what a shell was given, what an      *)
(* operator was told and what a page shows agree with the digests as long  *)
(* as the relay is there, and a relay that is lost is never made again for *)
(* a session that something was attached to.                               *)
(*                                                                         *)
(* Of the conversations, only an open one has a token, and the one that a  *)
(* heartbeat is renewing is open, because the heartbeat holds its row.     *)
(***************************************************************************)
EXTENDS ShellSession, SequenceTheorems, WellFoundedInduction, TLAPS

InFrame  == [seq : Nat, text : Inputs]
OutFrame == [seq : Nat, gen : Nat, n : Nat]

Direction(F) == [last : Nat, sent : Nat, evicted : Nat, frames : Seq(F), digests : Seq(F)]

ShellRow == [status : {"absent"} \cup _LIVE_STATES \cup _TERMINAL_STATES, owner : Operators \cup {None},
             idle : Nat, absolute : Nat, born : Nat, client_last_seq : Nat, agent_last_seq : Nat, bytes : Nat]

Agent == [on : Sessions \cup {None}, gen : Nat, fails : BOOLEAN, base : Nat, outputSeq : Nat,
          after : Nat, got : Seq(InFrame)]

Panel == [on : Sessions \cup {None}, said : Seq(InFrame), inputSeq : Nat, start : Nat, screen : Seq(OutFrame)]

\* The frames are the last of the digests, and both are numbered without a gap.
Ordered(dir) ==
  /\ dir.last = dir.evicted + Len(dir.frames)
  /\ Len(dir.frames) <= Len(dir.digests)
  /\ dir.sent <= dir.last
  /\ \A i \in 1..Len(dir.digests) : dir.digests[i].seq = dir.last - Len(dir.digests) + i
  /\ \A i \in 1..Len(dir.frames) : dir.frames[i] = dir.digests[Len(dir.digests) - Len(dir.frames) + i]

Follows(e, f) == IF e.gen = f.gen THEN f.n = e.n + 1 ELSE e.gen < f.gen /\ f.n = 1
Chained(frames) == \A i \in 1..Len(frames) : i > 1 => Follows(frames[i - 1], frames[i])

Digests(dir) == {dir.digests[i] : i \in 1..Len(dir.digests)}
Latest(dir) == dir.digests[Len(dir.digests)]

Up(s) == relays[s].up
Opened(s) == sessions[s].status # "absent"
Attached(s) == sessions[s].status \notin {"absent", "pending"}

SessionRelay ==
  [up : BOOLEAN, closed : BOOLEAN, input : Direction(InFrame), output : Direction(OutFrame)]

\* A chunk of the shell that runs now is numbered from where that shell began.
Counted(s, d) ==
  /\ d.gen <= agent.gen
  /\ d.gen = agent.gen => agent.on = s /\ d.n = d.seq - agent.base /\ d.seq > agent.base

\* What the endpoint sent: by shells that follow each other, to a session it was attached to.
Sent(s) ==
  LET out == relays[s].output IN
  /\ Chained(out.digests)
  /\ out.digests # <<>> => Attached(s)
  /\ \A d \in Digests(out) : Counted(s, d) /\ d.gen <= Latest(out).gen

Relay(s) ==
  IF Up(s)
  THEN /\ relays[s] \in SessionRelay
       /\ Ordered(relays[s].input) /\ Ordered(relays[s].output)
       /\ Sent(s)
  ELSE relays[s] = NoRelay

\* A frame is the one with its number that was accepted, and that the shell was given.
Agrees(s, f) ==
  /\ Up(s) => \A d \in Digests(relays[s].input) : d.seq = f.seq => d = f
  /\ agent.on = s => \A i \in 1..Len(agent.got) : i = f.seq => agent.got[i] = f

Handler(h) ==
  /\ h.op \in {"open", "input", "end", "attach", "output"}
  /\ h.op # "end" => h.on \in Sessions
  /\ h.op \in {"open", "input"} => h.by \in Operators
  /\ h.op = "open" => Up(h.on) /\ ~Opened(h.on) /\ h.at \in Nat
  /\ h.op = "input" =>
       /\ Up(h.on) /\ Opened(h.on)
       /\ h.frame \in InFrame /\ h.frame.seq <= relays[h.on].input.last /\ Agrees(h.on, h.frame)
  /\ h.op = "end" =>
       /\ h.rows \subseteq Sessions /\ h.status \in _TERMINAL_STATES
       /\ \A s \in h.rows : Opened(s)
  /\ h.op = "attach" =>
       /\ Opened(h.on) /\ h.row \in ShellRow /\ h.row.status \in _LIVE_STATES
       /\ h.row.status = "active" => Attached(h.on)
       /\ h.gen \in Nat /\ h.gen <= agent.gen
       /\ h.gen = agent.gen => agent.on = None
  /\ h.op = "output" =>
       /\ Up(h.on) /\ Attached(h.on)
       /\ h.bytes \in Nat /\ h.frame \in OutFrame /\ h.frame.gen <= agent.gen
       /\ h.frame.gen = agent.gen => agent.on = h.on
       /\ relays[h.on].output.digests # <<>> /\ h.frame.gen <= Latest(relays[h.on].output).gen

Handlers ==
  /\ \A h \in handlers : Handler(h)
  /\ \A h, g \in handlers :
       /\ h.op = "open" /\ g.op = "open" /\ h.on = g.on => h = g
       /\ h.op = "attach" /\ g.op = "attach" /\ h.gen = g.gen => h = g

\* What the shell was given, and the output it is at.
Shell ==
  /\ agent.after = Len(agent.got)
  /\ \A i \in 1..Len(agent.got) : agent.got[i].seq = i
  /\ agent.on = None => agent.got = <<>>
  /\ agent.on # None =>
       /\ Attached(agent.on) /\ agent.base <= agent.outputSeq
       /\ Up(agent.on) =>
            LET in == relays[agent.on].input
                out == relays[agent.on].output
            IN /\ Len(agent.got) <= in.last
               /\ \A i \in 1..Len(agent.got) : \A d \in Digests(in) : d.seq = i => d = agent.got[i]
               /\ agent.outputSeq > agent.base => out.digests # <<>> /\ Latest(out).gen = agent.gen

\* The last frame a page shows is still among the digests.
Shows(out, start, screen) ==
  LET shown == start + Len(screen) IN
  /\ out.evicted <= shown /\ shown <= out.last
  /\ out.last - shown < Len(out.digests)
  /\ out.digests[Len(out.digests) - (out.last - shown)] = screen[Len(screen)]

\* What the operator was told, and what the page shows.
Page(o) ==
  LET p == panels[o] IN
  /\ \A j \in 1..Len(p.said) : p.said[j].seq <= p.inputSeq
  /\ \A i \in 1..Len(p.screen) : p.screen[i].seq = p.start + i
  /\ Chained(p.screen)
  /\ p.on = None => p.said = <<>> /\ p.screen = <<>>
  /\ p.on # None =>
       /\ Opened(p.on) /\ sessions[p.on].owner = o
       /\ \A j \in 1..Len(p.said) : Agrees(p.on, p.said[j])
       /\ p.screen # <<>> => Attached(p.on)
       /\ p.screen # <<>> /\ Up(p.on) => Shows(relays[p.on].output, p.start, p.screen)

ShellInv ==
  /\ now \in Nat
  /\ sessions \in [Sessions -> ShellRow]
  /\ relays = [s \in Sessions |-> relays[s]] /\ (\A s \in Sessions : Relay(s))
  /\ agent \in Agent /\ Shell
  /\ panels \in [Operators -> Panel] /\ (\A o \in Operators : Page(o))
  /\ Handlers

-----------------------------------------------------------------------------
(* One direction of a relay *)

Numbered(fs, b) == \A i \in 1..Len(fs) : fs[i].seq = b + i
Within(b, n, k) == (k = 0 /\ n <= b) \/ k = n - b

\* What is left of numbered frames once those up to a number are dropped.
LEMMA PastLeaves ==
  ASSUME NEW F, NEW fs \in Seq(F), NEW b \in Int, Numbered(fs, b),
         NEW n \in Int, NEW k \in 0..Len(fs), Within(b, n, k)
  PROVE  /\ Past(fs, n) \in Seq(F) /\ Len(Past(fs, n)) = Len(fs) - k
         /\ \A i \in 1..(Len(fs) - k) : Past(fs, n)[i] = fs[k + i]
<1> DEFINE Fits(m) == (\A i \in 1..m : fs[i].seq <= n) /\ (m < Len(fs) => fs[m + 1].seq > n)
<1>1. Len(fs) \in Nat /\ (\A i \in 1..Len(fs) : fs[i].seq = b + i) /\ ((k = 0 /\ n <= b) \/ k = n - b)
  BY DEF Numbered, Within
<1>2. Fits(k)
  <2>1. ASSUME NEW i \in 1..k PROVE fs[i].seq <= n
    <3>1. i \in 1..Len(fs) /\ b + i <= n
      BY <1>1
    <3> QED BY <1>1, <3>1
  <2>2. ASSUME k < Len(fs) PROVE fs[k + 1].seq > n
    <3>1. k + 1 \in 1..Len(fs) /\ b + (k + 1) > n
      BY <1>1, <2>2
    <3> QED BY <1>1, <3>1
  <2> QED BY <2>1, <2>2
<1>3. ASSUME NEW m \in 0..Len(fs), Fits(m) PROVE m = k
  <2>1. CASE m < k
    <3>1. m + 1 \in 1..Len(fs) /\ m + 1 \in 1..k /\ m < Len(fs)
      BY <1>1, <2>1
    <3>2. fs[m + 1].seq = b + (m + 1) /\ fs[m + 1].seq <= n /\ fs[m + 1].seq > n
      BY <1>1, <1>2, <1>3, <3>1
    <3> QED BY <3>1, <3>2
  <2>2. CASE m > k
    <3>1. k + 1 \in 1..Len(fs) /\ k + 1 \in 1..m /\ k < Len(fs)
      BY <1>1, <2>2
    <3>2. fs[k + 1].seq = b + (k + 1) /\ fs[k + 1].seq <= n /\ fs[k + 1].seq > n
      BY <1>1, <1>2, <1>3, <3>1
    <3> QED BY <3>1, <3>2
  <2> QED BY <1>1, <2>1, <2>2
<1>4. (CHOOSE m \in 0..Len(fs) : Fits(m)) = k
  BY <1>2, <1>3
<1>5. Past(fs, n) = SubSeq(fs, k + 1, Len(fs))
  BY <1>4 DEF Past
<1>6. /\ SubSeq(fs, k + 1, Len(fs)) \in Seq(F) /\ Len(SubSeq(fs, k + 1, Len(fs))) = Len(fs) - k
      /\ \A i \in 1..(Len(fs) - k) : SubSeq(fs, k + 1, Len(fs))[i] = fs[k + i]
  BY <1>1, SubSeqProperties
<1> QED BY <1>5, <1>6

\* A frame that is accepted is the next one, and becomes the last of the digests.
LEMMA AppendedOrdered ==
  ASSUME NEW F, NEW dir \in Direction(F), Ordered(dir), NEW f \in F, f.seq \in Nat,
         append(dir, f) = "accepted"
  PROVE  LET new == Appended(dir, f) IN
         /\ new \in Direction(F) /\ Ordered(new)
         /\ f.seq = dir.last + 1 /\ new.last = dir.last + 1 /\ new.evicted = dir.evicted
         /\ Len(new.digests) = Len(dir.digests) + 1 /\ new.digests[Len(new.digests)] = f
         /\ \A i \in 1..Len(dir.digests) : new.digests[i] = dir.digests[i]
<1>1. f.seq = dir.last + 1
  BY DEF append
<1>2. PICK digests \in Seq(F), frames \in Seq(F) : digests = dir.digests /\ frames = dir.frames
  BY DEF Direction
<1>3. PICK last \in Nat : last = dir.last + 1
  BY DEF Direction
<1>4. PICK ds \in Seq(F), fs \in Seq(F) : ds = Append(digests, f) /\ fs = Append(frames, f)
  BY AppendProperties
<1>5. Appended(dir, f) = [dir EXCEPT !.last = last, !.frames = fs, !.digests = ds]
  BY <1>1, <1>2, <1>3, <1>4 DEF Appended
<1>6. PICK new \in Direction(F) : new = Appended(dir, f)
  BY <1>5 DEF Direction
<1>7. /\ new.last = last /\ new.frames = fs /\ new.digests = ds /\ new.evicted = dir.evicted
      /\ new.sent = dir.sent
  BY <1>5, <1>6 DEF Direction
<1>8. /\ Len(ds) = Len(digests) + 1 /\ ds[Len(ds)] = f /\ \A i \in 1..Len(digests) : ds[i] = digests[i]
      /\ Len(fs) = Len(frames) + 1 /\ fs[Len(fs)] = f /\ \A i \in 1..Len(frames) : fs[i] = frames[i]
  BY <1>4, AppendProperties
<1>9. /\ Len(digests) \in Nat /\ Len(frames) \in Nat /\ dir.last \in Nat /\ dir.evicted \in Nat /\ dir.sent \in Nat
      /\ dir.last = dir.evicted + Len(frames) /\ Len(frames) <= Len(digests) /\ dir.sent <= dir.last
      /\ \A i \in 1..Len(digests) : digests[i].seq = dir.last - Len(digests) + i
      /\ \A i \in 1..Len(frames) : frames[i] = digests[Len(digests) - Len(frames) + i]
  BY <1>2 DEF Direction, Ordered
<1>10. ASSUME NEW i \in 1..Len(ds) PROVE ds[i].seq = last - Len(ds) + i
  <2>1. CASE i = Len(ds)
    BY <1>1, <1>3, <1>8, <1>9, <2>1, SMTT(30)
  <2>2. CASE i # Len(ds)
    <3>1. i \in 1..Len(digests)
      BY <1>8, <1>9, <2>2
    <3>2. ds[i].seq = dir.last - Len(digests) + i
      BY <1>8, <1>9, <3>1
    <3>3. PICK a \in Nat, c \in Nat : a = dir.last /\ c = Len(digests)
      BY <1>9
    <3>4. last = a + 1 /\ Len(ds) = c + 1 /\ ds[i].seq = a - c + i
      BY <1>3, <1>8, <3>2, <3>3
    <3> QED BY <3>4
  <2> QED BY <2>1, <2>2
<1>11. ASSUME NEW i \in 1..Len(fs) PROVE fs[i] = ds[Len(ds) - Len(fs) + i]
  <2>1. CASE i = Len(fs)
    BY <1>8, <1>9, <2>1
  <2>2. CASE i # Len(fs)
    <3>1. i \in 1..Len(frames) /\ Len(digests) - Len(frames) + i \in 1..Len(digests)
      BY <1>8, <1>9, <2>2
    <3>2. fs[i] = digests[Len(digests) - Len(frames) + i]
      BY <1>8, <1>9, <3>1
    <3>3. ds[Len(digests) - Len(frames) + i] = digests[Len(digests) - Len(frames) + i]
      BY <1>8, <3>1
    <3>4. Len(ds) - Len(fs) + i = Len(digests) - Len(frames) + i
      BY <1>8, <1>9
    <3> QED BY <3>2, <3>3, <3>4
  <2> QED BY <2>1, <2>2
<1>12. Ordered(new)
  <2>1. /\ new.last = new.evicted + Len(new.frames) /\ Len(new.frames) <= Len(new.digests)
        /\ new.sent <= new.last
    <3>1. PICK a \in Nat, e \in Nat, c \in Nat, k \in Nat, n \in Nat :
            /\ a = dir.last /\ e = dir.evicted /\ c = Len(digests) /\ k = Len(frames) /\ n = dir.sent
      BY <1>9
    <3>2. a = e + k /\ k <= c /\ n <= a
      BY <1>9, <3>1
    <3>3. last = a + 1 /\ Len(ds) = c + 1 /\ Len(fs) = k + 1
      BY <1>3, <1>8, <3>1
    <3>4. last = e + Len(fs) /\ Len(fs) <= Len(ds) /\ n <= last
      BY <3>2, <3>3
    <3> QED BY <1>7, <3>1, <3>4
  <2>2. \A i \in 1..Len(new.digests) : new.digests[i].seq = new.last - Len(new.digests) + i
    BY <1>7, <1>10, Zenon
  <2>3. \A i \in 1..Len(new.frames) :
          new.frames[i] = new.digests[Len(new.digests) - Len(new.frames) + i]
    BY <1>7, <1>11, Zenon
  <2> QED BY <2>1, <2>2, <2>3, Zenon DEF Ordered
<1> QED BY <1>1, <1>2, <1>3, <1>6, <1>7, <1>8, <1>12

\* The first frames of a list.
LEMMA PrefixLeaves ==
  ASSUME NEW F, NEW fs \in Seq(F), NEW limit \in Nat
  PROVE  \E b \in 0..Len(fs) :
           /\ Prefix(fs, limit) \in Seq(F) /\ Len(Prefix(fs, limit)) = b
           /\ \A i \in 1..b : Prefix(fs, limit)[i] = fs[i]
<1>1. PICK b \in 0..Len(fs) : b = IF Len(fs) < limit THEN Len(fs) ELSE limit
  OBVIOUS
<1>2. Prefix(fs, limit) = SubSeq(fs, 1, b)
  BY <1>1 DEF Prefix
<1>3. \A i \in 1..b : fs[i] \in F
  OBVIOUS
<1>4. /\ SubSeq(fs, 1, b) \in Seq(F)
      /\ Len(SubSeq(fs, 1, b)) = IF 1 <= b THEN b - 1 + 1 ELSE 0
      /\ \A i \in 1..(b - 1 + 1) : SubSeq(fs, 1, b)[i] = fs[1 + i - 1]
  BY <1>3, SubSeqProperties
<1> QED BY <1>2, <1>4

\* A read drops what is acknowledged, and its batch starts after the cursor.
LEMMA ReadOrdered ==
  ASSUME NEW F, NEW dir \in Direction(F), Ordered(dir), NEW at \in Nat, ~Refused(dir, at, at)
  PROVE  LET new == read(dir, at, at)
             batch == After(dir, at)
         IN  /\ new \in Direction(F) /\ Ordered(new) /\ new.last = dir.last
             /\ dir.evicted <= at /\ at <= dir.last /\ new.evicted <= at
             /\ Len(new.digests) <= Len(dir.digests)
             /\ \A k \in 0..(Len(dir.digests) - 1) :
                  at <= dir.last - k => k < Len(new.digests)
             /\ \A k \in 0..(Len(new.digests) - 1) :
                  new.digests[Len(new.digests) - k] = dir.digests[Len(dir.digests) - k]
             /\ batch \in Seq(F) /\ Len(batch) <= dir.last - at
             /\ \A i \in 1..Len(batch) :
                  /\ dir.last - at - i < Len(dir.digests)
                  /\ batch[i] = dir.digests[Len(dir.digests) - (dir.last - at - i)]
                  /\ batch[i].seq = at + i
<1>1. PICK digests \in Seq(F), frames \in Seq(F) : digests = dir.digests /\ frames = dir.frames
  BY DEF Direction
<1>2. PICK d \in Nat, m \in Nat : d = Len(digests) /\ m = Len(frames)
  OBVIOUS
<1>3. PICK last \in Nat, evicted \in Nat, sent \in Nat :
        last = dir.last /\ evicted = dir.evicted /\ sent = dir.sent
  BY DEF Direction
<1>4. /\ last = evicted + m /\ m <= d /\ sent <= last
      /\ \A i \in 1..d : digests[i].seq = last - d + i
      /\ \A i \in 1..m : frames[i] = digests[d - m + i]
  BY <1>1, <1>2, <1>3 DEF Ordered
<1>5. ASSUME NEW i \in 1..m PROVE frames[i].seq = evicted + i
  <2>1. d - m + i \in 1..d
    BY <1>4
  <2>2. frames[i] = digests[d - m + i] /\ digests[d - m + i].seq = last - d + (d - m + i)
    BY <1>4, <2>1
  <2> QED BY <1>4, <2>2
<1>6. at <= sent /\ at <= last
  BY <1>3 DEF Refused
<1>7. \E gone \in 0..m : (gone = 0 /\ at <= evicted) \/ gone = at - evicted
  <2>1. CASE at <= evicted
    <3>1. 0 \in 0..m
      OBVIOUS
    <3> QED BY <2>1, <3>1
  <2>2. CASE at > evicted
    <3>1. at - evicted \in 0..m
      BY <1>4, <1>6, <2>2
    <3> QED BY <3>1
  <2> QED BY <2>1, <2>2
<1>26. PICK gone \in 0..m : (gone = 0 /\ at <= evicted) \/ gone = at - evicted
  BY <1>7
<1>27. /\ Past(frames, at) \in Seq(F) /\ Len(Past(frames, at)) = m - gone
       /\ \A i \in 1..(m - gone) : Past(frames, at)[i] = frames[gone + i]
  <2>1. Numbered(frames, evicted)
    BY <1>2, <1>5 DEF Numbered
  <2>2. gone \in 0..Len(frames) /\ Within(evicted, at, gone) /\ evicted \in Int /\ at \in Int
    BY <1>2, <1>26 DEF Within
  <2>3. /\ Past(frames, at) \in Seq(F) /\ Len(Past(frames, at)) = Len(frames) - gone
        /\ \A i \in 1..(Len(frames) - gone) : Past(frames, at)[i] = frames[gone + i]
    BY <2>1, <2>2, PastLeaves
  <2> QED BY <1>2, <2>3
<1>8. PICK kept \in Seq(F) : kept = Past(frames, at) /\ Len(kept) = m - gone
                             /\ \A i \in 1..(m - gone) : kept[i] = frames[gone + i]
  BY <1>27
<1>9. PICK floor \in Int : floor = at - RetryWindow - 1
  BY ShellAssumption
<1>10. floor < last /\ floor < at
  BY <1>6, <1>9, ShellAssumption
<1>28. \E old \in 0..d : (old = 0 /\ floor <= last - d) \/ old = floor - (last - d)
  <2>1. CASE floor <= last - d
    <3>1. 0 \in 0..d
      OBVIOUS
    <3> QED BY <2>1, <3>1
  <2>2. CASE floor > last - d
    <3>1. floor - (last - d) \in 0..d
      BY <1>10, <2>2
    <3> QED BY <3>1
  <2> QED BY <2>1, <2>2
<1>11. PICK old \in 0..d : (old = 0 /\ floor <= last - d) \/ old = floor - (last - d)
  BY <1>28
<1>12. PICK recent \in Seq(F) : recent = Past(digests, floor) /\ Len(recent) = d - old
                                /\ \A i \in 1..(d - old) : recent[i] = digests[old + i]
  <2>1. PICK base \in Int : base = last - d
    OBVIOUS
  <2>2. Numbered(digests, base)
    BY <1>2, <1>4, <2>1 DEF Numbered
  <2>3. old \in 0..Len(digests) /\ Within(base, floor, old)
    BY <1>2, <1>11, <2>1 DEF Within
  <2>4. /\ Past(digests, floor) \in Seq(F) /\ Len(Past(digests, floor)) = Len(digests) - old
        /\ \A i \in 1..(Len(digests) - old) : Past(digests, floor)[i] = digests[old + i]
    BY <2>2, <2>3, PastLeaves, ZenonT(30)
  <2> QED BY <1>2, <2>4
<1>13. PICK through \in Nat : through = IF Len(kept) = m THEN evicted ELSE frames[m - Len(kept)].seq
  <2>1. CASE gone = 0
    BY <1>8, <2>1
  <2>2. CASE gone # 0
    <3>1. m - Len(kept) = gone /\ gone \in 1..m /\ Len(kept) # m
      BY <1>8, <2>2
    <3>2. frames[gone].seq = evicted + gone
      BY <1>5, <3>1
    <3> QED BY <3>1, <3>2
  <2> QED BY <2>1, <2>2
<1>14. through = evicted + gone
  <2>1. CASE gone = 0
    BY <1>8, <1>13, <2>1
  <2>2. CASE gone # 0
    <3>1. m - Len(kept) = gone /\ gone \in 1..m /\ Len(kept) # m
      BY <1>8, <2>2
    <3> QED BY <1>5, <1>13, <3>1
  <2> QED BY <2>1, <2>2
<1>15. PICK ack \in Direction(F) :
         /\ ack = acknowledge(dir, at)
         /\ ack = [dir EXCEPT !.frames = kept, !.evicted = through, !.digests = recent]
  BY <1>1, <1>2, <1>3, <1>8, <1>9, <1>12, <1>13, ZenonT(30) DEF acknowledge, Direction
<1>16. ack.last = last /\ ack.sent = sent /\ ack.evicted = through /\ ack.frames = kept /\ ack.digests = recent
  BY <1>3, <1>15 DEF Direction
<1>17. evicted <= at /\ gone = at - evicted /\ through = at
  <2>1. through <= at
    BY <1>15, <1>16 DEF Refused
  <2> QED BY <1>14, <1>26, <2>1
<1>29. last = evicted + m /\ m <= d /\ gone = at - evicted /\ at <= last
  BY <1>4, <1>6, <1>17
<1>35. \A i \in 1..Len(kept) : kept[i].seq = at + i
  <2> SUFFICES ASSUME NEW i \in 1..(m - gone) PROVE kept[i].seq = at + i
    BY <1>8
  <2>1. gone + i \in 1..m /\ evicted + (gone + i) = at + i
    BY <1>29
  <2> QED BY <1>5, <1>8, <2>1
<1>36. Past(kept, at) \in Seq(F) /\ Len(Past(kept, at)) = m - gone
       /\ \A i \in 1..(m - gone) : Past(kept, at)[i] = kept[i]
  <2>1. Numbered(kept, at) /\ Within(at, at, 0) /\ 0 \in 0..Len(kept) /\ at \in Int
    BY <1>35 DEF Numbered, Within
  <2>2. /\ Past(kept, at) \in Seq(F) /\ Len(Past(kept, at)) = Len(kept) - 0
        /\ \A i \in 1..(Len(kept) - 0) : Past(kept, at)[i] = kept[0 + i]
    BY <2>1, PastLeaves
  <2> QED BY <1>8, <2>2
<1>37. PICK again \in Seq(F) : again = After(ack, at) /\ Len(again) \in 0..(m - gone)
         /\ \A i \in 1..Len(again) : again[i].seq = at + i
  <2>1. PICK later \in Seq(F) : later = Past(kept, at) /\ Len(later) = m - gone
          /\ \A i \in 1..(m - gone) : later[i] = kept[i]
    BY <1>36
  <2>2. PICK b \in 0..Len(later) :
          /\ Prefix(later, ReadLimit) \in Seq(F) /\ Len(Prefix(later, ReadLimit)) = b
          /\ \A i \in 1..b : Prefix(later, ReadLimit)[i] = later[i]
    BY PrefixLeaves, ShellAssumption
  <2>3. After(ack, at) = Prefix(later, ReadLimit)
    BY <1>16, <2>1 DEF After
  <2>4. ASSUME NEW i \in 1..b PROVE Prefix(later, ReadLimit)[i].seq = at + i
    <3>1. i \in 1..(m - gone) /\ i \in 1..Len(kept)
      BY <1>8, <2>1
    <3> QED BY <1>35, <2>1, <2>2, <3>1
  <2> QED BY <2>1, <2>2, <2>3, <2>4
<1>18. PICK high \in Nat :
         /\ high = IF again = <<>> \/ again[Len(again)].seq < sent THEN sent
                   ELSE again[Len(again)].seq
         /\ high <= last
  <2>1. CASE again = <<>>
    BY <1>4, <2>1
  <2>2. CASE again # <<>>
    <3>1. Len(again) \in 1..Len(again) /\ Len(again) \in 1..(m - gone)
      BY <1>37, <2>2
    <3>2. again[Len(again)].seq = at + Len(again) /\ at + Len(again) <= last
      BY <1>29, <1>37, <3>1
    <3> QED BY <1>4, <3>2
  <2> QED BY <2>1, <2>2
<1>19. PICK new \in Direction(F) : new = read(dir, at, at) /\ new = [ack EXCEPT !.sent = high]
  BY <1>15, <1>16, <1>18, <1>37 DEF read, Direction
<1>20. new.last = last /\ new.sent = high /\ new.evicted = at /\ new.frames = kept /\ new.digests = recent
  BY <1>16, <1>17, <1>19 DEF Direction
<1>21. old + (m - gone) <= d
  BY <1>4, <1>10, <1>11, <1>17
<1>22. Ordered(new)
  <2>1. ASSUME NEW i \in 1..(d - old) PROVE recent[i].seq = last - (d - old) + i
    <3>1. old + i \in 1..d /\ last - d + (old + i) = last - (d - old) + i
      BY <2>1
    <3> QED BY <1>4, <1>12, <3>1
  <2>2. ASSUME NEW i \in 1..(m - gone) PROVE kept[i] = recent[(d - old) - (m - gone) + i]
    <3>1. /\ gone + i \in 1..m /\ (d - old) - (m - gone) + i \in 1..(d - old)
          /\ old + ((d - old) - (m - gone) + i) = d - m + (gone + i)
      BY <1>21, <2>2
    <3>2. kept[i] = frames[gone + i] /\ frames[gone + i] = digests[d - m + (gone + i)]
      BY <1>4, <1>8, <3>1
    <3>3. recent[(d - old) - (m - gone) + i] = digests[old + ((d - old) - (m - gone) + i)]
      BY <1>12, <3>1
    <3> QED BY <3>1, <3>2, <3>3
  <2>3. last = at + (m - gone) /\ m - gone <= d - old
    BY <1>17, <1>21, <1>29
  <2>4. Len(new.digests) = d - old /\ Len(new.frames) = m - gone
    BY <1>8, <1>12, <1>20
  <2>5. \A i \in 1..Len(new.digests) : new.digests[i].seq = new.last - Len(new.digests) + i
    BY <1>20, <2>1, <2>4
  <2>6. \A i \in 1..Len(new.frames) :
          new.frames[i] = new.digests[Len(new.digests) - Len(new.frames) + i]
    BY <1>20, <2>2, <2>4
  <2> QED BY <1>18, <1>20, <2>3, <2>4, <2>5, <2>6 DEF Ordered
<1>23. \A k \in 0..(d - 1) : at <= last - k => k < d - old
  BY <1>10, <1>11
<1>24. \A k \in 0..((d - old) - 1) : recent[(d - old) - k] = digests[d - k]
  <2> SUFFICES ASSUME NEW k \in 0..((d - old) - 1) PROVE recent[(d - old) - k] = digests[d - k]
    OBVIOUS
  <2>1. (d - old) - k \in 1..(d - old) /\ old + ((d - old) - k) = d - k
    OBVIOUS
  <2> QED BY <1>12, <2>1
<1>25. PICK batch \in Seq(F) :
         /\ batch = After(dir, at) /\ Len(batch) <= last - at
         /\ \A i \in 1..Len(batch) : last - at - i < d /\ batch[i] = digests[d - (last - at - i)]
                                      /\ batch[i].seq = at + i
  <2>1. PICK b \in 0..Len(kept) :
          /\ Prefix(kept, ReadLimit) \in Seq(F) /\ Len(Prefix(kept, ReadLimit)) = b
          /\ \A i \in 1..b : Prefix(kept, ReadLimit)[i] = kept[i]
    BY PrefixLeaves, ShellAssumption
  <2>2. After(dir, at) = Prefix(kept, ReadLimit)
    BY <1>1, <1>8 DEF After
  <2>5. m - gone = last - at
    BY <1>4, <1>17
  <2>6. b <= last - at
    BY <1>8, <2>1, <2>5
  <2>3. ASSUME NEW i \in 1..b
        PROVE  last - at - i < d /\ kept[i] = digests[d - (last - at - i)] /\ kept[i].seq = at + i
    <3>1. /\ gone + i \in 1..m /\ d - m + (gone + i) = d - (last - at - i) /\ last - at - i < d
          /\ evicted + (gone + i) = at + i
      BY <1>29, <2>3, <2>6
    <3>2. i \in 1..(m - gone)
      BY <2>3, <2>5, <2>6
    <3>3. kept[i] = frames[gone + i] /\ frames[gone + i] = digests[d - m + (gone + i)]
          /\ frames[gone + i].seq = evicted + (gone + i)
      BY <1>4, <1>5, <1>8, <3>1, <3>2
    <3> QED BY <3>1, <3>3
  <2> QED BY <2>1, <2>2, <2>3, <2>6
<1>30. /\ new \in Direction(F) /\ Ordered(new) /\ new.last = last /\ new.evicted <= at
  BY <1>20, <1>22
<1>31. Len(new.digests) = d - old
  BY <1>12, <1>20
<1>32. \A k \in 0..(d - 1) : at <= last - k => k < Len(new.digests)
  BY <1>23, <1>31
<1>33. \A k \in 0..(Len(new.digests) - 1) : new.digests[Len(new.digests) - k] = digests[d - k]
  BY <1>20, <1>24, <1>31
<1>34. Len(new.digests) <= d
  BY <1>31
<1> QED BY <1>1, <1>2, <1>3, <1>6, <1>8, <1>17, <1>19, <1>25, <1>30, <1>32, <1>33, <1>34, SMTT(30)

\* A digest is known by its number.
LEMMA OrderedDigests ==
  ASSUME NEW F, NEW dir \in Direction(F), Ordered(dir)
  PROVE  /\ \A d \in Digests(dir) : d \in F /\ d.seq <= dir.last
         /\ \A d, e \in Digests(dir) : d.seq = e.seq => d = e
<1>1. PICK digests \in Seq(F), last \in Nat : digests = dir.digests /\ last = dir.last
  BY DEF Direction
<1>2. PICK n \in Nat : n = Len(digests)
  OBVIOUS
<1>3. \A i \in 1..n : digests[i] \in F /\ digests[i].seq = last - n + i
  BY <1>1, <1>2 DEF Ordered
<1>4. \A d \in Digests(dir) : \E i \in 1..n : d = digests[i]
  BY <1>1, <1>2 DEF Digests
<1>5. ASSUME NEW d \in Digests(dir) PROVE d \in F /\ d.seq <= last
  <2>1. PICK i \in 1..n : d = digests[i]
    BY <1>4
  <2>2. d \in F /\ d.seq = last - n + i
    BY <1>3, <2>1
  <2> QED BY <2>2
<1>6. ASSUME NEW d \in Digests(dir), NEW e \in Digests(dir), d.seq = e.seq PROVE d = e
  <2>1. PICK i \in 1..n : d = digests[i]
    BY <1>4
  <2>2. PICK j \in 1..n : e = digests[j]
    BY <1>4
  <2>3. last - n + i = last - n + j
    BY <1>3, <1>6, <2>1, <2>2
  <2>4. i = j
    BY <2>3
  <2> QED BY <2>1, <2>2, <2>4
<1> QED BY <1>1, <1>5, <1>6

\* A frame that is accepted joins the digests.
LEMMA AppendedDigests ==
  ASSUME NEW F, NEW dir \in Direction(F), Ordered(dir), NEW f \in F, f.seq \in Nat,
         append(dir, f) = "accepted"
  PROVE  /\ \A d \in Digests(Appended(dir, f)) : d \in Digests(dir) \/ d = f
         /\ f \in Digests(Appended(dir, f)) /\ f.seq = dir.last + 1
         /\ Appended(dir, f).digests # <<>> /\ Latest(Appended(dir, f)) = f
<1>1. PICK new : new = Appended(dir, f)
  OBVIOUS
<1>2. PICK n \in Nat : n = Len(dir.digests)
  BY DEF Direction
<1>3. /\ Len(new.digests) = n + 1 /\ new.digests[n + 1] = f /\ f.seq = dir.last + 1
      /\ \A i \in 1..n : new.digests[i] = dir.digests[i]
  BY <1>1, <1>2, AppendedOrdered
<1>4. ASSUME NEW d \in Digests(new) PROVE d \in Digests(dir) \/ d = f
  <2>1. PICK i \in 1..(n + 1) : d = new.digests[i]
    BY <1>3 DEF Digests
  <2>2. CASE i = n + 1
    BY <1>3, <2>1, <2>2
  <2>3. CASE i # n + 1
    BY <1>2, <1>3, <2>1, <2>3 DEF Digests
  <2> QED BY <2>2, <2>3
<1>5. f \in Digests(new)
  <2>1. n + 1 \in 1..Len(new.digests)
    BY <1>3
  <2> QED BY <1>3, <2>1 DEF Digests
<1>6. new.digests # <<>> /\ Latest(new) = f
  BY <1>3 DEF Latest
<1> QED BY <1>1, <1>3, <1>4, <1>5, <1>6

\* A read makes no digest, keeps the last, and hands out what has one.
LEMMA ReadDigests ==
  ASSUME NEW F, NEW dir \in Direction(F), Ordered(dir), NEW at \in Nat, ~Refused(dir, at, at)
  PROVE  /\ Digests(read(dir, at, at)) \subseteq Digests(dir)
         /\ dir.digests # <<>> => /\ read(dir, at, at).digests # <<>>
                                  /\ Latest(read(dir, at, at)) = Latest(dir)
         /\ \A i \in 1..Len(After(dir, at)) : After(dir, at)[i] \in Digests(dir)
<1>1. PICK new \in Direction(F), batch \in Seq(F) : new = read(dir, at, at) /\ batch = After(dir, at)
  BY ReadOrdered
<1>2. PICK n \in Nat, m \in Nat, last \in Nat : n = Len(dir.digests) /\ m = Len(new.digests) /\ last = dir.last
  BY DEF Direction
<1>7. /\ at <= dir.last /\ Len(new.digests) <= Len(dir.digests)
      /\ \A k \in 0..(Len(dir.digests) - 1) : at <= dir.last - k => k < Len(new.digests)
      /\ \A k \in 0..(Len(new.digests) - 1) :
           new.digests[Len(new.digests) - k] = dir.digests[Len(dir.digests) - k]
      /\ Len(batch) <= dir.last - at
      /\ \A i \in 1..Len(batch) : /\ dir.last - at - i < Len(dir.digests)
                                   /\ batch[i] = dir.digests[Len(dir.digests) - (dir.last - at - i)]
  BY <1>1, ReadOrdered
<1>3. /\ at <= last /\ m <= n /\ \A k \in 0..(n - 1) : at <= last - k => k < m
      /\ \A k \in 0..(m - 1) : new.digests[m - k] = dir.digests[n - k]
      /\ Len(batch) <= last - at
      /\ \A i \in 1..Len(batch) : last - at - i < n /\ batch[i] = dir.digests[n - (last - at - i)]
  BY <1>2, <1>7
<1>4. ASSUME NEW d \in Digests(new) PROVE d \in Digests(dir)
  <2>1. PICK i \in 1..m : d = new.digests[i]
    BY <1>2 DEF Digests
  <2>2. PICK k \in 0..(m - 1) : k = m - i
    OBVIOUS
  <2>3. m - k = i /\ n - k \in 1..n
    BY <1>3, <2>2
  <2>4. d = dir.digests[n - k]
    BY <1>3, <2>1, <2>3
  <2> QED BY <1>2, <2>3, <2>4 DEF Digests
<1>5. ASSUME dir.digests # <<>> PROVE new.digests # <<>> /\ Latest(new) = Latest(dir)
  <2>1. n > 0
    BY <1>2, <1>5 DEF Direction
  <2>6. PICK k \in 0..(n - 1) : k = 0
    BY <2>1
  <2>7. k < m
    <3>1. at <= last - k
      BY <1>3, <2>6
    <3> QED BY <1>3, <3>1
  <2>2. 0 \in 0..(m - 1) /\ 0 < m
    BY <2>6, <2>7
  <2>3. new.digests[m - 0] = dir.digests[n - 0]
    BY <1>3, <2>2
  <2>4. new.digests[m] = dir.digests[n]
    BY <2>3
  <2>5. new.digests # <<>>
    BY <1>2, <2>2 DEF Direction
  <2> QED BY <1>2, <2>4, <2>5 DEF Latest
<1>6. ASSUME NEW i \in 1..Len(batch) PROVE batch[i] \in Digests(dir)
  <2>1. n - (last - at - i) \in 1..n
    BY <1>3
  <2> QED BY <1>2, <1>3, <2>1 DEF Digests
<1> QED BY <1>1, <1>4, <1>5, <1>6

-----------------------------------------------------------------------------
(* What a step may do to the rows, to the relays and to the endpoint *)

RowStep ==
  /\ sessions' \in [Sessions -> ShellRow]
  /\ \A s \in Sessions :
       /\ Opened(s) => Opened(s)' /\ sessions'[s].owner = sessions[s].owner
       /\ Attached(s) => Attached(s)'

RelayStep == \A s \in Sessions :
  /\ Up(s) => /\ Up(s)'
              /\ \A n \in Nat : n <= relays[s].input.last => n <= relays'[s].input.last
              /\ relays[s].output.digests # <<>> =>
                   /\ relays'[s].output.digests # <<>>
                   /\ \A n \in Nat : n <= Latest(relays[s].output).gen => n <= Latest(relays'[s].output).gen
  /\ Up(s)' => /\ Up(s) \/ ~Attached(s)
               /\ \A d \in Digests(relays'[s].input) :
                    Up(s) /\ (d \in Digests(relays[s].input) \/ d.seq > relays[s].input.last)

AgentStep ==
  /\ agent' \in Agent
  /\ \/ agent'.gen > agent.gen /\ agent'.on = None
     \/ /\ agent'.gen = agent.gen /\ agent'.on = agent.on /\ agent'.base = agent.base
        /\ Len(agent'.got) >= Len(agent.got)
        /\ \A i \in 1..Len(agent.got) : agent'.got[i] = agent.got[i]
        /\ \A i \in 1..Len(agent'.got) : i > Len(agent.got) =>
             /\ agent'.got[i].seq = i
             /\ Up(agent.on) /\ agent'.got[i] \in Digests(relays[agent.on].input)
     \/ agent'.gen = agent.gen /\ agent.on = None /\ agent'.got = <<>>

\* A frame stays the one with its number.
LEMMA AgreesStays ==
  ASSUME ShellInv, AgentStep, NEW s \in Sessions, NEW f, f.seq \in Nat, Agrees(s, f),
         Up(s)' => \A d \in Digests(relays'[s].input) :
                     (Up(s) /\ d \in Digests(relays[s].input)) \/ d.seq # f.seq
  PROVE  Agrees(s, f)'
<1>1. ASSUME Up(s)', NEW d \in Digests(relays'[s].input), d.seq = f.seq PROVE d = f
  BY <1>1 DEF Agrees
<1>2. ASSUME agent'.on = s, NEW i \in 1..Len(agent'.got), i = f.seq PROVE agent'.got[i] = f
  <2>1. s # None /\ agent \in Agent /\ agent' \in Agent
    BY ShellAssumption DEF ShellInv, AgentStep
  <2>2. CASE agent.on = None /\ agent'.got = <<>>
    BY <1>2, <2>2
  <2>3. CASE agent'.gen = agent.gen /\ agent'.on = agent.on /\ i <= Len(agent.got)
    <3>1. i \in 1..Len(agent.got)
      BY <2>1, <2>3 DEF Agent
    <3>2. agent'.got[i] = agent.got[i]
      BY <1>2, <2>1, <2>3, <3>1 DEF AgentStep
    <3> QED BY <1>2, <2>3, <3>1, <3>2 DEF Agrees
  <2>4. CASE agent'.gen = agent.gen /\ agent'.on = agent.on /\ i > Len(agent.got)
    <3>1. agent'.got[i].seq = i /\ Up(s) /\ agent'.got[i] \in Digests(relays[s].input)
      BY <1>2, <2>1, <2>4 DEF AgentStep
    <3> QED BY <1>2, <3>1 DEF Agrees
  <2>5. Len(agent.got) \in Nat /\ i \in Nat
    BY <2>1 DEF Agent
  <2> QED BY <1>2, <2>1, <2>2, <2>3, <2>4, <2>5 DEF AgentStep
<1>3. /\ Up(s)' => \A d \in Digests(relays'[s].input) : d.seq = f.seq => d = f
      /\ agent'.on = s => \A i \in 1..Len(agent'.got) : i = f.seq => agent'.got[i] = f
  BY <1>1, <1>2
<1> QED BY <1>3 DEF Agrees, Digests

\* A handler that goes on is still one that Handler describes.
LEMMA HandlerStays ==
  ASSUME ShellInv, RowStep, RelayStep, AgentStep, NEW h \in handlers,
         h.op = "open" => ~Opened(h.on)',
         h.op = "attach" /\ agent.on = None /\ agent'.on # None => h.gen # agent.gen
  PROVE  Handler(h)'
<1>1. Handler(h) /\ agent \in Agent /\ agent' \in Agent /\ None \notin Sessions
  BY ShellAssumption DEF ShellInv, Handlers, AgentStep
<1>2. agent.gen \in Nat /\ agent'.gen \in Nat
  BY <1>1 DEF Agent
<1>3. CASE h.op = "open"
  BY <1>1, <1>3 DEF Handler, RelayStep
<1>4. CASE h.op = "input"
  <2>1. /\ h.on \in Sessions /\ h.by \in Operators /\ Up(h.on) /\ Opened(h.on) /\ h.frame \in InFrame
        /\ h.frame.seq <= relays[h.on].input.last /\ Agrees(h.on, h.frame)
    BY <1>1, <1>4 DEF Handler
  <2>3. relays[h.on].input.last \in Nat /\ h.frame.seq \in Nat
    BY <2>1 DEF ShellInv, Relay, SessionRelay, Direction, InFrame
  <2>2. Up(h.on)' /\ Opened(h.on)' /\ h.frame.seq <= relays'[h.on].input.last
    BY <2>1, <2>3 DEF RowStep, RelayStep
  <2>4. \A d \in Digests(relays'[h.on].input) : d \in Digests(relays[h.on].input) \/ d.seq # h.frame.seq
    BY <2>1, <2>2, <2>3 DEF RelayStep
  <2>5. Agrees(h.on, h.frame)'
    BY <2>1, <2>3, <2>4, AgreesStays
  <2> QED BY <1>4, <2>1, <2>2, <2>5 DEF Handler
<1>5. CASE h.op = "end"
  BY <1>1, <1>5 DEF Handler, RowStep
<1>6. CASE h.op = "attach"
  <2>1. /\ h.on \in Sessions /\ Opened(h.on)' /\ h.row \in ShellRow /\ h.row.status \in _LIVE_STATES
        /\ h.row.status = "active" => Attached(h.on)'
        /\ h.gen \in Nat /\ h.gen <= agent.gen /\ (h.gen = agent.gen => agent.on = None)
    BY <1>1, <1>6 DEF Handler, RowStep
  <2>2. h.gen <= agent'.gen /\ (h.gen = agent'.gen => agent'.on = None)
    BY <1>2, <1>6, <2>1 DEF AgentStep
  <2> QED BY <1>6, <2>1, <2>2 DEF Handler
<1>7. CASE h.op = "output"
  <2>1. /\ h.on \in Sessions /\ Up(h.on) /\ Attached(h.on) /\ h.bytes \in Nat /\ h.frame \in OutFrame
        /\ h.frame.gen <= agent.gen /\ (h.frame.gen = agent.gen => agent.on = h.on)
        /\ relays[h.on].output.digests # <<>> /\ h.frame.gen <= Latest(relays[h.on].output).gen
    BY <1>1, <1>7 DEF Handler
  <2>2. /\ Up(h.on)' /\ Attached(h.on)' /\ relays'[h.on].output.digests # <<>>
        /\ h.frame.gen <= Latest(relays'[h.on].output).gen
    BY <2>1 DEF RowStep, RelayStep, OutFrame
  <2>3. h.frame.gen <= agent'.gen /\ (h.frame.gen = agent'.gen => agent'.on = h.on)
    BY <1>1, <1>2, <2>1 DEF AgentStep, OutFrame
  <2> QED BY <1>7, <2>1, <2>2, <2>3 DEF Handler, Latest
<1> QED BY <1>1, <1>3, <1>4, <1>5, <1>6, <1>7 DEF Handler

\* The frames that arrived after a digest follow it.
LEMMA ReadChained ==
  ASSUME NEW dir \in Direction(OutFrame), Ordered(dir), Chained(dir.digests),
         NEW at \in Nat, ~Refused(dir, at, at)
  PROVE  Chained(read(dir, at, at).digests) /\ Chained(After(dir, at))
<1>1. PICK new \in Direction(OutFrame), batch \in Seq(OutFrame) :
        new = read(dir, at, at) /\ batch = After(dir, at)
  BY ReadOrdered
<1>2. PICK n \in Nat, m \in Nat, last \in Nat : n = Len(dir.digests) /\ m = Len(new.digests) /\ last = dir.last
  BY DEF Direction
<1>3. /\ at <= dir.last /\ Len(new.digests) <= Len(dir.digests)
      /\ \A k \in 0..(Len(new.digests) - 1) :
           new.digests[Len(new.digests) - k] = dir.digests[Len(dir.digests) - k]
      /\ Len(batch) <= dir.last - at
      /\ \A i \in 1..Len(batch) : /\ dir.last - at - i < Len(dir.digests)
                                   /\ batch[i] = dir.digests[Len(dir.digests) - (dir.last - at - i)]
  BY <1>1, ReadOrdered
<1>4. /\ at <= last /\ m <= n
      /\ \A k \in 0..(m - 1) : new.digests[m - k] = dir.digests[n - k]
      /\ Len(batch) <= last - at
      /\ \A i \in 1..Len(batch) : last - at - i < n /\ batch[i] = dir.digests[n - (last - at - i)]
  BY <1>2, <1>3
<1>5. \A i \in 1..n : i > 1 => Follows(dir.digests[i - 1], dir.digests[i])
  BY <1>2 DEF Chained
<1>6. ASSUME NEW i \in 1..m, i > 1 PROVE Follows(new.digests[i - 1], new.digests[i])
  <2>1. PICK k \in 0..(m - 1), l \in 0..(m - 1) : k = m - i /\ l = m - (i - 1)
    BY <1>6
  <2>2. m - k = i /\ m - l = i - 1 /\ n - k \in 1..n /\ n - k > 1 /\ n - l = (n - k) - 1
    BY <1>4, <1>6, <2>1
  <2>3. new.digests[i] = dir.digests[n - k] /\ new.digests[i - 1] = dir.digests[(n - k) - 1]
    BY <1>4, <2>1, <2>2
  <2>4. Follows(dir.digests[(n - k) - 1], dir.digests[n - k])
    BY <1>5, <2>2
  <2> QED BY <2>3, <2>4
<1>7. ASSUME NEW i \in 1..Len(batch), i > 1 PROVE Follows(batch[i - 1], batch[i])
  <2>1. i - 1 \in 1..Len(batch)
    BY <1>7
  <2>2. PICK j \in 1..n : j = n - (last - at - i)
    BY <1>4
  <2>3. last - at - (i - 1) < n /\ j - 1 = n - (last - at - (i - 1))
    BY <1>4, <2>1, <2>2
  <2>4. batch[i] = dir.digests[j] /\ batch[i - 1] = dir.digests[j - 1]
    BY <1>4, <2>1, <2>2, <2>3
  <2>5. j > 1
    BY <2>2, <2>3
  <2> QED BY <1>5, <2>4, <2>5
<1> QED BY <1>1, <1>2, <1>6, <1>7 DEF Chained

\* What a page shows stays among the digests when a frame is accepted.
LEMMA ShowsAppended ==
  ASSUME NEW F, NEW dir \in Direction(F), Ordered(dir), NEW f \in F, f.seq \in Nat,
         append(dir, f) = "accepted",
         NEW start \in Nat, NEW screen, Len(screen) \in Nat, Shows(dir, start, screen)
  PROVE  Shows(Appended(dir, f), start, screen)
<1>1. PICK new : new = Appended(dir, f)
  OBVIOUS
<1>2. PICK n \in Nat, last \in Nat, shown \in Nat :
        n = Len(dir.digests) /\ last = dir.last /\ shown = start + Len(screen)
  BY DEF Direction
<1>3. /\ new.last = last + 1 /\ new.evicted = dir.evicted /\ Len(new.digests) = n + 1
      /\ \A i \in 1..n : new.digests[i] = dir.digests[i]
  BY <1>1, <1>2, AppendedOrdered
<1>4. dir.evicted <= shown /\ shown <= last /\ last - shown < n
      /\ dir.digests[n - (last - shown)] = screen[Len(screen)]
  BY <1>2 DEF Shows
<1>5. (n + 1) - ((last + 1) - shown) = n - (last - shown) /\ n - (last - shown) \in 1..n
  BY <1>4
<1>6. new.digests[(n + 1) - ((last + 1) - shown)] = screen[Len(screen)]
  BY <1>3, <1>4, <1>5
<1>7. shown <= last + 1 /\ (last + 1) - shown < n + 1
  BY <1>4
<1> QED BY <1>1, <1>2, <1>3, <1>4, <1>6, <1>7 DEF Shows

-----------------------------------------------------------------------------
(* What stays, whatever the step *)

\* A relay whose digests are old ones, or none.
LEMMA RelayStays ==
  ASSUME ShellInv, RowStep, AgentStep, NEW s \in Sessions, Up(s)',
         relays'[s] \in SessionRelay, Ordered(relays'[s].input), Ordered(relays'[s].output),
         Chained(relays'[s].output.digests),
         relays'[s].output.digests # <<>> =>
           /\ Up(s) /\ relays[s].output.digests # <<>>
           /\ Latest(relays'[s].output) = Latest(relays[s].output)
           /\ Digests(relays'[s].output) \subseteq Digests(relays[s].output)
  PROVE  Relay(s)'
<1>1. CASE relays'[s].output.digests = <<>>
  <2>1. Digests(relays'[s].output) = {}
    BY <1>1 DEF Digests
  <2> QED BY <1>1, <2>1 DEF Relay, Sent, Digests, Latest
<1>2. CASE relays'[s].output.digests # <<>>
  <2>1. Up(s) /\ Sent(s) /\ Attached(s)'
    BY <1>2 DEF ShellInv, Relay, Sent, RowStep
  <2>2. ASSUME NEW d \in Digests(relays'[s].output)
        PROVE  Counted(s, d)' /\ d.gen <= Latest(relays'[s].output).gen
    <3>1. Counted(s, d) /\ d.gen <= Latest(relays[s].output).gen /\ d \in OutFrame
      <4>1. d \in Digests(relays[s].output)
        BY <1>2, <2>2
      <4>2. relays[s].output \in Direction(OutFrame) /\ Ordered(relays[s].output)
        BY <2>1 DEF ShellInv, Relay, SessionRelay
      <4>3. d \in OutFrame
        BY <4>1, <4>2, OrderedDigests
      <4> QED BY <2>1, <4>1, <4>3 DEF Sent
    <3>2. d.gen \in Nat /\ agent.gen \in Nat /\ agent'.gen \in Nat /\ s # None
      BY <3>1, ShellAssumption DEF OutFrame, ShellInv, AgentStep, Agent
    <3>3. Counted(s, d)'
      BY <3>1, <3>2 DEF Counted, AgentStep
    <3> QED BY <1>2, <3>1, <3>3
  <2>3. Sent(s)'
    BY <1>2, <2>1, <2>2 DEF Sent, Latest, Digests
  <2> QED BY <2>3 DEF Relay
<1> QED BY <1>1, <1>2

\* A relay that is made is empty in both directions.
LEMMA CreatedRelay ==
  ASSUME NEW i \in Nat, NEW o \in Nat
  PROVE  LET new == create(i, o) IN
         /\ new \in SessionRelay /\ new.up /\ Ordered(new.input) /\ Ordered(new.output)
         /\ new.input.digests = <<>> /\ new.output.digests = <<>>
         /\ Chained(new.output.digests) /\ Digests(new.input) = {}
<1>1. /\ _Direction(i) \in Direction(InFrame) /\ _Direction(o) \in Direction(OutFrame)
      /\ _Direction(i).digests = <<>> /\ _Direction(o).digests = <<>>
      /\ Ordered(_Direction(i)) /\ Ordered(_Direction(o))
  BY DEF _Direction, Direction, Ordered
<1>2. PICK in \in Direction(InFrame), out \in Direction(OutFrame) : in = _Direction(i) /\ out = _Direction(o)
  BY <1>1
<1>3. create(i, o) = [up |-> TRUE, closed |-> FALSE, input |-> in, output |-> out]
  BY <1>2 DEF create
<1>4. create(i, o) \in SessionRelay /\ create(i, o).up /\ create(i, o).input = in /\ create(i, o).output = out
  BY <1>3 DEF SessionRelay
<1>5. Chained(out.digests) /\ Digests(in) = {}
  BY <1>1, <1>2 DEF Chained, Digests
<1> QED BY <1>1, <1>2, <1>4, <1>5

\* A relay that is left alone, closed, or lost.
LEMMA RelaySame ==
  ASSUME ShellInv, RowStep, AgentStep, NEW s \in Sessions,
         \/ relays'[s] = relays[s]
         \/ Up(s) /\ relays'[s] = [relays[s] EXCEPT !.closed = TRUE]
         \/ relays'[s] = NoRelay
  PROVE  Relay(s)'
<1>1. CASE ~Up(s)'
  BY <1>1 DEF Relay, ShellInv, SessionRelay, Up
<1>2. CASE Up(s)'
  <2>1. Up(s)
    BY <1>2 DEF Up, NoRelay
  <2>2. relays[s] \in SessionRelay /\ Ordered(relays[s].input) /\ Ordered(relays[s].output) /\ Sent(s)
    BY <2>1 DEF ShellInv, Relay
  <2>3. /\ relays'[s] \in SessionRelay /\ relays'[s].input = relays[s].input
        /\ relays'[s].output = relays[s].output
    <3>1. CASE relays'[s] = relays[s]
      BY <2>2, <3>1
    <3>2. CASE relays'[s] = [relays[s] EXCEPT !.closed = TRUE]
      <4>1. PICK r \in SessionRelay : r = relays[s]
        BY <2>2
      <4>2. relays'[s] = [r EXCEPT !.closed = TRUE]
        BY <3>2, <4>1
      <4> QED BY <4>1, <4>2 DEF SessionRelay
    <3>3. relays'[s] # NoRelay
      BY <1>2 DEF Up, NoRelay
    <3> QED BY <3>1, <3>2, <3>3
  <2> QED BY <1>2, <2>1, <2>2, <2>3, RelayStays DEF Sent
<1> QED BY <1>1, <1>2

\* The shell goes on, or has ended.
LEMMA ShellStays ==
  ASSUME ShellInv, RowStep, agent' \in Agent,
         agent'.on # None => RelayStep /\ (\A s \in Sessions : Relay(s)'),
         \/ agent' = [agent EXCEPT !.fails = TRUE] \/ agent' = agent
         \/ agent'.on = None /\ agent'.got = <<>> /\ agent'.after = 0
  PROVE  Shell'
<1>1. CASE agent'.on = None /\ agent'.got = <<>> /\ agent'.after = 0
  BY <1>1 DEF Shell
<1>2. CASE agent' = [agent EXCEPT !.fails = TRUE] \/ agent' = agent
  <2>1. PICK on, got, gen : on = agent.on /\ got = agent.got /\ gen = agent.gen
    OBVIOUS
  <2>2. /\ agent'.on = on /\ agent'.got = got /\ agent'.gen = gen /\ agent'.after = agent.after
        /\ agent'.base = agent.base /\ agent'.outputSeq = agent.outputSeq
        /\ on \in Sessions \cup {None} /\ got \in Seq(InFrame) /\ gen \in Nat
    BY <1>2, <2>1 DEF ShellInv, Agent
  <2>3. /\ agent.after = Len(got) /\ (\A i \in 1..Len(got) : got[i].seq = i) /\ (on = None => got = <<>>)
    BY <2>1 DEF ShellInv, Shell
  <2>4. ASSUME on # None
        PROVE  /\ Attached(on)' /\ agent.base <= agent.outputSeq
               /\ Up(on)' =>
                    /\ Len(got) <= relays'[on].input.last
                    /\ \A i \in 1..Len(got) : \A d \in Digests(relays'[on].input) : d.seq = i => d = got[i]
                    /\ agent.outputSeq > agent.base =>
                         relays'[on].output.digests # <<>> /\ Latest(relays'[on].output).gen = gen
    <3>1. on \in Sessions /\ Attached(on) /\ agent.base <= agent.outputSeq /\ Attached(on)'
      BY <2>1, <2>2, <2>4 DEF ShellInv, Shell, RowStep
    <3> SUFFICES ASSUME Up(on)'
                 PROVE  /\ Len(got) <= relays'[on].input.last
                        /\ \A i \in 1..Len(got) : \A d \in Digests(relays'[on].input) : d.seq = i => d = got[i]
                        /\ agent.outputSeq > agent.base =>
                             relays'[on].output.digests # <<>> /\ Latest(relays'[on].output).gen = gen
      BY <3>1
    <3>2. RelayStep /\ Up(on)
      BY <2>2, <2>4, <3>1 DEF RelayStep
    <3>3. /\ Len(got) <= relays[on].input.last
          /\ \A i \in 1..Len(got) : \A d \in Digests(relays[on].input) : d.seq = i => d = got[i]
          /\ agent.outputSeq > agent.base =>
               relays[on].output.digests # <<>> /\ Latest(relays[on].output).gen = gen
      BY <2>1, <2>4, <3>2 DEF ShellInv, Shell
    <3>4. Len(got) <= relays'[on].input.last
      BY <2>2, <3>1, <3>2, <3>3 DEF RelayStep
    <3>5. ASSUME NEW i \in 1..Len(got), NEW d \in Digests(relays'[on].input), d.seq = i PROVE d = got[i]
      <4>1. relays[on].input.last \in Nat
        BY <3>1, <3>2 DEF ShellInv, Relay, SessionRelay, Direction
      <4>2. d \in Digests(relays[on].input) \/ d.seq > relays[on].input.last
        BY <3>1, <3>2 DEF RelayStep
      <4>3. ~(d.seq > relays[on].input.last)
        BY <2>2, <3>3, <3>5, <4>1
      <4> QED BY <3>3, <3>5, <4>2, <4>3
    <3>6. ASSUME agent.outputSeq > agent.base
          PROVE  relays'[on].output.digests # <<>> /\ Latest(relays'[on].output).gen = gen
      <4>1. /\ relays'[on].output.digests # <<>>
            /\ gen <= Latest(relays'[on].output).gen
        BY <2>2, <3>1, <3>2, <3>3, <3>6 DEF RelayStep
      <4>2. Relay(on)' /\ relays'[on].output \in Direction(OutFrame) /\ Ordered(relays'[on].output) /\ Sent(on)'
        BY <2>2, <2>4, <3>1 DEF Relay, SessionRelay
      <4>3. PICK l : l = Latest(relays'[on].output) /\ l \in Digests(relays'[on].output)
        <5>1. Len(relays'[on].output.digests) \in 1..Len(relays'[on].output.digests)
          BY <4>1, <4>2 DEF Direction
        <5> QED BY <5>1 DEF Latest, Digests
      <4>4. l \in OutFrame
        BY <4>2, <4>3, OrderedDigests
      <4>5. l.gen <= gen
        BY <2>2, <4>2, <4>3 DEF Sent, Counted, Digests
      <4> QED BY <2>2, <4>1, <4>3, <4>4, <4>5 DEF OutFrame
    <3> QED BY <3>4, <3>5, <3>6
  <2> QED BY <2>1, <2>2, <2>3, <2>4 DEF Shell, Latest, Digests
<1> QED BY <1>1, <1>2

\* A page that is written anew.
LEMMA PageMade ==
  ASSUME NEW o \in Operators, NEW p \in Panel, panels'[o] = p, p.on # None,
         \A j \in 1..Len(p.said) : p.said[j].seq <= p.inputSeq,
         \A i \in 1..Len(p.screen) : p.screen[i].seq = p.start + i,
         Chained(p.screen),
         Opened(p.on)', sessions'[p.on].owner = o,
         \A j \in 1..Len(p.said) : Agrees(p.on, p.said[j])',
         p.screen # <<>> => Attached(p.on)',
         p.screen # <<>> /\ Up(p.on)' => Shows(relays'[p.on].output, p.start, p.screen)
  PROVE  Page(o)'
BY DEF Page, Opened, Up, Attached, Agrees, Digests, Shows

\* A page that does nothing.
LEMMA PageStays ==
  ASSUME ShellInv, RowStep, AgentStep, NEW o \in Operators, panels'[o] = panels[o],
         panels[o].on # None /\ relays'[panels[o].on].up =>
           /\ Up(panels[o].on) \/ ~Attached(panels[o].on)
           /\ \A d \in Digests(relays'[panels[o].on].input) :
                (Up(panels[o].on) /\ d \in Digests(relays[panels[o].on].input)) \/ d.seq > panels[o].inputSeq
           /\ Up(panels[o].on) /\ Shows(relays[panels[o].on].output, panels[o].start, panels[o].screen) =>
                Shows(relays'[panels[o].on].output, panels[o].start, panels[o].screen)
  PROVE  Page(o)'
<1>1. PICK p \in Panel : p = panels[o]
  BY DEF ShellInv
<1>2. /\ p.on \in Sessions \cup {None} /\ p.said \in Seq(InFrame) /\ p.inputSeq \in Nat /\ p.start \in Nat
      /\ p.screen \in Seq(OutFrame) /\ None \notin Sessions
  BY <1>1, ShellAssumption DEF Panel
<1>3. /\ \A j \in 1..Len(p.said) : p.said[j].seq <= p.inputSeq
      /\ \A i \in 1..Len(p.screen) : p.screen[i].seq = p.start + i
      /\ Chained(p.screen)
      /\ p.on = None => p.said = <<>> /\ p.screen = <<>>
  BY <1>1 DEF ShellInv, Page
<1>4. ASSUME p.on # None
      PROVE  /\ Opened(p.on)' /\ sessions'[p.on].owner = o
             /\ \A j \in 1..Len(p.said) : Agrees(p.on, p.said[j])'
             /\ p.screen # <<>> => Attached(p.on)'
             /\ p.screen # <<>> /\ Up(p.on)' => Shows(relays'[p.on].output, p.start, p.screen)
  <2>1. /\ p.on \in Sessions /\ Opened(p.on) /\ sessions[p.on].owner = o
        /\ \A j \in 1..Len(p.said) : Agrees(p.on, p.said[j])
        /\ p.screen # <<>> => Attached(p.on)
        /\ p.screen # <<>> /\ Up(p.on) => Shows(relays[p.on].output, p.start, p.screen)
    BY <1>1, <1>2, <1>4 DEF ShellInv, Page
  <2>2. ASSUME NEW j \in 1..Len(p.said) PROVE Agrees(p.on, p.said[j])'
    <3>3. p.said[j] \in InFrame
      BY <1>2
    <3>1. p.said[j].seq \in Nat /\ p.said[j].seq <= p.inputSeq
      BY <1>3, <3>3 DEF InFrame
    <3>2. Up(p.on)' => \A d \in Digests(relays'[p.on].input) :
            (Up(p.on) /\ d \in Digests(relays[p.on].input)) \/ d.seq # p.said[j].seq
      BY <1>1, <1>2, <1>4, <3>1 DEF Up
    <3> QED BY <2>1, <3>1, <3>2, AgreesStays
  <2>3. ASSUME p.screen # <<>>, Up(p.on)' PROVE Shows(relays'[p.on].output, p.start, p.screen)
    BY <1>1, <1>4, <2>1, <2>3 DEF Up
  <2>4. Opened(p.on)' /\ sessions'[p.on].owner = o /\ (p.screen # <<>> => Attached(p.on)')
    BY <2>1 DEF RowStep
  <2> QED BY <2>2, <2>3, <2>4
<1>5. panels'[o] = p
  BY <1>1
<1> QED BY <1>3, <1>4, <1>5 DEF Page, Opened, Up, Attached, Agrees, Digests, Shows

\* A step that leaves the rows, the relays or the endpoint alone.
LEMMA Unchanged ==
  ASSUME ShellInv
  PROVE  /\ sessions' = sessions => RowStep
         /\ relays' = relays => RelayStep
         /\ agent' = agent => AgentStep
<1>1. ASSUME sessions' = sessions PROVE RowStep
  BY <1>1 DEF ShellInv, RowStep, Opened, Attached
<1>2. ASSUME relays' = relays PROVE RelayStep
  BY <1>2 DEF RelayStep, Up, Latest, Digests
<1>3. ASSUME agent' = agent PROVE AgentStep
  <2>1. Len(agent.got) \in Nat /\ agent \in Agent
    BY DEF ShellInv, Agent
  <2> QED BY <1>3, <2>1 DEF AgentStep
<1> QED BY <1>1, <1>2, <1>3

\* What a page of a session shows still agrees while no relay and no page changes.
LEMMA PagesStay ==
  ASSUME ShellInv, RowStep, AgentStep, panels' = panels, relays' = relays
  PROVE  \A o \in Operators : Page(o)'
<1> SUFFICES ASSUME NEW o \in Operators PROVE Page(o)'
  OBVIOUS
<1>1. panels[o].on # None /\ relays'[panels[o].on].up =>
           /\ Up(panels[o].on)
           /\ \A d \in Digests(relays'[panels[o].on].input) : d \in Digests(relays[panels[o].on].input)
           /\ Up(panels[o].on) /\ Shows(relays[panels[o].on].output, panels[o].start, panels[o].screen) =>
                Shows(relays'[panels[o].on].output, panels[o].start, panels[o].screen)
  BY DEF Up
<1> QED BY <1>1, PageStays

\* The handlers after a step that starts and ends some.
LEMMA HandlersStay ==
  ASSUME ShellInv, RowStep, RelayStep, AgentStep,
         handlers' \subseteq handlers,
         \A h \in handlers' : h.op = "open" => ~Opened(h.on)',
         \A h \in handlers' : h.op = "attach" /\ agent.on = None /\ agent'.on # None => h.gen # agent.gen
  PROVE  Handlers'
<1>1. \A h \in handlers' : Handler(h)'
  BY HandlerStays
<1>2. \A h, g \in handlers' :
        /\ h.op = "open" /\ g.op = "open" /\ h.on = g.on => h = g
        /\ h.op = "attach" /\ g.op = "attach" /\ h.gen = g.gen => h = g
  BY DEF ShellInv, Handlers
<1> QED BY <1>1, <1>2 DEF Handlers

\* A handler starts with what it loaded, beside the ones that run already.
LEMMA HandlerStarts ==
  ASSUME ShellInv, sessions' = sessions, RelayStep, AgentStep, agent'.on = agent.on \/ agent'.on = None,
         NEW new, handlers' = handlers \cup {new}, Handler(new)',
         \A h \in handlers : /\ h.op = "open" /\ new.op = "open" => h.on # new.on
                             /\ h.op = "attach" /\ new.op = "attach" => h.gen # new.gen
  PROVE  Handlers'
<1>1. RowStep
  BY Unchanged
<1>2. ASSUME NEW h \in handlers PROVE Handler(h)'
  <2>1. h.op = "open" => ~Opened(h.on)'
    BY DEF ShellInv, Handlers, Handler, Opened
  <2> QED BY <1>1, <2>1, HandlerStays
<1>3. \A h \in handlers' : Handler(h)'
  BY <1>2
<1>4. \A h, g \in handlers' :
        /\ h.op = "open" /\ g.op = "open" /\ h.on = g.on => h = g
        /\ h.op = "attach" /\ g.op = "attach" /\ h.gen = g.gen => h = g
  BY DEF ShellInv, Handlers
<1> QED BY <1>3, <1>4 DEF Handlers

\* A set of numbers that is not empty has a least one.
LEMMA LeastNumber ==
  ASSUME NEW S \in SUBSET Nat, S # {} PROVE \E x \in S : \A y \in S : x <= y
<1>1. PICK R : R = OpToRel(<, Nat) /\ IsWellFoundedOn(R, Nat)
  BY NatLessThanWellFounded
<1>2. \A x, y \in Nat : x < y => <<x, y>> \in R
  BY <1>1 DEF OpToRel
<1>3. PICK x \in S : \A y \in S : ~ (<<y, x>> \in R)
  BY <1>1, WFMin
<1>4. \A y \in S : ~(y < x)
  BY <1>2, <1>3
<1> QED BY <1>4

\* The oldest live session is a live one.
LEMMA OldestLives ==
  ASSUME ShellInv, Live # {}
  PROVE  Oldest \in Live
<1> DEFINE Born == {sessions[s].born : s \in Live}
<1>1. PICK r \in Live : TRUE
  OBVIOUS
<1>2. Born \subseteq Nat /\ sessions[r].born \in Born
  BY DEF ShellInv, ShellRow, Live
<1>3. PICK n \in Born : \A m \in Born : n <= m
  <2>1. Born \in SUBSET Nat /\ Born # {}
    BY <1>2
  <2> HIDE DEF Born
  <2> QED BY <2>1, LeastNumber
<1>4. PICK s \in Live : sessions[s].born = n
  OBVIOUS
<1>5. \A q \in Live : sessions[s].born <= sessions[q].born
  BY <1>3, <1>4
<1> QED BY <1>5 DEF Oldest

\* The invariant after a step that leaves the relays alone.
LEMMA RelaysLeft ==
  ASSUME ShellInv, RowStep, AgentStep, relays' = relays, now' \in Nat, Shell',
         panels' \in [Operators -> Panel], \A o \in Operators : Page(o)', Handlers'
  PROVE  ShellInv'
<1>1. \A s \in Sessions : Relay(s)'
  BY RelaySame
<1> QED BY <1>1 DEF ShellInv, RowStep, AgentStep

-----------------------------------------------------------------------------
(* The operator's steps *)

\* A row that is written keeps its state and its owner.
LEMMA TouchedRow ==
  ASSUME ShellInv, NEW s \in Sessions, NEW row \in ShellRow,
         sessions' = [sessions EXCEPT ![s] = _touch(row)],
         row.owner = sessions[s].owner,
         Opened(s) => row.status # "absent",
         Attached(s) => row.status \notin {"absent", "pending"}
  PROVE  RowStep /\ sessions'[s].status = row.status
<1>1. PICK idle \in Nat : idle = IF now + IdleTimeout < row.absolute THEN now + IdleTimeout ELSE row.absolute
  BY ShellAssumption DEF ShellInv, ShellRow
<1>2. PICK new \in ShellRow : new = [row EXCEPT !.idle = idle]
  BY DEF ShellRow
<1>5. new.status = row.status /\ new.owner = row.owner
  BY <1>2 DEF ShellRow
<1>3. sessions' = [sessions EXCEPT ![s] = new]
  BY <1>1, <1>2 DEF _touch
<1>4. /\ sessions' \in [Sessions -> ShellRow] /\ sessions'[s] = new
      /\ \A q \in Sessions : q # s => sessions'[q] = sessions[q]
  BY <1>3 DEF ShellInv
<1> QED BY <1>4, <1>5 DEF RowStep, Opened, Attached

\* A page that takes a session shows nothing of it yet.
LEMMA ShownPages ==
  ASSUME ShellInv, RowStep, AgentStep, relays' = relays,
         NEW o \in Operators, NEW s \in Sessions, NEW row \in ShellRow,
         Shown(o, s, row), Opened(s)', sessions'[s].owner = o
  PROVE  panels' \in [Operators -> Panel] /\ \A q \in Operators : Page(q)'
<1>1. PICK seq \in Nat, start \in Nat :
        /\ seq = row.client_last_seq
        /\ start = IF row.status = "active" THEN row.agent_last_seq ELSE 0
  BY DEF ShellRow
<1>2. PICK p \in Panel : /\ p = [NoPanel EXCEPT !.on = s, !.inputSeq = seq, !.start = start]
                         /\ p.on = s /\ p.said = <<>> /\ p.screen = <<>>
  <2>4. NoPanel \in Panel /\ NoPanel.said = <<>> /\ NoPanel.screen = <<>>
    BY DEF NoPanel, Panel
  <2>1. PICK blank \in Panel : blank = NoPanel /\ blank.said = <<>> /\ blank.screen = <<>>
    BY <2>4
  <2>2. PICK p \in Panel : p = [blank EXCEPT !.on = s, !.inputSeq = seq, !.start = start]
    BY DEF Panel
  <2>3. p.on = s /\ p.said = <<>> /\ p.screen = <<>>
    BY <2>1, <2>2 DEF Panel
  <2> QED BY <2>1, <2>2, <2>3
<1>3. panels' = [panels EXCEPT ![o] = p]
  BY <1>1, <1>2 DEF Shown
<1>4. panels' \in [Operators -> Panel] /\ panels'[o] = p
  BY <1>3 DEF ShellInv
<1>5. Page(o)'
  BY <1>2, <1>4 DEF Page, Chained, Opened, Follows
<1>6. ASSUME NEW q \in Operators, q # o PROVE Page(q)'
  <2>1. panels'[q] = panels[q]
    BY <1>3, <1>6 DEF ShellInv
  <2>2. panels[q].on # None /\ relays'[panels[q].on].up =>
           /\ Up(panels[q].on)
           /\ \A d \in Digests(relays'[panels[q].on].input) : d \in Digests(relays[panels[q].on].input)
           /\ Up(panels[q].on) /\ Shows(relays[panels[q].on].output, panels[q].start, panels[q].screen) =>
                Shows(relays'[panels[q].on].output, panels[q].start, panels[q].screen)
    BY DEF Up
  <2> QED BY <2>1, <2>2, PageStays
<1> QED BY <1>4, <1>5, <1>6

\* Opening a session finds the one that is live, or leaves a handler with a new one.
LEMMA OpenLoadStep ==
  ASSUME ShellInv, NEW o \in Operators, open_shell_session_load(o)
  PROVE  ShellInv'
<1>1. /\ sessions' = sessions /\ agent' = agent /\ now' = now /\ RowStep /\ AgentStep
  BY Unchanged DEF open_shell_session_load
<1>2. CASE /\ Live # {} /\ sessions[Oldest].owner = o
           /\ Shown(o, Oldest, sessions[Oldest])
           /\ UNCHANGED <<relays, handlers>>
  <2>6. PICK s \in Live : s = Oldest
    BY <1>2, OldestLives
  <2>7. PICK row \in ShellRow : row = sessions[s]
    BY DEF ShellInv, Live
  <2>1. s \in Sessions /\ Opened(s)' /\ sessions'[s].owner = o
    BY <1>1, <1>2, <2>6 DEF Live, Opened, _LIVE_STATES
  <2>8. Shown(o, s, row) /\ relays' = relays
    BY <1>2, <2>6, <2>7
  <2>2. RelayStep
    BY <1>2, Unchanged
  <2>3. panels' \in [Operators -> Panel] /\ \A q \in Operators : Page(q)'
    BY <1>1, <2>1, <2>8, ShownPages
  <2>4. Shell'
    BY <1>1, <1>2, <2>2, RelaySame, ShellStays DEF AgentStep
  <2>5. Handlers'
    BY <1>1, <1>2, <2>2, HandlersStay DEF ShellInv, Handlers, Handler, Opened
  <2> QED BY <1>1, <1>2, <2>3, <2>4, <2>5, RelaysLeft DEF ShellInv
<1>3. CASE /\ UNCHANGED panels
           /\ \E s \in Sessions :
                /\ sessions[s].status = "absent" /\ ~relays[s].up
                /\ relays' = [relays EXCEPT ![s] = create(0, 0)]
                /\ Start([op |-> "open", on |-> s, by |-> o, at |-> now])
  <2>1. PICK s \in Sessions :
          /\ sessions[s].status = "absent" /\ ~relays[s].up
          /\ relays' = [relays EXCEPT ![s] = create(0, 0)]
          /\ Start([op |-> "open", on |-> s, by |-> o, at |-> now])
    BY <1>3
  <2>2. PICK new : new = [op |-> "open", on |-> s, by |-> o, at |-> now]
    OBVIOUS
  <2>3. /\ \A q \in Sessions : q # s => relays'[q] = relays[q]
        /\ relays'[s] = create(0, 0) /\ relays' = [q \in Sessions |-> relays'[q]]
    BY <2>1 DEF ShellInv
  <2>4. ~Opened(s) /\ ~Attached(s) /\ ~Up(s)
    BY <2>1 DEF Opened, Attached, Up
  <2>5. /\ relays'[s] \in SessionRelay /\ Ordered(relays'[s].input) /\ Ordered(relays'[s].output)
        /\ relays'[s].input.digests = <<>> /\ relays'[s].output.digests = <<>> /\ Up(s)'
        /\ Chained(relays'[s].output.digests) /\ Digests(relays'[s].input) = {}
    <3>1. PICK made : made = create(0, 0)
      OBVIOUS
    <3>2. /\ made \in SessionRelay /\ made.up /\ Ordered(made.input) /\ Ordered(made.output)
          /\ made.input.digests = <<>> /\ made.output.digests = <<>>
          /\ Chained(made.output.digests) /\ Digests(made.input) = {}
      BY <3>1, CreatedRelay
    <3> QED BY <2>3, <3>1, <3>2 DEF Up
  <2>6. RelayStep
    BY <2>3, <2>4, <2>5 DEF RelayStep, Up, Digests, Latest, Attached
  <2>7. \A q \in Sessions : Relay(q)'
    BY <1>1, <2>3, <2>5, RelaySame, RelayStays
  <2>8. Shell'
    BY <1>1, <2>6, <2>7, ShellStays DEF AgentStep
  <2>9. Handler(new)'
    <3>1. /\ new.op = "open" /\ new.on = s /\ new.by = o /\ new.at = now
      BY <2>2
    <3> QED BY <1>1, <2>4, <2>5, <3>1 DEF Handler, ShellInv, Opened
  <2>10. Handlers'
    <3>1. handlers' = handlers \cup {new} /\ new.op = "open" /\ new.on = s
      BY <2>1, <2>2 DEF Start
    <3>2. \A h \in handlers : h.op = "open" => h.on # s
      BY <2>4 DEF ShellInv, Handlers, Handler
    <3> QED BY <1>1, <2>6, <2>9, <3>1, <3>2, HandlerStarts
  <2>11. ASSUME NEW q \in Operators PROVE Page(q)'
    <3>1. CASE panels[q].on = s
      BY <2>4, <3>1, ShellAssumption DEF ShellInv, Page
    <3>2. CASE panels[q].on # s
      <4>1. panels'[q] = panels[q] /\ panels[q].on \in Sessions \cup {None}
        BY <1>3 DEF ShellInv, Panel
      <4>2. panels[q].on # None => relays'[panels[q].on] = relays[panels[q].on]
        BY <2>3, <3>2, <4>1
      <4> QED BY <1>1, <4>1, <4>2, PageStays DEF Up
    <3> QED BY <3>1, <3>2
  <2> QED BY <1>1, <1>3, <2>3, <2>7, <2>8, <2>10, <2>11 DEF ShellInv, RowStep, AgentStep
<1> QED BY <1>2, <1>3 DEF open_shell_session_load

\* The handler of an open commits the row, whose relay it made when it loaded.
LEMMA OpenStep ==
  ASSUME ShellInv, NEW h \in handlers, open_shell_session(h)
  PROVE  ShellInv'
<1>1. /\ h.op = "open" /\ h.on \in Sessions /\ h.by \in Operators /\ h.at \in Nat /\ ~Opened(h.on)
  BY DEF ShellInv, Handlers, Handler, open_shell_session
<1>2. PICK row \in ShellRow :
        /\ row = [Row EXCEPT !.status = "pending", !.owner = h.by, !.born = h.at,
                             !.absolute = h.at + MaxLifetime, !.idle = h.at + IdleTimeout]
        /\ row.status = "pending" /\ row.owner = h.by
  <2>1. h.at + MaxLifetime \in Nat /\ h.at + IdleTimeout \in Nat
    BY <1>1, ShellAssumption
  <2>2. PICK absolute \in Nat, idle \in Nat : absolute = h.at + MaxLifetime /\ idle = h.at + IdleTimeout
    BY <2>1
  <2>3. PICK blank \in ShellRow : blank = Row
    BY DEF Row, ShellRow
  <2>4. PICK made \in ShellRow :
          made = [blank EXCEPT !.status = "pending", !.owner = h.by, !.born = h.at,
                               !.absolute = absolute, !.idle = idle]
    BY <1>1 DEF ShellRow, _LIVE_STATES
  <2>5. made.status = "pending" /\ made.owner = h.by
    BY <2>4 DEF ShellRow
  <2> QED BY <2>2, <2>3, <2>4, <2>5
<1>3. /\ sessions' = [sessions EXCEPT ![h.on] = row] /\ handlers' = handlers \ {h}
      /\ Shown(h.by, h.on, row) \/ panels' = panels
      /\ now' = now /\ relays' = relays /\ agent' = agent
  BY <1>2 DEF open_shell_session, Ends
<1>4. /\ sessions'[h.on] = row /\ \A s \in Sessions : s # h.on => sessions'[s] = sessions[s]
      /\ sessions' \in [Sessions -> ShellRow]
  BY <1>1, <1>3 DEF ShellInv
<1>5. RowStep
  BY <1>1, <1>2, <1>4 DEF RowStep, Opened, Attached
<1>6. AgentStep /\ RelayStep
  BY <1>3, Unchanged
<1>7. Shell'
  BY <1>3, <1>5, <1>6, RelaySame, ShellStays DEF AgentStep
<1>8. Handlers'
  <2>1. ASSUME NEW g \in handlers', g.op = "open" PROVE ~Opened(g.on)'
    <3>1. g \in handlers /\ g # h /\ g.on # h.on /\ g.on \in Sessions /\ ~Opened(g.on)
      BY <1>1, <1>3, <2>1 DEF ShellInv, Handlers, Handler
    <3> QED BY <1>4, <3>1 DEF Opened
  <2> QED BY <1>3, <1>5, <1>6, <2>1, HandlersStay
<1>9. panels' \in [Operators -> Panel] /\ \A q \in Operators : Page(q)'
  <2>1. CASE Shown(h.by, h.on, row)
    <3>1. Opened(h.on)' /\ sessions'[h.on].owner = h.by
      BY <1>2, <1>4 DEF Opened
    <3> QED BY <1>1, <1>3, <1>5, <1>6, <2>1, <3>1, ShownPages
  <2>2. CASE panels' = panels
    BY <1>3, <1>5, <1>6, <2>2, PagesStay DEF ShellInv
  <2> QED BY <1>3, <2>1, <2>2
<1> QED BY <1>3, <1>5, <1>6, <1>7, <1>8, <1>9, RelaysLeft DEF ShellInv

\* A page that is loaded again says nothing and shows nothing.
LEMMA ReloadStep ==
  ASSUME ShellInv, NEW o \in Operators, panel_reloads(o)
  PROVE  ShellInv'
<1>1. /\ sessions' = sessions /\ agent' = agent /\ now' = now /\ relays' = relays /\ handlers' = handlers
      /\ panels' = [panels EXCEPT ![o] = NoPanel]
  BY DEF panel_reloads
<1>2. RowStep /\ AgentStep /\ RelayStep
  BY <1>1, Unchanged
<1>3. NoPanel \in Panel /\ NoPanel.on = None /\ NoPanel.said = <<>> /\ NoPanel.screen = <<>>
  BY DEF NoPanel, Panel
<1>4. panels' \in [Operators -> Panel] /\ panels'[o] = NoPanel
  BY <1>1, <1>3 DEF ShellInv
<1>5. Page(o)'
  BY <1>3, <1>4 DEF Page, Chained, Follows
<1>6. ASSUME NEW q \in Operators, q # o PROVE Page(q)'
  <2>1. panels'[q] = panels[q]
    BY <1>1, <1>6 DEF ShellInv
  <2> QED BY <1>1, <1>2, <2>1, PageStays DEF Up
<1>7. Shell'
  BY <1>1, <1>2, RelaySame, ShellStays DEF AgentStep
<1>8. Handlers'
  BY <1>1, <1>2, HandlersStay DEF ShellInv, Handlers, Handler, Opened
<1> QED BY <1>1, <1>2, <1>4, <1>5, <1>6, <1>7, <1>8, RelaysLeft DEF ShellInv

\* An input frame is the operator's next, or one the relay already has.
LEMMA InputLoadStep ==
  ASSUME ShellInv, NEW o \in Operators, send_shell_input_load(o)
  PROVE  ShellInv'
<1>16. PICK text \in Inputs :
         LET on == panels[o].on
             f == [seq |-> panels[o].inputSeq + 1, text |-> text]
         IN  /\ on # None /\ Serving(on)
             /\ append(relays[on].input, f) \in {"accepted", "repeated"}
             /\ relays' = IF append(relays[on].input, f) = "repeated" THEN relays
                          ELSE [relays EXCEPT ![on].input = Appended(@, f)]
             /\ Start([op |-> "input", on |-> on, by |-> o, frame |-> f,
                       accepted |-> append(relays[on].input, f) = "accepted"])
  BY Zenon DEF send_shell_input_load
<1>17. PICK s : s = panels[o].on
  OBVIOUS
<1>18. PICK frame : frame = [seq |-> panels[o].inputSeq + 1, text |-> text]
  OBVIOUS
<1>1.   /\ s = panels[o].on /\ frame = [seq |-> panels[o].inputSeq + 1, text |-> text]
        /\ s # None /\ Serving(s)
        /\ append(relays[s].input, frame) \in {"accepted", "repeated"}
        /\ relays' = IF append(relays[s].input, frame) = "repeated" THEN relays
                     ELSE [relays EXCEPT ![s].input = Appended(@, frame)]
        /\ Start([op |-> "input", on |-> s, by |-> o, frame |-> frame,
                  accepted |-> append(relays[s].input, frame) = "accepted"])
  BY <1>16, <1>17, <1>18, Zenon
<1>2. /\ sessions' = sessions /\ agent' = agent /\ now' = now /\ panels' = panels /\ RowStep /\ AgentStep
  BY Unchanged DEF send_shell_input_load
<1>3. PICK p \in Panel : p = panels[o]
  BY DEF ShellInv
<1>4. /\ s \in Sessions /\ Up(s) /\ Opened(s) /\ sessions[s].owner = o /\ frame.seq = p.inputSeq + 1
      /\ frame \in InFrame /\ p.inputSeq \in Nat
  BY <1>1, <1>3 DEF ShellInv, Panel, Page, InFrame, Serving, Up
<1>5. PICK in \in Direction(InFrame), out \in Direction(OutFrame), last \in Nat :
        /\ in = relays[s].input /\ out = relays[s].output /\ last = in.last
        /\ relays[s] \in SessionRelay /\ Ordered(in) /\ Ordered(out) /\ Sent(s)
  BY <1>4 DEF ShellInv, Relay, SessionRelay, Direction
<1>6. frame.seq \in Nat
  BY <1>4 DEF InFrame
<1>7. PICK new \in Direction(InFrame) :
        /\ Ordered(new) /\ frame.seq <= new.last /\ last <= new.last /\ new.last \in Nat
        /\ frame \in Digests(new)
        /\ \A d \in Digests(new) : d \in Digests(in) \/ d = frame
        /\ frame \in Digests(in) \/ frame.seq > last
        /\ relays' = [q \in Sessions |-> relays'[q]] /\ \A q \in Sessions : q # s => relays'[q] = relays[q]
        /\ relays'[s] \in SessionRelay /\ relays'[s].up /\ relays'[s].input = new /\ relays'[s].output = out
  <2>1. CASE append(in, frame) = "repeated"
    <3>1. frame.seq <= last /\ frame \in Digests(in)
      BY <1>5, <2>1 DEF append, Digests, Direction
    <3>2. relays' = relays
      BY <1>1, <1>5, <2>1
    <3> QED BY <1>4, <1>5, <3>1, <3>2 DEF Up, ShellInv
  <2>2. CASE append(in, frame) = "accepted"
    <3>1. PICK new \in Direction(InFrame) : new = Appended(in, frame)
      BY <1>4, <1>5, <1>6, <2>2, AppendedOrdered
    <3>2. Ordered(new) /\ new.last = last + 1 /\ frame.seq = last + 1
      BY <1>4, <1>5, <1>6, <2>2, <3>1, AppendedOrdered
    <3>3. frame \in Digests(new) /\ \A d \in Digests(new) : d \in Digests(in) \/ d = frame
      BY <1>4, <1>5, <1>6, <2>2, <3>1, AppendedDigests
    <3>4. PICK r \in SessionRelay : r = relays[s]
      BY <1>5
    <3>5. PICK made \in SessionRelay : made = [r EXCEPT !.input = new]
      BY DEF SessionRelay
    <3>6. made.up /\ made.input = new /\ made.output = out
      BY <1>4, <1>5, <3>4, <3>5 DEF SessionRelay, Up
    <3>7. relays' = [relays EXCEPT ![s] = made]
      BY <1>1, <1>5, <2>2, <3>1, <3>4, <3>5 DEF ShellInv
    <3>8. /\ relays' = [q \in Sessions |-> relays'[q]] /\ (\A q \in Sessions : q # s => relays'[q] = relays[q])
          /\ relays'[s] = made
      BY <1>4, <3>7 DEF ShellInv
    <3>9. frame.seq <= new.last /\ last <= new.last /\ new.last \in Nat /\ frame.seq > last
      BY <3>2
    <3> QED BY <3>2, <3>3, <3>6, <3>8, <3>9
  <2> QED BY <1>1, <1>5, <2>1, <2>2
<1>8. relays' = [q \in Sessions |-> relays'[q]] /\ \A q \in Sessions : q # s => relays'[q] = relays[q]
  BY <1>7
<1>9. relays'[s] \in SessionRelay /\ relays'[s].input = new /\ relays'[s].output = out /\ Up(s)'
  BY <1>7 DEF Up
<1>10. RelayStep
  <2>1. ASSUME NEW d \in Digests(new) PROVE d \in Digests(in) \/ d.seq > last
    BY <1>7, <2>1
  <2>2. /\ Up(s) /\ Up(s)' /\ (\A n \in Nat : n <= relays[s].input.last => n <= relays'[s].input.last)
        /\ relays'[s].output = relays[s].output
        /\ \A d \in Digests(relays'[s].input) : d \in Digests(relays[s].input) \/ d.seq > relays[s].input.last
    BY <1>4, <1>5, <1>7, <1>9, <2>1
  <2>3. ASSUME NEW q \in Sessions, q # s PROVE relays'[q] = relays[q]
    BY <1>8, <2>3
  <2> QED BY <2>2, <2>3 DEF RelayStep, Up, Latest, Digests
<1>11. \A q \in Sessions : Relay(q)'
  <2>1. Relay(s)'
    BY <1>2, <1>4, <1>5, <1>7, <1>9, RelayStays DEF Sent
  <2> QED BY <1>2, <1>8, <2>1, RelaySame
<1>12. Shell'
  BY <1>2, <1>10, <1>11, ShellStays DEF AgentStep
<1>13. Agrees(s, frame)'
  <2>1. \A d \in Digests(relays'[s].input) : d.seq = frame.seq => d = frame
    BY <1>7, <1>9, OrderedDigests
  <2>2. ASSUME agent.on = s, NEW i \in 1..Len(agent.got), i = frame.seq PROVE agent.got[i] = frame
    <3>1. /\ Len(agent.got) <= last
          /\ \A j \in 1..Len(agent.got) : \A d \in Digests(in) : d.seq = j => d = agent.got[j]
      BY <1>1, <1>4, <1>5, <2>2 DEF ShellInv, Shell
    <3>2. Len(agent.got) \in Nat
      BY DEF ShellInv, Agent
    <3>3. frame \in Digests(in)
      BY <1>6, <1>7, <2>2, <3>1, <3>2
    <3> QED BY <2>2, <3>1, <3>3
  <2> QED BY <1>2, <2>1, <2>2 DEF Agrees, Digests
<1>14. Handlers'
  <2>1. PICK h : h = [op |-> "input", on |-> s, by |-> o, frame |-> frame,
                      accepted |-> append(relays[s].input, frame) = "accepted"]
    OBVIOUS
  <2>2. h.op = "input" /\ h.on = s /\ h.by = o /\ h.frame = frame /\ handlers' = handlers \cup {h}
    BY <1>1, <2>1 DEF Start
  <2>3. Handler(h)'
    <3>1. Opened(s)' /\ Up(s)' /\ frame.seq <= relays'[s].input.last
      BY <1>2, <1>4, <1>7, <1>9 DEF Opened
    <3> QED BY <1>4, <1>13, <2>2, <3>1 DEF Handler
  <2> QED BY <1>2, <1>10, <2>2, <2>3, HandlerStarts
<1>15. ASSUME NEW q \in Operators PROVE Page(q)'
  <2>1. panels'[q] = panels[q] /\ panels[q].on \in Sessions \cup {None}
    BY <1>2 DEF ShellInv, Panel
  <2>2. CASE panels[q].on # s
    <3>1. panels[q].on # None => relays'[panels[q].on] = relays[panels[q].on]
      BY <1>8, <2>1, <2>2
    <3> QED BY <1>2, <2>1, <3>1, PageStays DEF Up
  <2>3. CASE panels[q].on = s
    <3>1. q = o
      BY <1>1, <1>4, <2>3 DEF ShellInv, Page
    <3>2. \A d \in Digests(new) : d \in Digests(in) \/ d.seq > p.inputSeq
      BY <1>4, <1>7
    <3> QED BY <1>2, <1>3, <1>4, <1>5, <1>9, <2>1, <2>3, <3>1, <3>2, PageStays
  <2> QED BY <2>2, <2>3
<1> QED BY <1>2, <1>8, <1>11, <1>12, <1>14, <1>15 DEF ShellInv, RowStep

\* What the operator is told is what the relay took.
LEMMA InputStep ==
  ASSUME ShellInv, NEW h \in handlers, send_shell_input(h)
  PROVE  ShellInv'
<1>1. /\ h.op = "input" /\ handlers' = handlers \ {h}
      /\ now' = now /\ relays' = relays /\ agent' = agent /\ AgentStep /\ RelayStep
  BY Unchanged DEF send_shell_input, Ends
<1>2. /\ h.on \in Sessions /\ h.by \in Operators /\ Opened(h.on) /\ h.frame \in InFrame
      /\ Agrees(h.on, h.frame) /\ h.frame.seq \in Nat
  BY <1>1 DEF ShellInv, Handlers, Handler, InFrame
<1>3. RowStep
  <2>1. CASE sessions' = sessions
    BY <2>1, Unchanged
  <2>2. CASE sessions' = [sessions EXCEPT ![h.on] = _touch([@ EXCEPT !.client_last_seq = h.frame.seq])]
    <3>1. PICK row \in ShellRow : row = sessions[h.on]
      BY <1>2 DEF ShellInv
    <3>2. PICK made \in ShellRow : made = [row EXCEPT !.client_last_seq = h.frame.seq]
      BY <1>2 DEF ShellRow
    <3>4. made.status = row.status /\ made.owner = row.owner
      BY <3>2 DEF ShellRow
    <3>3. sessions' = [sessions EXCEPT ![h.on] = _touch(made)]
      BY <1>2, <2>2, <3>1, <3>2 DEF ShellInv
    <3> QED BY <1>2, <3>1, <3>3, <3>4, TouchedRow DEF Opened, Attached
  <2> QED BY <2>1, <2>2 DEF send_shell_input
<1>4. Shell'
  BY <1>1, <1>3, RelaySame, ShellStays DEF AgentStep
<1>5. Handlers'
  <2>1. ASSUME NEW g \in handlers', g.op = "open" PROVE ~Opened(g.on)'
    <3>1. g \in handlers /\ g.on \in Sessions /\ ~Opened(g.on) /\ g.on # h.on
      BY <1>1, <1>2, <2>1 DEF ShellInv, Handlers, Handler
    <3>2. sessions'[g.on] = sessions[g.on]
      BY <1>2, <3>1 DEF send_shell_input, ShellInv
    <3> QED BY <3>1, <3>2 DEF Opened
  <2> QED BY <1>1, <1>3, <2>1, HandlersStay
<1>6. panels' \in [Operators -> Panel] /\ \A q \in Operators : Page(q)'
  <2>1. CASE panels' = panels
    BY <1>1, <1>3, <2>1, PagesStay DEF ShellInv
  <2>2. CASE /\ panels[h.by].on = h.on /\ panels[h.by].inputSeq = h.frame.seq - 1
             /\ panels' = [panels EXCEPT ![h.by].inputSeq = h.frame.seq,
                                         ![h.by].said = Append(@, h.frame)]
    <3>1. PICK p \in Panel : p = panels[h.by]
      BY <1>2 DEF ShellInv
    <3>2. PICK said \in Seq(InFrame) : said = Append(p.said, h.frame)
      BY <1>2, AppendProperties DEF Panel
    <3>3. PICK new \in Panel : new = [p EXCEPT !.inputSeq = h.frame.seq, !.said = said]
      BY <1>2 DEF Panel
    <3>4. /\ new.on = p.on /\ new.said = said /\ new.inputSeq = h.frame.seq /\ new.start = p.start
          /\ new.screen = p.screen /\ p.on = h.on /\ p.inputSeq = h.frame.seq - 1 /\ p.said \in Seq(InFrame)
      BY <2>2, <3>1, <3>3 DEF Panel
    <3>5. panels' = [panels EXCEPT ![h.by] = new]
      BY <1>2, <2>2, <3>1, <3>2, <3>3 DEF ShellInv
    <3>6. panels' \in [Operators -> Panel] /\ panels'[h.by] = new
      BY <1>2, <3>5 DEF ShellInv
    <3>7. /\ Len(said) = Len(p.said) + 1 /\ said[Len(p.said) + 1] = h.frame
          /\ \A j \in 1..Len(p.said) : said[j] = p.said[j]
      BY <3>2, <3>4, AppendProperties
    <3>8. /\ \A j \in 1..Len(p.said) : p.said[j].seq <= p.inputSeq
          /\ \A i \in 1..Len(p.screen) : p.screen[i].seq = p.start + i
          /\ Chained(p.screen)
          /\ Opened(h.on) /\ sessions[h.on].owner = h.by
          /\ \A j \in 1..Len(p.said) : Agrees(h.on, p.said[j])
          /\ p.screen # <<>> => Attached(h.on)
          /\ p.screen # <<>> /\ Up(h.on) => Shows(relays[h.on].output, p.start, p.screen)
      BY <1>2, <3>1, <3>4, ShellAssumption DEF ShellInv, Page
    <3>9. ASSUME NEW j \in 1..Len(said) PROVE said[j].seq <= h.frame.seq /\ Agrees(h.on, said[j])
      <4>1. CASE j = Len(p.said) + 1
        BY <1>2, <3>7, <4>1
      <4>2. CASE j # Len(p.said) + 1
        <5>1. j \in 1..Len(p.said)
          BY <3>4, <3>7, <4>2
        <5>3. p.said[j] \in InFrame
          BY <3>4, <5>1
        <5>2. p.said[j].seq \in Nat /\ p.said[j].seq <= h.frame.seq - 1
          BY <3>4, <3>8, <5>1, <5>3 DEF InFrame
        <5> QED BY <1>2, <3>7, <3>8, <5>1, <5>2, SMTT(30)
      <4> QED BY <4>1, <4>2
    <3>10. ASSUME NEW j \in 1..Len(said) PROVE Agrees(h.on, said[j])'
      BY <1>1, <3>9 DEF Agrees, Up, Digests
    <3>11. /\ Opened(h.on)' /\ sessions'[h.on].owner = h.by /\ (p.screen # <<>> => Attached(h.on)')
           /\ p.screen # <<>> /\ Up(h.on)' => Shows(relays'[h.on].output, p.start, p.screen)
      BY <1>1, <1>2, <1>3, <3>8 DEF RowStep, Up
    <3>12. Page(h.by)'
      <4>1. h.on # None
        BY <1>2, ShellAssumption
      <4>2. /\ \A j \in 1..Len(new.said) : new.said[j].seq <= new.inputSeq
            /\ \A i \in 1..Len(new.screen) : new.screen[i].seq = new.start + i
            /\ Chained(new.screen)
            /\ new.on # None
        BY <3>4, <3>8, <3>9, <4>1
      <4>3. /\ Opened(new.on)' /\ sessions'[new.on].owner = h.by
            /\ \A j \in 1..Len(new.said) : Agrees(new.on, new.said[j])'
            /\ new.screen # <<>> => Attached(new.on)'
            /\ new.screen # <<>> /\ Up(new.on)' => Shows(relays'[new.on].output, new.start, new.screen)
        BY <3>4, <3>10, <3>11
      <4> QED BY <1>2, <3>6, <4>2, <4>3, PageMade
    <3>13. ASSUME NEW q \in Operators, q # h.by PROVE Page(q)'
      <4>1. panels'[q] = panels[q]
        BY <3>5, <3>13 DEF ShellInv
      <4> QED BY <1>1, <1>3, <4>1, PageStays DEF Up
    <3> QED BY <3>6, <3>12, <3>13
  <2> QED BY <1>1, <2>1, <2>2 DEF send_shell_input
<1> QED BY <1>1, <1>3, <1>4, <1>5, <1>6, RelaysLeft DEF ShellInv

-----------------------------------------------------------------------------
(* The pages and the endpoint read and write *)

\* A relay of which one direction is written.
LEMMA OutputSet ==
  ASSUME ShellInv, NEW s \in Sessions, Up(s), NEW new \in Direction(OutFrame),
         relays' = [relays EXCEPT ![s].output = new]
  PROVE  /\ relays' = [q \in Sessions |-> relays'[q]] /\ \A q \in Sessions : q # s => relays'[q] = relays[q]
         /\ relays'[s] \in SessionRelay /\ relays'[s].up
         /\ relays'[s].input = relays[s].input /\ relays'[s].output = new
<1>1. PICK r \in SessionRelay : r = relays[s]
  BY DEF ShellInv, Relay
<1>2. PICK made \in SessionRelay : made = [r EXCEPT !.output = new]
  BY DEF SessionRelay
<1>3. made.up /\ made.input = r.input /\ made.output = new
  BY <1>1, <1>2 DEF SessionRelay, Up
<1>4. relays' = [relays EXCEPT ![s] = made]
  BY <1>1, <1>2 DEF ShellInv
<1>5. /\ relays' = [q \in Sessions |-> relays'[q]] /\ (\A q \in Sessions : q # s => relays'[q] = relays[q])
      /\ relays'[s] = made
  BY <1>4 DEF ShellInv
<1> QED BY <1>1, <1>3, <1>5

\* Only the input direction of one relay is written.
LEMMA InputSet ==
  ASSUME ShellInv, NEW s \in Sessions, Up(s), NEW new \in Direction(InFrame),
         relays' = [relays EXCEPT ![s].input = new]
  PROVE  /\ relays' = [q \in Sessions |-> relays'[q]] /\ \A q \in Sessions : q # s => relays'[q] = relays[q]
         /\ relays'[s] \in SessionRelay /\ relays'[s].up
         /\ relays'[s].output = relays[s].output /\ relays'[s].input = new
<1>1. PICK r \in SessionRelay : r = relays[s]
  BY DEF ShellInv, Relay
<1>2. PICK made \in SessionRelay : made = [r EXCEPT !.input = new]
  BY DEF SessionRelay
<1>3. made.up /\ made.output = r.output /\ made.input = new
  BY <1>1, <1>2 DEF SessionRelay, Up
<1>4. relays' = [relays EXCEPT ![s] = made]
  BY <1>1, <1>2 DEF ShellInv
<1>5. /\ relays' = [q \in Sessions |-> relays'[q]] /\ (\A q \in Sessions : q # s => relays'[q] = relays[q])
      /\ relays'[s] = made
  BY <1>4 DEF ShellInv
<1> QED BY <1>1, <1>3, <1>5

\* A batch goes on from the cursor, and what is left of the digests ends as they did.
Rejoins(dir, at, new, batch) ==
  /\ new.last = dir.last /\ at <= dir.last /\ new.evicted <= at /\ Len(new.digests) <= Len(dir.digests)
  /\ \A k \in 0..(Len(dir.digests) - 1) : at <= dir.last - k => k < Len(new.digests)
  /\ \A k \in 0..(Len(new.digests) - 1) :
       new.digests[Len(new.digests) - k] = dir.digests[Len(dir.digests) - k]
  /\ Len(batch) <= dir.last - at
  /\ \A i \in 1..Len(batch) : /\ dir.last - at - i < Len(dir.digests)
                               /\ batch[i] = dir.digests[Len(dir.digests) - (dir.last - at - i)]
                               /\ batch[i].seq = at + i

\* What a read keeps and what it returns, as one fact.
LEMMA ReadRejoins ==
  ASSUME NEW F, NEW dir \in Direction(F), Ordered(dir), NEW at \in Nat, ~Refused(dir, at, at)
  PROVE  Rejoins(dir, at, read(dir, at, at), After(dir, at))
BY ReadOrdered, SMTT(30) DEF Rejoins

Reaches(start, screen, at) == at = start + Len(screen)

\* What is read joins what the page shows.
LEMMA ReadShows ==
  ASSUME NEW dir \in Direction(OutFrame), Ordered(dir), Chained(dir.digests),
         NEW start \in Nat, NEW screen \in Seq(OutFrame), Chained(screen),
         Numbered(screen, start), screen # <<>> => Shows(dir, start, screen),
         NEW at \in Nat, Reaches(start, screen, at), ~Refused(dir, at, at)
  PROVE  /\ screen # <<>> => Shows(read(dir, at, at), start, screen)
         /\ screen \o After(dir, at) \in Seq(OutFrame)
         /\ Numbered(screen \o After(dir, at), start)
         /\ Chained(screen \o After(dir, at))
         /\ screen \o After(dir, at) # <<>> => Shows(read(dir, at, at), start, screen \o After(dir, at))
         /\ screen \o After(dir, at) # <<>> => screen # <<>> \/ dir.digests # <<>>
<1>1. PICK new \in Direction(OutFrame), batch \in Seq(OutFrame) :
        new = read(dir, at, at) /\ batch = After(dir, at)
  BY ReadOrdered
<1>14. PICK n \in Nat, m \in Nat, last \in Nat : n = Len(dir.digests) /\ m = Len(new.digests) /\ last = dir.last
  <2>1. dir.digests \in Seq(OutFrame) /\ new.digests \in Seq(OutFrame) /\ dir.last \in Nat
    BY DEF Direction
  <2>2. Len(dir.digests) \in Nat /\ Len(new.digests) \in Nat
    BY <2>1
  <2> QED BY <2>1, <2>2
<1>15. PICK c \in Nat, b \in Nat : c = Len(screen) /\ b = Len(batch)
  OBVIOUS
<1>2. /\ n = Len(dir.digests) /\ m = Len(new.digests) /\ last = dir.last /\ c = Len(screen) /\ b = Len(batch)
      /\ at = start + c
  BY <1>14, <1>15 DEF Reaches
<1>3. /\ new.last = dir.last /\ at <= dir.last /\ new.evicted <= at /\ Len(new.digests) <= Len(dir.digests)
      /\ \A k \in 0..(Len(dir.digests) - 1) : at <= dir.last - k => k < Len(new.digests)
      /\ \A k \in 0..(Len(new.digests) - 1) :
           new.digests[Len(new.digests) - k] = dir.digests[Len(dir.digests) - k]
      /\ Len(batch) <= dir.last - at
      /\ \A i \in 1..Len(batch) : /\ dir.last - at - i < Len(dir.digests)
                                   /\ batch[i] = dir.digests[Len(dir.digests) - (dir.last - at - i)]
                                   /\ batch[i].seq = at + i
  <2>1. Rejoins(dir, at, read(dir, at, at), After(dir, at))
    BY ReadRejoins
  <2>2. Rejoins(dir, at, new, batch)
    BY <1>1, <2>1, Zenon
  <2> QED BY <2>2, Zenon DEF Rejoins
<1>4. /\ new.last = last /\ at <= last /\ new.evicted <= at /\ m <= n
      /\ \A k \in 0..(n - 1) : at <= last - k => k < m
      /\ \A k \in 0..(m - 1) : new.digests[m - k] = dir.digests[n - k]
      /\ b <= last - at
      /\ \A i \in 1..b : last - at - i < n /\ batch[i] = dir.digests[n - (last - at - i)]
                         /\ batch[i].seq = at + i
      /\ new.evicted \in Nat
  BY <1>2, <1>3 DEF Direction
<1>16. b <= last - at /\ at = start + c /\ at <= last /\ m <= n /\ new.last = last /\ new.evicted <= at
  BY <1>2, <1>4
<1>5. ASSUME screen # <<>>
      PROVE  /\ last - at < m /\ new.digests[m - (last - at)] = screen[c]
             /\ last - at < n /\ dir.digests[n - (last - at)] = screen[c]
  <2>1. last - at < n /\ dir.digests[n - (last - at)] = screen[c]
    <3>1. dir.last - at < Len(dir.digests)
          /\ dir.digests[Len(dir.digests) - (dir.last - at)] = screen[Len(screen)]
      BY <1>5 DEF Shows, Reaches
    <3> QED BY <1>2, <3>1
  <2>2. PICK k \in 0..(n - 1) : k = last - at
    BY <1>4, <2>1
  <2>3. k < m
    <3>1. at <= last - k
      BY <1>4, <2>2
    <3> QED BY <1>4, <3>1
  <2>4. k \in 0..(m - 1)
    BY <2>3
  <2>5. new.digests[m - k] = dir.digests[n - k]
    BY <1>4, <2>4
  <2> QED BY <2>1, <2>2, <2>3, <2>5
<1>6. screen # <<>> => Shows(new, start, screen)
  BY <1>2, <1>4, <1>5 DEF Shows
<1>7. PICK longer \in Seq(OutFrame) : longer = screen \o batch
  BY ConcatProperties
<1>8. /\ Len(longer) = c + b
      /\ \A i \in 1..c : longer[i] = screen[i]
      /\ \A i \in 1..b : longer[c + i] = batch[i]
  <2>1. /\ Len(longer) = c + b
        /\ \A i \in 1..(c + b) : longer[i] = IF i <= c THEN screen[i] ELSE batch[i - c]
    BY <1>2, <1>7, ConcatProperties
  <2>2. ASSUME NEW i \in 1..c PROVE longer[i] = screen[i]
    BY <2>1
  <2>3. ASSUME NEW i \in 1..b PROVE longer[c + i] = batch[i]
    <3>1. c + i \in 1..(c + b) /\ ~(c + i <= c) /\ (c + i) - c = i
      OBVIOUS
    <3> QED BY <2>1, <3>1
  <2> QED BY <2>1, <2>2, <2>3
<1>9. ASSUME NEW i \in 1..(c + b) PROVE longer[i].seq = start + i
  <2>1. CASE i <= c
    BY <1>2, <1>8, <2>1 DEF Numbered
  <2>2. CASE i > c
    <3>1. PICK j \in 1..b : i = c + j
      <4>1. i - c \in 1..b /\ i = c + (i - c)
        BY <2>2
      <4> QED BY <4>1
    <3>2. longer[i] = batch[j] /\ batch[j].seq = at + j
      BY <1>4, <1>8, <3>1
    <3> QED BY <1>2, <3>1, <3>2
  <2> QED BY <2>1, <2>2
<1>10. ASSUME NEW i \in 1..(c + b), i > 1 PROVE Follows(longer[i - 1], longer[i])
  <2>1. CASE i <= c
    <3>1. i \in 1..c /\ i - 1 \in 1..c
      BY <1>10, <2>1
    <3>2. Follows(screen[i - 1], screen[i])
      BY <1>2, <1>10, <3>1 DEF Chained
    <3> QED BY <1>8, <3>1, <3>2
  <2>2. CASE i = c + 1
    <3>9. b >= 1 /\ c >= 1
      BY <1>10, <2>2
    <3>1. 1 \in 1..b /\ c \in 1..c
      BY <3>9
    <3>2. longer[i] = batch[1] /\ longer[i - 1] = screen[c]
      <4>1. longer[c + 1] = batch[1] /\ longer[c] = screen[c]
        BY <1>8, <3>1
      <4>2. c + 1 = i /\ i - 1 = c
        BY <2>2
      <4> QED BY <2>2, <4>1, <4>2
    <3>3. screen # <<>>
      BY <1>2, <3>1
    <3>8. last - at - 1 < n /\ last - at >= 1
      BY <1>4, <3>1
    <3>4. PICK j \in 1..n : j = n - (last - at - 1)
      BY <1>4, <3>8
    <3>5. batch[1] = dir.digests[j]
      BY <1>4, <3>1, <3>4
    <3>6. j - 1 = n - (last - at) /\ screen[c] = dir.digests[n - (last - at)] /\ j > 1
      BY <1>4, <1>5, <3>3, <3>4
    <3>7. Follows(dir.digests[j - 1], dir.digests[j])
      BY <1>2, <3>6 DEF Chained
    <3> QED BY <3>2, <3>5, <3>6, <3>7
  <2>3. CASE i > c + 1
    <3>1. PICK j \in 1..b : i = c + j /\ j > 1 /\ j - 1 \in 1..b /\ i - 1 = c + (j - 1)
      <4>1. i - c \in 1..b /\ i = c + (i - c) /\ i - c > 1
        BY <2>3
      <4> QED BY <4>1
    <3>2. longer[i] = batch[j] /\ longer[i - 1] = batch[j - 1]
      BY <1>8, <3>1
    <3>3. Chained(batch)
      BY <1>1, ReadChained
    <3>4. Follows(batch[j - 1], batch[j])
      BY <1>2, <3>1, <3>3 DEF Chained
    <3> QED BY <3>2, <3>4
  <2> QED BY <2>1, <2>2, <2>3
<1>11. ASSUME longer # <<>> PROVE Shows(new, start, longer) /\ (screen # <<>> \/ dir.digests # <<>>)
  <2>1. start + Len(longer) = at + b /\ at + b <= last
    BY <1>8, <1>16
  <2>2. CASE b = 0
    <3>1. longer = screen /\ c > 0
      BY <1>2, <1>7, <1>8, <1>11, <2>2, SMTT(30)
    <3> QED BY <1>6, <1>11, <3>1
  <2>3. CASE b > 0
    <3>1. b \in 1..b /\ last - at - b >= 0 /\ last - at - b < n
      BY <1>4, <2>3
    <3>2. longer[c + b] = batch[b] /\ batch[b] = dir.digests[n - (last - at - b)]
      BY <1>4, <1>8, <3>1
    <3>3. PICK k \in 0..(n - 1) : k = last - at - b
      BY <3>1
    <3>4. k < m
      <4>1. at <= last - k
        BY <1>4, <3>3
      <4> QED BY <1>4, <4>1
    <3>5. k \in 0..(m - 1)
      BY <3>4
    <3>6. new.digests[m - k] = dir.digests[n - k]
      BY <1>4, <3>5
    <3>7. new.digests[m - k] = longer[c + b] /\ last - (at + b) = k
      BY <3>2, <3>3, <3>6
    <3>8. new.evicted <= at + b
      BY <1>4
    <3>9. Shows(new, start, longer)
      <4>1. Len(longer) = c + b /\ m = Len(new.digests) /\ new.last = last
        BY <1>2, <1>8, <1>16
      <4>2. new.last - (start + Len(longer)) = k
        BY <2>1, <3>7, <4>1
      <4>3. new.digests[Len(new.digests) - k] = longer[Len(longer)] /\ k < Len(new.digests)
        BY <3>4, <3>7, <4>1
      <4> QED BY <2>1, <3>8, <4>1, <4>2, <4>3 DEF Shows
    <3>10. dir.digests # <<>>
      BY <1>2, <3>1
    <3> QED BY <3>9, <3>10
  <2> QED BY <2>2, <2>3
<1>12. Chained(longer)
  BY <1>8, <1>10 DEF Chained
<1>13. Numbered(longer, start)
  BY <1>8, <1>9 DEF Numbered
<1> QED BY <1>1, <1>6, <1>7, <1>11, <1>12, <1>13

\* A page continues where it stopped, also when an answer was lost.
LEMMA OutputReadStep ==
  ASSUME ShellInv, NEW o \in Operators, read_shell_output(o)
  PROVE  ShellInv'
<1>1. PICK p \in Panel : p = panels[o]
  BY DEF ShellInv
<1>2. PICK s : s = p.on
  OBVIOUS
<1>3. PICK at : at = Cursor(p)
  OBVIOUS
<1>4. /\ s # None /\ relays[s].up /\ ~Refused(relays[s].output, at, at)
      /\ relays' = [relays EXCEPT ![s].output = read(@, at, at)]
      /\ \/ panels' = [panels EXCEPT ![o].screen = @ \o After(relays[s].output, at)]
         \/ panels' = panels
  BY <1>1, <1>2, <1>3, Zenon DEF read_shell_output
<1>5. /\ sessions' = sessions /\ agent' = agent /\ now' = now /\ handlers' = handlers /\ RowStep /\ AgentStep
  BY Unchanged DEF read_shell_output
<1>6. /\ s \in Sessions /\ Up(s) /\ Opened(s) /\ sessions[s].owner = o /\ s # None
      /\ p.said \in Seq(InFrame) /\ p.inputSeq \in Nat /\ p.start \in Nat /\ p.screen \in Seq(OutFrame)
  BY <1>1, <1>2, <1>4, ShellAssumption DEF ShellInv, Panel, Page, Up
<1>7. /\ \A j \in 1..Len(p.said) : p.said[j].seq <= p.inputSeq
      /\ \A i \in 1..Len(p.screen) : p.screen[i].seq = p.start + i
      /\ Chained(p.screen)
      /\ \A j \in 1..Len(p.said) : Agrees(s, p.said[j])
      /\ p.screen # <<>> => Attached(s)
      /\ p.screen # <<>> => Shows(relays[s].output, p.start, p.screen)
  BY <1>1, <1>2, <1>6 DEF ShellInv, Page
<1>8. at \in Nat /\ Reaches(p.start, p.screen, at)
  <2>1. CASE p.screen = <<>>
    BY <1>3, <1>6, <2>1 DEF Cursor, Reaches
  <2>2. CASE p.screen # <<>>
    <3>1. Len(p.screen) \in 1..Len(p.screen)
      BY <1>6, <2>2
    <3>2. p.screen[Len(p.screen)].seq = p.start + Len(p.screen)
      BY <1>7, <3>1
    <3> QED BY <1>3, <1>6, <2>2, <3>1, <3>2 DEF Cursor, Reaches
  <2> QED BY <2>1, <2>2
<1>9. PICK in \in Direction(InFrame), out \in Direction(OutFrame) :
        /\ in = relays[s].input /\ out = relays[s].output
        /\ relays[s] \in SessionRelay /\ Ordered(in) /\ Ordered(out) /\ Sent(s) /\ Chained(out.digests)
  BY <1>6 DEF ShellInv, Relay, SessionRelay, Sent
<1>10. PICK new \in Direction(OutFrame) : new = read(out, at, at)
  BY <1>4, <1>8, <1>9, ReadOrdered
<1>11. /\ Ordered(new) /\ Chained(new.digests) /\ Digests(new) \subseteq Digests(out)
       /\ out.digests # <<>> => new.digests # <<>> /\ Latest(new) = Latest(out)
  BY <1>4, <1>8, <1>9, <1>10, ReadOrdered, ReadDigests, ReadChained
<1>12. new.digests # <<>> => out.digests # <<>>
  <2>1. out.digests = <<>> => Digests(out) = {}
    BY DEF Digests
  <2>2. ASSUME new.digests # <<>> PROVE Digests(new) # {}
    <3>1. 1 \in 1..Len(new.digests)
      BY <2>2 DEF Direction
    <3> QED BY <3>1 DEF Digests
  <2> QED BY <1>11, <2>1, <2>2
<1>13. /\ relays' = [q \in Sessions |-> relays'[q]] /\ (\A q \in Sessions : q # s => relays'[q] = relays[q])
       /\ relays'[s] \in SessionRelay /\ relays'[s].up
       /\ relays'[s].input = in /\ relays'[s].output = new
  <2>1. relays' = [relays EXCEPT ![s].output = new]
    BY <1>4, <1>6, <1>9, <1>10 DEF ShellInv
  <2> QED BY <1>6, <1>9, <2>1, OutputSet
<1>14. RelayStep
  <2>1. /\ Up(s) /\ Up(s)' /\ relays'[s].input = relays[s].input
        /\ relays[s].output.digests # <<>> =>
             /\ relays'[s].output.digests # <<>>
             /\ Latest(relays'[s].output) = Latest(relays[s].output)
    BY <1>6, <1>9, <1>11, <1>13 DEF Up
  <2>2. ASSUME NEW q \in Sessions, q # s PROVE relays'[q] = relays[q]
    BY <1>13, <2>2
  <2> QED BY <2>1, <2>2 DEF RelayStep, Up, Latest, Digests
<1>15. \A q \in Sessions : Relay(q)'
  <2>1. Relay(s)'
    BY <1>5, <1>6, <1>9, <1>11, <1>12, <1>13, RelayStays DEF Up
  <2> QED BY <1>5, <1>13, <2>1, RelaySame
<1>16. Shell'
  BY <1>5, <1>14, <1>15, ShellStays DEF AgentStep
<1>17. Handlers'
  BY <1>5, <1>14, HandlersStay DEF ShellInv, Handlers, Handler, Opened
<1>18. PICK longer \in Seq(OutFrame) :
         /\ longer = p.screen \o After(out, at)
         /\ p.screen # <<>> => Shows(new, p.start, p.screen)
         /\ \A i \in 1..Len(longer) : longer[i].seq = p.start + i
         /\ Chained(longer)
         /\ longer # <<>> => Shows(new, p.start, longer) /\ (p.screen # <<>> \/ out.digests # <<>>)
  <2>1. PICK longer : longer = p.screen \o After(out, at)
    OBVIOUS
  <2>2. PICK start \in Nat, screen \in Seq(OutFrame) : start = p.start /\ screen = p.screen
    BY <1>6
  <2>3. /\ screen # <<>> => Shows(new, start, screen)
        /\ longer \in Seq(OutFrame)
        /\ \A i \in 1..Len(longer) : longer[i].seq = start + i
        /\ Chained(longer)
        /\ longer # <<>> => Shows(new, start, longer)
        /\ longer # <<>> => screen # <<>> \/ out.digests # <<>>
    <3>1. /\ Chained(screen) /\ Numbered(screen, start)
          /\ screen # <<>> => Shows(out, start, screen)
          /\ at \in Nat /\ Reaches(start, screen, at) /\ ~Refused(out, at, at)
      BY <1>4, <1>7, <1>8, <1>9, <2>2 DEF Numbered
    <3>2. PICK batch : batch = After(out, at)
      OBVIOUS
    <3>3. longer = screen \o batch
      BY <2>1, <2>2, <3>2
    <3>4. /\ screen # <<>> => Shows(new, start, screen)
          /\ screen \o batch \in Seq(OutFrame)
          /\ Numbered(screen \o batch, start)
          /\ Chained(screen \o batch)
          /\ screen \o batch # <<>> => Shows(new, start, screen \o batch)
          /\ screen \o batch # <<>> => screen # <<>> \/ out.digests # <<>>
      <4>1. /\ screen # <<>> => Shows(read(out, at, at), start, screen)
            /\ screen \o After(out, at) \in Seq(OutFrame)
            /\ Numbered(screen \o After(out, at), start)
            /\ Chained(screen \o After(out, at))
            /\ screen \o After(out, at) # <<>> => Shows(read(out, at, at), start, screen \o After(out, at))
            /\ screen \o After(out, at) # <<>> => screen # <<>> \/ out.digests # <<>>
        BY <1>9, <3>1, ReadShows
      <4> QED BY <1>10, <3>2, <4>1
    <3> QED BY <3>3, <3>4 DEF Numbered
  <2> QED BY <2>1, <2>2, <2>3
<1>19. ASSUME NEW q \in Operators, q # o PROVE Page(q)' /\ panels'[q] = panels[q]
  <2>1. panels'[q] = panels[q] /\ panels[q].on \in Sessions \cup {None} /\ panels[q].on # s
    BY <1>4, <1>6, <1>19, ZenonT(30) DEF ShellInv, Panel, Page
  <2>2. panels[q].on # None => relays'[panels[q].on] = relays[panels[q].on]
    BY <1>13, <2>1
  <2> QED BY <1>5, <2>1, <2>2, PageStays DEF Up
<1>20. CASE panels' = panels
  <2>1. Page(o)'
    <3>1. /\ relays'[panels[o].on].input = relays[panels[o].on].input
          /\ panels[o].on = s /\ panels'[o] = panels[o]
          /\ p.screen # <<>> => Shows(relays'[s].output, p.start, p.screen)
      BY <1>1, <1>2, <1>9, <1>13, <1>18, <1>20
    <3>2. p.screen = <<>> \/ Shows(relays'[s].output, p.start, p.screen)
      BY <3>1
    <3>3. \A j \in 1..Len(p.said) : Agrees(s, p.said[j])'
      BY <1>5, <1>6, <1>7, <1>9, <1>13, SMTT(30) DEF Agrees, Up, Digests
    <3>4. /\ Opened(s)' /\ sessions'[s].owner = o /\ (p.screen # <<>> => Attached(s)')
      BY <1>5, <1>6, <1>7 DEF RowStep
    <3> QED BY <1>1, <1>2, <1>6, <1>7, <3>1, <3>2, <3>3, <3>4, PageMade
  <2> QED BY <1>5, <1>13, <1>15, <1>16, <1>17, <1>19, <1>20, <2>1 DEF ShellInv, RowStep
<1>21. CASE panels' = [panels EXCEPT ![o].screen = @ \o After(relays[s].output, at)]
  <2>1. PICK made \in Panel : made = [p EXCEPT !.screen = longer]
    BY DEF Panel
  <2>2. /\ made.on = s /\ made.said = p.said /\ made.inputSeq = p.inputSeq /\ made.start = p.start
        /\ made.screen = longer
    BY <1>2, <2>1 DEF Panel
  <2>3. panels' = [panels EXCEPT ![o] = made]
    BY <1>1, <1>9, <1>18, <1>21, <2>1 DEF ShellInv
  <2>4. panels' \in [Operators -> Panel] /\ panels'[o] = made
    BY <2>3 DEF ShellInv
  <2>5. Page(o)'
    <3>1. \A j \in 1..Len(made.said) : Agrees(s, made.said[j])'
      BY <1>5, <1>6, <1>7, <1>9, <1>13, <2>2 DEF Agrees, Up, Digests
    <3>2. /\ Opened(s)' /\ sessions'[s].owner = o /\ (longer # <<>> => Attached(s)')
      BY <1>5, <1>6, <1>7, <1>9, <1>18 DEF RowStep, Sent
    <3>3. longer # <<>> => Shows(relays'[s].output, p.start, longer)
      BY <1>13, <1>18
    <3>4. /\ \A j \in 1..Len(made.said) : made.said[j].seq <= made.inputSeq
          /\ \A i \in 1..Len(made.screen) : made.screen[i].seq = made.start + i
          /\ Chained(made.screen) /\ made.on # None
          /\ Opened(made.on)' /\ sessions'[made.on].owner = o
          /\ \A j \in 1..Len(made.said) : Agrees(made.on, made.said[j])'
          /\ made.screen # <<>> => Attached(made.on)'
          /\ made.screen # <<>> /\ Up(made.on)' => Shows(relays'[made.on].output, made.start, made.screen)
      BY <1>6, <1>7, <1>18, <2>2, <3>1, <3>2, <3>3
    <3> QED BY <2>4, <3>4, PageMade
  <2> QED BY <1>5, <1>13, <1>15, <1>16, <1>17, <1>19, <2>4, <2>5 DEF ShellInv, RowStep
<1> QED BY <1>4, <1>20, <1>21

-----------------------------------------------------------------------------
(* The ends of a session *)

\* Closing a relay leaves what it carried.
LEMMA RelaysClosed ==
  ASSUME ShellInv, sessions' = sessions, panels' = panels, AgentStep, NEW S, CloseRelays(S)
  PROVE  /\ RelayStep /\ relays' = [s \in Sessions |-> relays'[s]]
         /\ \A s \in Sessions : Relay(s)' /\ relays'[s].up = relays[s].up
         /\ \A o \in Operators : Page(o)'
<1>1. RowStep
  BY Unchanged
<1>2. /\ relays' = [s \in Sessions |-> relays'[s]]
      /\ \A s \in Sessions : \/ relays'[s] = relays[s]
                             \/ Up(s) /\ relays'[s] = [relays[s] EXCEPT !.closed = TRUE]
  BY DEF CloseRelays, Up
<1>3. ASSUME NEW s \in Sessions
      PROVE  /\ Relay(s)' /\ relays'[s].up = relays[s].up
             /\ Up(s) => relays'[s].input = relays[s].input /\ relays'[s].output = relays[s].output
  <2>1. Relay(s)'
    BY <1>1, <1>2, RelaySame
  <2>2. CASE relays'[s] = relays[s]
    BY <2>1, <2>2
  <2>3. CASE Up(s) /\ relays'[s] = [relays[s] EXCEPT !.closed = TRUE]
    <3>1. PICK r \in SessionRelay : r = relays[s]
      BY <2>3 DEF ShellInv, Relay
    <3>2. relays'[s] = [r EXCEPT !.closed = TRUE]
      BY <2>3, <3>1
    <3> QED BY <2>1, <3>1, <3>2 DEF SessionRelay
  <2> QED BY <1>2, <2>2, <2>3, <2>1
<1>4. RelayStep
  BY <1>3 DEF RelayStep, Up, Latest, Digests
<1>5. ASSUME NEW o \in Operators PROVE Page(o)'
  <2>1. panels'[o] = panels[o] /\ panels[o].on \in Sessions \cup {None}
    BY DEF ShellInv, Panel
  <2>2. panels[o].on # None /\ relays'[panels[o].on].up =>
           /\ Up(panels[o].on)
           /\ \A d \in Digests(relays'[panels[o].on].input) : d \in Digests(relays[panels[o].on].input)
           /\ Shows(relays[panels[o].on].output, panels[o].start, panels[o].screen) =>
                Shows(relays'[panels[o].on].output, panels[o].start, panels[o].screen)
    BY <1>3, <2>1 DEF Up
  <2> QED BY <1>1, <2>1, <2>2, PageStays
<1> QED BY <1>2, <1>3, <1>4, <1>5

\* Sessions end: their relays close, and a handler is left to commit their status.
LEMMA EndingStep ==
  ASSUME ShellInv, NEW S, NEW status \in _TERMINAL_STATES, S \subseteq Sessions,
         \A s \in S : Opened(s), Ending(S, status),
         sessions' = sessions, panels' = panels, now' = now, AgentStep,
         \/ agent' = [agent EXCEPT !.fails = TRUE] \/ agent' = agent
         \/ agent'.on = None /\ agent'.got = <<>> /\ agent'.after = 0
  PROVE  ShellInv'
<1>1. /\ RelayStep /\ relays' = [s \in Sessions |-> relays'[s]]
      /\ \A s \in Sessions : Relay(s)'
      /\ \A o \in Operators : Page(o)'
  BY RelaysClosed DEF Ending
<1>2. RowStep
  BY Unchanged
<1>3. Shell'
  BY <1>1, <1>2, ShellStays DEF AgentStep
<1>4. PICK h : h = [op |-> "end", rows |-> S, status |-> status]
  OBVIOUS
<1>5. h.op = "end" /\ h.rows = S /\ h.status = status /\ handlers' = handlers \cup {h}
  BY <1>4 DEF Ending, Start
<1>6. Handler(h)'
  BY <1>5 DEF Handler, Opened
<1>7. agent'.on = agent.on \/ agent'.on = None
  BY DEF ShellInv, Agent
<1>8. Handlers'
  BY <1>1, <1>5, <1>6, <1>7, HandlerStarts
<1> QED BY <1>1, <1>3, <1>8 DEF ShellInv, AgentStep

\* The operator closes the session the page shows.
LEMMA CloseLoadStep ==
  ASSUME ShellInv, NEW o \in Operators, close_shell_session_load(o)
  PROVE  ShellInv'
<1>1. PICK s : s = panels[o].on
  OBVIOUS
<1>2. /\ s # None /\ Ending({s}, "closed") /\ sessions' = sessions /\ panels' = panels /\ now' = now
      /\ agent' = agent /\ AgentStep
  BY <1>1, Unchanged DEF close_shell_session_load
<1>3. s \in Sessions /\ Opened(s)
  BY <1>1, <1>2 DEF ShellInv, Panel, Page
<1>4. PICK S : S = {s}
  OBVIOUS
<1>5. Ending(S, "closed") /\ S \subseteq Sessions /\ (\A q \in S : Opened(q)) /\ "closed" \in _TERMINAL_STATES
  BY <1>2, <1>3, <1>4 DEF _TERMINAL_STATES
<1> QED BY <1>2, <1>5, EndingStep

\* The sweep ends every live session that is past its deadline.
LEMMA SweepStep ==
  ASSUME ShellInv, _shell_session_sweep_once_load
  PROVE  ShellInv'
<1>1. PICK due : due = {s \in Live : sessions[s].absolute <= now \/ sessions[s].idle <= now}
  OBVIOUS
<1>2. /\ Ending(due, "timed_out") /\ sessions' = sessions /\ panels' = panels /\ now' = now
      /\ agent' = agent /\ AgentStep
  BY <1>1, Unchanged DEF _shell_session_sweep_once_load
<1>3. due \subseteq Sessions /\ (\A q \in due : Opened(q)) /\ "timed_out" \in _TERMINAL_STATES
  BY <1>1 DEF Live, Opened, _LIVE_STATES, _TERMINAL_STATES
<1> QED BY <1>2, <1>3, EndingStep

\* The handler of an end commits the status of its sessions.
LEMMA EndedStep ==
  ASSUME ShellInv, NEW h \in handlers, ended(h)
  PROVE  ShellInv'
<1>1. /\ h.op = "end" /\ h.rows \subseteq Sessions /\ h.status \in _TERMINAL_STATES
      /\ \A s \in h.rows : Opened(s)
  BY DEF ended, ShellInv, Handlers, Handler
<1>2. /\ handlers' = handlers \ {h} /\ relays' = relays /\ agent' = agent /\ panels' = panels /\ now' = now
      /\ AgentStep /\ RelayStep
  BY Unchanged DEF ended, Ends
<1>3. sessions' = [s \in Sessions |-> IF s \in h.rows THEN [sessions[s] EXCEPT !.status = h.status]
                                      ELSE sessions[s]]
  BY DEF ended
<1>4. ASSUME NEW s \in Sessions
      PROVE  /\ sessions'[s] \in ShellRow /\ sessions'[s].owner = sessions[s].owner
             /\ s \notin h.rows => sessions'[s].status = sessions[s].status
             /\ s \in h.rows => sessions'[s].status = h.status
  <2>1. PICK row \in ShellRow : row = sessions[s]
    BY DEF ShellInv
  <2>2. sessions'[s] = IF s \in h.rows THEN [row EXCEPT !.status = h.status] ELSE row
    BY <1>3, <2>1
  <2> QED BY <1>1, <2>1, <2>2 DEF ShellRow
<1>5. RowStep
  <2>1. sessions' \in [Sessions -> ShellRow]
    BY <1>3, <1>4
  <2> QED BY <1>1, <1>4, <2>1 DEF RowStep, Opened, Attached, _TERMINAL_STATES
<1>6. Shell'
  BY <1>2, <1>5, RelaySame, ShellStays DEF AgentStep
<1>7. Handlers'
  <2>1. ASSUME NEW g \in handlers', g.op = "open" PROVE ~Opened(g.on)'
    <3>1. g \in handlers /\ g.on \in Sessions /\ ~Opened(g.on)
      BY <1>2, <2>1 DEF ShellInv, Handlers, Handler
    <3> QED BY <1>1, <1>4, <3>1 DEF Opened
  <2> QED BY <1>2, <1>5, <2>1, HandlersStay
<1>8. \A o \in Operators : Page(o)'
  BY <1>2, <1>5, PagesStay
<1> QED BY <1>2, <1>5, <1>6, <1>7, <1>8, RelaysLeft DEF ShellInv

-----------------------------------------------------------------------------
(* The endpoint *)

\* A shell that is refused goes on until it is reported.
LEMMA Failing ==
  ASSUME ShellInv, agent' = [agent EXCEPT !.fails = TRUE]
  PROVE  AgentStep
<1>1. PICK a \in Agent : a = agent
  BY DEF ShellInv
<1>2. PICK b \in Agent : b = [a EXCEPT !.fails = TRUE]
  BY DEF Agent
<1>3. agent' = b /\ b.on = a.on /\ b.gen = a.gen /\ b.base = a.base /\ b.got = a.got /\ Len(a.got) \in Nat
  BY <1>1, <1>2 DEF Agent
<1>4. /\ Len(agent'.got) >= Len(agent.got)
      /\ \A i \in 1..Len(agent.got) : agent'.got[i] = agent.got[i]
      /\ \A i \in 1..Len(agent'.got) : ~(i > Len(agent.got))
  BY <1>1, <1>3
<1> QED BY <1>1, <1>3, <1>4 DEF AgentStep

\* The process that starts next runs no shell.
LEMMA Stopping ==
  ASSUME ShellInv, agent' = Idle(agent.gen + 1)
  PROVE  AgentStep /\ agent'.on = None /\ agent'.got = <<>> /\ agent'.after = 0
<1>1. PICK n \in Nat : n = agent.gen + 1 /\ n > agent.gen
  BY DEF ShellInv, Agent
<1>2. agent' = [on |-> None, gen |-> n, fails |-> FALSE, base |-> 0, outputSeq |-> 0, after |-> 0, got |-> <<>>]
  BY <1>1 DEF Idle
<1>8. <<>> \in Seq(InFrame)
  OBVIOUS
<1>9. None \in Sessions \cup {None}
  OBVIOUS
<1>4. PICK none \in Seq(InFrame), on \in Sessions \cup {None} : none = <<>> /\ on = None
  BY <1>8, <1>9
<1>5. PICK new : new = [on |-> on, gen |-> n, fails |-> FALSE, base |-> 0, outputSeq |-> 0, after |-> 0, got |-> none]
  OBVIOUS
<1>6. new \in Agent
  BY <1>5 DEF Agent
<1>7. agent' = new
  BY <1>2, <1>4, <1>5
<1>3. agent' \in Agent /\ agent'.on = None /\ agent'.gen = n /\ agent'.got = <<>> /\ agent'.after = 0
  <2>1. agent' \in Agent
    BY <1>6, <1>7
  <2>2. agent'.on = None /\ agent'.gen = n /\ agent'.got = <<>> /\ agent'.after = 0
    BY <1>2
  <2> QED BY <2>1, <2>2
<1> QED BY <1>1, <1>3 DEF AgentStep

\* The shell of the endpoint stops, and what it was given goes with it.
LEMMA StoppedStep ==
  ASSUME ShellInv, AgentStep, agent'.on = None, agent'.got = <<>>, agent'.after = 0,
         UNCHANGED <<sessions, relays, handlers, panels, now>>
  PROVE  ShellInv'
<1>1. RowStep /\ RelayStep
  BY Unchanged
<1>2. Shell'
  BY <1>1, ShellStays DEF AgentStep
<1>3. Handlers'
  BY <1>1, HandlersStay DEF ShellInv, Handlers, Handler, Opened
<1>4. \A o \in Operators : Page(o)'
  BY <1>1, PagesStay
<1> QED BY <1>1, <1>2, <1>3, <1>4, RelaysLeft DEF ShellInv

\* The endpoint asks for the oldest live session, and the handler loads its row.
LEMMA AttachLoadStep ==
  ASSUME ShellInv, attach_shell_session_load
  PROVE  ShellInv'
<1>1. PICK s \in Live : s = Oldest
  BY OldestLives DEF attach_shell_session_load
<1>2. /\ s \in Sessions /\ Opened(s) /\ agent.on = None
      /\ \A h \in handlers : h.op = "attach" => h.gen # agent.gen
  BY DEF Live, _LIVE_STATES, Opened, attach_shell_session_load
<1>3. /\ sessions' = sessions /\ agent' = agent /\ now' = now /\ panels' = panels /\ RowStep /\ AgentStep
  BY Unchanged DEF attach_shell_session_load
<1>4. PICK row \in ShellRow : row = sessions[s] /\ row.status \in _LIVE_STATES
  BY <1>2 DEF ShellInv, Live
<1>5. CASE /\ Start([op |-> "end", rows |-> {s}, status |-> "failed"])
           /\ relays' = relays
  <2>1. RelayStep
    BY <1>5, Unchanged
  <2>2. PICK h : h = [op |-> "end", rows |-> {s}, status |-> "failed"]
    OBVIOUS
  <2>3. h.op = "end" /\ h.rows = {s} /\ h.status = "failed" /\ handlers' = handlers \cup {h}
    BY <1>5, <2>2 DEF Start
  <2>4. Handler(h)'
    BY <1>2, <1>3, <2>3 DEF Handler, Opened, _TERMINAL_STATES
  <2>5. Handlers'
    BY <1>3, <2>1, <2>3, <2>4, HandlerStarts
  <2>6. Shell'
    BY <1>3, <1>5, <2>1, RelaySame, ShellStays DEF AgentStep
  <2>7. \A o \in Operators : Page(o)'
    BY <1>3, <1>5, PagesStay
  <2> QED BY <1>3, <1>5, <2>5, <2>6, <2>7, RelaysLeft DEF ShellInv
<1>6. CASE /\ ~(sessions[s].status = "active" /\ ~relays[s].up)
           /\ relays' = IF relays[s].up THEN relays
                        ELSE [relays EXCEPT ![s] = create(sessions[s].client_last_seq, sessions[s].agent_last_seq)]
           /\ Start([op |-> "attach", on |-> s, gen |-> agent.gen, row |-> sessions[s]])
  <2>1. /\ RelayStep /\ relays' = [q \in Sessions |-> relays'[q]] /\ \A q \in Sessions : Relay(q)'
        /\ \A o \in Operators : Page(o)'
    <3>1. CASE relays[s].up
      <4>1. relays' = relays
        BY <1>6, <3>1
      <4>2. RelayStep
        BY <4>1, Unchanged
      <4> QED BY <1>3, <4>1, <4>2, RelaySame, PagesStay DEF ShellInv
    <3>2. CASE ~relays[s].up
      <4>1. ~Up(s) /\ ~Attached(s)
        BY <1>4, <1>6, <3>2 DEF Up, Attached, _LIVE_STATES
      <4>2. PICK made : made = create(row.client_last_seq, row.agent_last_seq)
        OBVIOUS
      <4>3. row.client_last_seq \in Nat /\ row.agent_last_seq \in Nat
        BY DEF ShellRow
      <4>4. /\ made \in SessionRelay /\ made.up /\ Ordered(made.input) /\ Ordered(made.output)
            /\ made.input.digests = <<>> /\ made.output.digests = <<>>
            /\ Chained(made.output.digests) /\ Digests(made.input) = {}
        BY <4>2, <4>3, CreatedRelay
      <4>5. relays' = [relays EXCEPT ![s] = made]
        BY <1>4, <1>6, <3>2, <4>2
      <4>6. /\ \A q \in Sessions : q # s => relays'[q] = relays[q]
            /\ relays'[s] = made /\ relays' = [q \in Sessions |-> relays'[q]]
        BY <1>2, <4>5 DEF ShellInv
      <4>7. RelayStep
        BY <4>1, <4>4, <4>6 DEF RelayStep, Up, Digests, Latest, Attached
      <4>8. \A q \in Sessions : Relay(q)'
        <5>1. Relay(s)'
          BY <1>2, <1>3, <4>4, <4>6, RelayStays DEF Up
        <5> QED BY <1>3, <4>6, <5>1, RelaySame
      <4>9. ASSUME NEW q \in Operators PROVE Page(q)'
        <5>1. panels'[q] = panels[q] /\ panels[q].on \in Sessions \cup {None}
          BY <1>3 DEF ShellInv, Panel
        <5>2. CASE panels[q].on = s
          BY <1>3, <4>1, <4>4, <4>6, <5>1, <5>2, PageStays
        <5>3. CASE panels[q].on # s
          <6>1. panels[q].on # None => relays'[panels[q].on] = relays[panels[q].on]
            BY <4>6, <5>1, <5>3
          <6> QED BY <1>3, <5>1, <6>1, PageStays DEF Up
        <5> QED BY <5>2, <5>3
      <4> QED BY <4>6, <4>7, <4>8, <4>9
    <3> QED BY <3>1, <3>2
  <2>2. PICK h : h = [op |-> "attach", on |-> s, gen |-> agent.gen, row |-> row]
    OBVIOUS
  <2>3. h.op = "attach" /\ h.on = s /\ h.gen = agent.gen /\ h.row = row /\ handlers' = handlers \cup {h}
    BY <1>4, <1>6, <2>2 DEF Start
  <2>4. Handler(h)'
    <3>1. Opened(s)' /\ (row.status = "active" => Attached(s)')
      BY <1>2, <1>3, <1>4 DEF Opened, Attached
    <3>2. agent.gen \in Nat /\ agent.gen <= agent.gen
      BY DEF ShellInv, Agent
    <3> QED BY <1>2, <1>3, <1>4, <2>3, <3>1, <3>2 DEF Handler
  <2>5. Handlers'
    BY <1>2, <1>3, <2>1, <2>3, <2>4, HandlerStarts
  <2>6. Shell'
    BY <1>3, <2>1, ShellStays DEF AgentStep
  <2> QED BY <1>3, <2>1, <2>5, <2>6 DEF ShellInv, AgentStep
<1> QED BY <1>1, <1>5, <1>6 DEF attach_shell_session_load

\* A shell starts with nothing read and nothing sent.
LEMMA AttachStep ==
  ASSUME ShellInv, NEW h \in handlers, attach_shell_session(h)
  PROVE  ShellInv'
<1>1. /\ h.op = "attach" /\ handlers' = handlers \ {h} /\ relays' = relays /\ panels' = panels /\ now' = now
      /\ RelayStep
  BY Unchanged DEF attach_shell_session, Ends
<1>2. /\ h.on \in Sessions /\ Opened(h.on) /\ h.row \in ShellRow /\ h.row.status \in _LIVE_STATES
      /\ h.row.status = "active" => Attached(h.on)
      /\ h.gen = agent.gen => agent.on = None
  BY <1>1 DEF ShellInv, Handlers, Handler
<1>3. RowStep /\ Attached(h.on)' /\ \A s \in Sessions : ~Opened(s) => ~Opened(s)'
  <2>1. CASE h.row.status = "active"
    <3>1. sessions' = sessions
      BY <2>1 DEF attach_shell_session
    <3> QED BY <1>2, <2>1, <3>1, Unchanged DEF Attached, Opened
  <2>2. CASE h.row.status # "active"
    <3>1. PICK row \in ShellRow : row = sessions[h.on]
      BY <1>2 DEF ShellInv
    <3>2. PICK made \in ShellRow : made = [row EXCEPT !.status = "active"]
      BY DEF ShellRow, _LIVE_STATES
    <3>3. made.status = "active" /\ made.owner = row.owner
      BY <3>2 DEF ShellRow
    <3>4. sessions' = [sessions EXCEPT ![h.on] = _touch(made)]
      BY <1>2, <2>2, <3>1, <3>2 DEF attach_shell_session, ShellInv
    <3>5. RowStep /\ sessions'[h.on].status = "active"
      BY <1>2, <3>1, <3>3, <3>4, TouchedRow
    <3>6. \A s \in Sessions : s # h.on => sessions'[s] = sessions[s]
      BY <3>4 DEF ShellInv
    <3> QED BY <1>2, <3>5, <3>6 DEF Attached, Opened
  <2> QED BY <2>1, <2>2
<1>4. PICK a \in Agent : a = agent
  BY DEF ShellInv
<1>5. CASE agent' = agent
  <2>1. AgentStep
    BY <1>5, Unchanged
  <2>2. Shell'
    BY <1>1, <1>3, <1>5, <2>1, RelaySame, ShellStays DEF AgentStep
  <2>3. Handlers'
    BY <1>1, <1>3, <1>5, <2>1, HandlersStay DEF ShellInv, Handlers, Handler
  <2>4. \A o \in Operators : Page(o)'
    BY <1>1, <1>3, <2>1, PagesStay
  <2> QED BY <1>1, <1>3, <2>1, <2>2, <2>3, <2>4, RelaysLeft DEF ShellInv
<1>6. CASE /\ agent.gen = h.gen
           /\ agent' = [agent EXCEPT !.on = h.on, !.base = h.row.agent_last_seq,
                                     !.outputSeq = h.row.agent_last_seq]
  <2>1. a.on = None /\ a.got = <<>> /\ a.after = 0 /\ None \notin Sessions
    BY <1>2, <1>4, <1>6, ShellAssumption DEF ShellInv, Shell
  <2>2. PICK n \in Nat : n = h.row.agent_last_seq
    BY <1>2 DEF ShellRow
  <2>3. PICK b \in Agent : b = [a EXCEPT !.on = h.on, !.base = n, !.outputSeq = n]
    BY <1>2 DEF Agent
  <2>4. agent' = b
    BY <1>4, <1>6, <2>2, <2>3
  <2>5. b.on = h.on /\ b.base = n /\ b.outputSeq = n /\ b.got = <<>> /\ b.after = 0 /\ b.gen = a.gen
    BY <2>1, <2>3 DEF Agent
  <2>6. AgentStep
    BY <1>4, <2>1, <2>4, <2>5 DEF AgentStep
  <2>7. Shell'
    <3>1. h.on # None
      BY <1>2, <2>1
    <3>2. Up(h.on) => relays[h.on].input.last \in Nat
      BY <1>2 DEF ShellInv, Relay, SessionRelay, Direction
    <3>3. Len(b.got) = 0 /\ Up(h.on)' = Up(h.on)
      BY <1>1, <2>5 DEF Up
    <3>4. /\ b.after = Len(b.got) /\ (\A i \in 1..Len(b.got) : b.got[i].seq = i)
          /\ b.on = None => b.got = <<>>
          /\ Attached(b.on)' /\ b.base <= b.outputSeq
          /\ Up(b.on)' => /\ Len(b.got) <= relays'[b.on].input.last
                          /\ \A i \in 1..Len(b.got) : \A d \in Digests(relays'[b.on].input) : d.seq = i => d = b.got[i]
          /\ ~(b.outputSeq > b.base)
      BY <1>1, <1>3, <2>5, <3>1, <3>2, <3>3
    <3> QED BY <2>4, <3>4 DEF Shell, Attached, Up, Digests
  <2>8. Handlers'
    <3>1. \A g \in handlers' : g.op = "attach" => g.gen # agent.gen
      BY <1>1, <1>6 DEF ShellInv, Handlers
    <3>2. \A g \in handlers' : g.op = "open" => ~Opened(g.on)'
      BY <1>1, <1>3 DEF ShellInv, Handlers, Handler
    <3>3. handlers' \subseteq handlers
      BY <1>1
    <3> QED BY <1>1, <1>3, <2>6, <3>1, <3>2, <3>3, HandlersStay
  <2>9. \A o \in Operators : Page(o)'
    BY <1>1, <1>3, <2>6, PagesStay
  <2> QED BY <1>1, <1>3, <2>6, <2>7, <2>8, <2>9, RelaysLeft DEF ShellInv
<1> QED BY <1>5, <1>6 DEF attach_shell_session

\* An answer is lost, or refused, and the shell fails.
LEMMA FailedStep ==
  ASSUME ShellInv, agent' = [agent EXCEPT !.fails = TRUE],
         UNCHANGED <<sessions, relays, handlers, panels, now>>
  PROVE  ShellInv'
<1>1. AgentStep
  BY Failing
<1>2. RowStep /\ RelayStep
  BY Unchanged
<1>3. Shell'
  BY <1>1, <1>2, RelaySame, ShellStays DEF AgentStep
<1>4. agent'.on = agent.on
  BY DEF ShellInv, Agent
<1>5. Handlers'
  BY <1>1, <1>2, <1>4, HandlersStay DEF ShellInv, Handlers, Handler, Opened
<1>6. \A o \in Operators : Page(o)'
  BY <1>1, <1>2, PagesStay
<1> QED BY <1>1, <1>2, <1>3, <1>5, <1>6, RelaysLeft DEF ShellInv

\* The server refuses the shell of a session that is over.
LEMMA RefusedStep ==
  ASSUME ShellInv, shell_refused
  PROVE  ShellInv'
BY FailedStep DEF shell_refused

\* The endpoint reports that its shell ended.
LEMMA CompleteStep ==
  ASSUME ShellInv, complete_shell_session
  PROVE  ShellInv'
<1>1. agent' = Idle(agent.gen + 1) /\ sessions' = sessions /\ panels' = panels /\ now' = now /\ agent.on # None
  BY DEF complete_shell_session
<1>2. AgentStep /\ agent'.on = None /\ agent'.got = <<>> /\ agent'.after = 0
  BY <1>1, Stopping
<1>3. PICK s : s = agent.on
  OBVIOUS
<1>4. s \in Sessions /\ Opened(s)
  BY <1>1, <1>3 DEF ShellInv, Agent, Shell, Attached, Opened
<1>5. CASE relays' = relays /\ handlers' = handlers
  BY <1>1, <1>2, <1>5, StoppedStep
<1>6. ASSUME NEW status \in {"closed", "failed"}, Ending({s}, status) PROVE ShellInv'
  <2>1. PICK S : S = {s}
    OBVIOUS
  <2>2. Ending(S, status) /\ S \subseteq Sessions /\ (\A q \in S : Opened(q)) /\ status \in _TERMINAL_STATES
    BY <1>4, <1>6, <2>1 DEF _TERMINAL_STATES
  <2> QED BY <1>1, <1>2, <2>2, EndingStep
<1> QED BY <1>3, <1>5, <1>6 DEF complete_shell_session

\* The endpoint restarts with no shell, and the next shell is a later one.
LEMMA AgentRestartStep ==
  ASSUME ShellInv, agent_restarts
  PROVE  ShellInv'
<1>1. /\ agent' = Idle(agent.gen + 1) /\ sessions' = sessions /\ panels' = panels /\ now' = now
      /\ relays' = relays /\ handlers' = handlers
  BY DEF agent_restarts
<1>2. AgentStep /\ agent'.on = None /\ agent'.got = <<>> /\ agent'.after = 0
  BY <1>1, Stopping
<1> QED BY <1>1, <1>2, StoppedStep

\* A server that restarts forgets every relay, and nothing it forgot is made again.
LEMMA ServerRestartStep ==
  ASSUME ShellInv, server_restarts
  PROVE  ShellInv'
<1>1. /\ agent' = agent /\ sessions' = sessions /\ panels' = panels /\ now' = now
      /\ relays' = [s \in Sessions |-> NoRelay] /\ handlers' = {}
  BY DEF server_restarts
<1>2. RowStep /\ AgentStep
  BY <1>1, Unchanged
<1>3. \A s \in Sessions : ~Up(s)' /\ relays'[s] = NoRelay
  BY <1>1 DEF Up, NoRelay
<1>4. relays' = [s \in Sessions |-> relays'[s]] /\ \A s \in Sessions : Relay(s)'
  BY <1>1, <1>3 DEF Relay, Up
<1>5. Shell'
  <2>1. PICK a \in Agent : a = agent /\ agent' = a
    BY <1>1 DEF ShellInv
  <2>2. /\ a.after = Len(a.got) /\ (\A i \in 1..Len(a.got) : a.got[i].seq = i)
        /\ a.on = None => a.got = <<>>
        /\ a.on # None => Attached(a.on)' /\ a.base <= a.outputSeq /\ ~Up(a.on)'
    BY <1>1, <1>3, <2>1 DEF ShellInv, Shell, Attached, Agent
  <2> QED BY <2>1, <2>2 DEF Shell, Attached, Up
<1>6. Handlers'
  BY <1>1 DEF Handlers
<1>7. ASSUME NEW o \in Operators PROVE Page(o)'
  <2>1. panels'[o] = panels[o] /\ panels[o].on \in Sessions \cup {None}
    BY <1>1 DEF ShellInv, Panel
  <2>2. panels[o].on # None => ~relays'[panels[o].on].up
    BY <1>3, <2>1 DEF Up
  <2> QED BY <1>2, <2>1, <2>2, PageStays
<1> QED BY <1>1, <1>2, <1>4, <1>5, <1>6, <1>7 DEF ShellInv, RowStep, AgentStep

\* A step of the conversations, of the trust or of the clock.
LEMMA QuietStep ==
  ASSUME ShellInv, UNCHANGED <<sessions, relays, handlers, agent, panels>>, now' \in Nat
  PROVE  ShellInv'
<1>1. RowStep /\ AgentStep /\ RelayStep
  BY Unchanged
<1>2. Shell'
  BY <1>1, RelaySame, ShellStays DEF AgentStep
<1>3. Handlers'
  BY <1>1, HandlersStay DEF ShellInv, Handlers, Handler, Opened
<1>4. \A o \in Operators : Page(o)'
  BY <1>1, PagesStay
<1> QED BY <1>1, <1>2, <1>3, <1>4, RelaysLeft DEF ShellInv

\* A shell is given what comes next, also when an answer was lost.
LEMMA PollStep ==
  ASSUME ShellInv, pollShellInput
  PROVE  ShellInv'
<1>1. PICK a \in Agent : a = agent
  BY DEF ShellInv
<1>2. PICK s : s = a.on
  OBVIOUS
<1>3. PICK at \in Nat : at = a.after
  BY DEF Agent
<1>4. PICK batch : batch = After(relays[s].input, at)
  OBVIOUS
<1>5. /\ s # None /\ relays[s].up /\ ~Refused(relays[s].input, at, at)
      /\ relays' = [relays EXCEPT ![s].input = read(@, at, at)]
      /\ \/ agent' = [agent EXCEPT !.got = @ \o batch,
                                   !.after = IF batch = <<>> THEN @ ELSE batch[Len(batch)].seq]
         \/ agent' = agent
  BY <1>1, <1>2, <1>3, <1>4, Zenon DEF pollShellInput, Running, Reachable
<1>6. /\ sessions' = sessions /\ panels' = panels /\ now' = now /\ handlers' = handlers /\ RowStep
  BY Unchanged DEF pollShellInput
<1>7. /\ s \in Sessions /\ Up(s) /\ Attached(s) /\ a.base <= a.outputSeq /\ at = Len(a.got)
      /\ \A i \in 1..Len(a.got) : a.got[i].seq = i
      /\ a.got \in Seq(InFrame)
  BY <1>1, <1>2, <1>3, <1>5 DEF ShellInv, Shell, Agent, Up
<1>8. PICK in \in Direction(InFrame), out \in Direction(OutFrame) :
        /\ in = relays[s].input /\ out = relays[s].output
        /\ relays[s] \in SessionRelay /\ Ordered(in) /\ Ordered(out) /\ Sent(s) /\ Chained(out.digests)
  BY <1>7 DEF ShellInv, Relay, SessionRelay, Sent
<1>9. /\ Len(a.got) <= in.last
      /\ \A i \in 1..Len(a.got) : \A d \in Digests(in) : d.seq = i => d = a.got[i]
      /\ a.outputSeq > a.base => out.digests # <<>> /\ Latest(out).gen = a.gen
  BY <1>1, <1>2, <1>5, <1>7, <1>8 DEF ShellInv, Shell
<1>10. ~Refused(in, at, at)
  BY <1>5, <1>8
<1>11. PICK new \in Direction(InFrame) : new = read(in, at, at)
  BY <1>8, <1>10, ReadOrdered
<1>12. /\ Ordered(new) /\ new.last = in.last /\ Digests(new) \subseteq Digests(in)
  BY <1>8, <1>10, <1>11, ReadOrdered, ReadDigests
<1>13. /\ batch \in Seq(InFrame) /\ Len(batch) <= in.last - at
       /\ \A i \in 1..Len(batch) : batch[i] \in Digests(in) /\ batch[i].seq = at + i
  <2>1. batch = After(in, at)
    BY <1>4, <1>8
  <2>2. /\ After(in, at) \in Seq(InFrame) /\ Len(After(in, at)) <= in.last - at
        /\ \A i \in 1..Len(After(in, at)) : After(in, at)[i].seq = at + i
    BY <1>8, <1>10, ReadOrdered
  <2>3. \A i \in 1..Len(After(in, at)) : After(in, at)[i] \in Digests(in)
    BY <1>8, <1>10, ReadDigests
  <2> QED BY <2>1, <2>2, <2>3
<1>14. /\ relays' = [q \in Sessions |-> relays'[q]] /\ (\A q \in Sessions : q # s => relays'[q] = relays[q])
       /\ relays'[s] \in SessionRelay /\ relays'[s].up
       /\ relays'[s].input = new /\ relays'[s].output = out
  <2>1. relays' = [relays EXCEPT ![s].input = new]
    BY <1>5, <1>7, <1>8, <1>11 DEF ShellInv
  <2> QED BY <1>7, <1>8, <2>1, InputSet
<1>15. RelayStep
  <2>1. /\ Up(s) /\ Up(s)' /\ relays'[s].input.last = relays[s].input.last
        /\ relays'[s].output = relays[s].output
        /\ Digests(relays'[s].input) \subseteq Digests(relays[s].input)
    BY <1>7, <1>8, <1>12, <1>14 DEF Up
  <2>2. ASSUME NEW q \in Sessions, q # s PROVE relays'[q] = relays[q]
    BY <1>14, <2>2
  <2> QED BY <2>1, <2>2, ZenonT(30) DEF RelayStep, Up, Latest, Digests
<1>16. ASSUME AgentStep
       PROVE  /\ \A q \in Sessions : Relay(q)'
              /\ \A o \in Operators : Page(o)'
  <2>1. Relay(s)'
    BY <1>6, <1>7, <1>8, <1>12, <1>14, <1>16, RelayStays DEF Up
  <2>2. \A q \in Sessions : Relay(q)'
    BY <1>6, <1>14, <1>16, <2>1, RelaySame
  <2>3. ASSUME NEW o \in Operators PROVE Page(o)'
    <3>1. panels'[o] = panels[o] /\ panels[o].on \in Sessions \cup {None}
      BY <1>6 DEF ShellInv, Panel
    <3>2. panels[o].on # None /\ relays'[panels[o].on].up =>
             /\ Up(panels[o].on)
             /\ \A d \in Digests(relays'[panels[o].on].input) : d \in Digests(relays[panels[o].on].input)
             /\ relays'[panels[o].on].output = relays[panels[o].on].output
      <4>1. CASE panels[o].on = s
        BY <1>7, <1>8, <1>12, <1>14, <4>1
      <4>2. CASE panels[o].on # s
        BY <1>14, <3>1, <4>2 DEF Up
      <4> QED BY <4>1, <4>2
    <3> QED BY <1>6, <1>16, <3>1, <3>2, PageStays
  <2> QED BY <2>2, <2>3
<1>17. CASE agent' = agent
  <2>1. AgentStep
    BY <1>17, Unchanged
  <2>2. Shell'
    BY <1>6, <1>15, <1>16, <1>17, <2>1, ShellStays DEF AgentStep
  <2>3. Handlers'
    BY <1>6, <1>15, <1>17, <2>1, HandlersStay DEF ShellInv, Handlers, Handler, Opened
  <2> QED BY <1>6, <1>14, <1>16, <2>1, <2>2, <2>3 DEF ShellInv, RowStep, AgentStep
<1>18. CASE agent' = [agent EXCEPT !.got = @ \o batch,
                                   !.after = IF batch = <<>> THEN @ ELSE batch[Len(batch)].seq]
  <2>1. PICK c \in Nat, b \in Nat : c = Len(a.got) /\ b = Len(batch)
    BY <1>7, <1>13
  <2>2. PICK got \in Seq(InFrame) : got = a.got \o batch
    BY <1>7, <1>13, ConcatProperties
  <2>3. /\ Len(got) = c + b
        /\ \A i \in 1..c : got[i] = a.got[i]
        /\ \A i \in 1..b : got[c + i] = batch[i]
    <3>1. /\ Len(got) = c + b
          /\ \A i \in 1..(c + b) : got[i] = IF i <= c THEN a.got[i] ELSE batch[i - c]
      BY <1>7, <1>13, <2>1, <2>2, ConcatProperties, ZenonT(30)
    <3>2. ASSUME NEW i \in 1..c PROVE got[i] = a.got[i]
      BY <3>1
    <3>3. ASSUME NEW i \in 1..b PROVE got[c + i] = batch[i]
      <4>1. c + i \in 1..(c + b) /\ ~(c + i <= c) /\ (c + i) - c = i
        OBVIOUS
      <4> QED BY <3>1, <4>1
    <3> QED BY <3>1, <3>2, <3>3
  <2>4. PICK after \in Nat : after = (IF batch = <<>> THEN at ELSE batch[Len(batch)].seq) /\ after = c + b
    <3>1. CASE batch = <<>>
      BY <1>7, <2>1, <3>1
    <3>2. CASE batch # <<>>
      <4>1. b \in 1..b
        BY <1>13, <2>1, <3>2
      <4>2. batch[b].seq = at + b
        BY <1>13, <2>1, <4>1
      <4> QED BY <1>7, <2>1, <3>2, <4>2
    <3> QED BY <3>1, <3>2
  <2>5. PICK new2 \in Agent : new2 = [a EXCEPT !.got = got, !.after = after]
    BY DEF Agent
  <2>6. agent' = new2
    BY <1>1, <1>3, <1>18, <2>2, <2>4, <2>5
  <2>7. /\ new2.on = s /\ new2.gen = a.gen /\ new2.base = a.base /\ new2.outputSeq = a.outputSeq
        /\ new2.got = got /\ new2.after = after
    BY <1>2, <2>5 DEF Agent
  <2>8. ASSUME NEW i \in 1..(c + b), i > c
        PROVE  got[i].seq = i /\ got[i] \in Digests(in)
    <3>1. PICK j \in 1..b : i = c + j
      <4>1. i - c \in 1..b /\ i = c + (i - c)
        BY <2>8
      <4> QED BY <4>1
    <3>2. got[i] = batch[j] /\ batch[j] \in Digests(in) /\ batch[j].seq = at + j
      BY <1>13, <2>1, <2>3, <3>1
    <3> QED BY <1>7, <2>1, <3>1, <3>2
  <2>9. AgentStep
    <3>1. /\ agent'.gen = agent.gen /\ agent'.on = agent.on /\ agent'.base = agent.base /\ agent.on = s
          /\ agent'.got = got /\ Len(agent.got) = c /\ Up(agent.on)
      BY <1>1, <1>2, <1>7, <2>1, <2>6, <2>7
    <3>2. \A i \in 1..Len(agent.got) : got[i] = agent.got[i]
      BY <1>1, <2>1, <2>3
    <3>3. \A i \in 1..Len(got) : i > c =>
            got[i].seq = i /\ got[i] \in Digests(relays[agent.on].input)
      BY <1>8, <2>3, <2>8, <3>1
    <3>4. Len(got) >= c
      BY <2>3
    <3> QED BY <2>6, <3>1, <3>2, <3>3, <3>4 DEF AgentStep
  <2>10. Shell'
    <3>1. \A i \in 1..(c + b) : got[i].seq = i
      BY <1>7, <2>1, <2>3, <2>8
    <3>2. c + b <= in.last
      <4>1. PICK last \in Nat : last = in.last
        BY DEF Direction
      <4> QED BY <1>7, <1>9, <1>13, <2>1, <4>1
    <3>3. ASSUME NEW i \in 1..(c + b), NEW d \in Digests(new), d.seq = i PROVE d = got[i]
      <4>1. d \in Digests(in)
        BY <1>12, <3>3
      <4>2. CASE i <= c
        BY <1>9, <2>1, <2>3, <3>3, <4>1, <4>2
      <4>3. CASE i > c
        BY <1>8, <2>8, <3>3, <4>1, <4>3, OrderedDigests
      <4> QED BY <4>2, <4>3
    <3>4. /\ new2.after = Len(new2.got) /\ (\A i \in 1..Len(new2.got) : new2.got[i].seq = i)
          /\ new2.on # None
          /\ Attached(new2.on)' /\ new2.base <= new2.outputSeq
          /\ Len(new2.got) <= relays'[new2.on].input.last
          /\ \A i \in 1..Len(new2.got) : \A d \in Digests(relays'[new2.on].input) : d.seq = i => d = new2.got[i]
          /\ new2.outputSeq > new2.base =>
               relays'[new2.on].output.digests # <<>> /\ Latest(relays'[new2.on].output).gen = new2.gen
      BY <1>5, <1>6, <1>7, <1>9, <1>12, <1>14, <2>3, <2>4, <2>7, <3>1, <3>2, <3>3 DEF RowStep
    <3> QED BY <2>6, <3>4 DEF Shell, Attached, Up, Digests, Latest
  <2>11. Handlers'
    <3>1. agent.on # None
      BY <1>1, <1>2, <1>5
    <3> QED BY <1>6, <1>15, <2>9, <3>1, HandlersStay DEF ShellInv, Handlers, Handler, Opened
  <2> QED BY <1>6, <1>14, <1>16, <2>9, <2>10, <2>11 DEF ShellInv, RowStep, AgentStep
<1> QED BY <1>5, <1>17, <1>18

\* A chunk that is accepted is the next of its shell, or the first of a later one.
LEMMA OutputLoadStep ==
  ASSUME ShellInv, send_shell_output_load
  PROVE  ShellInv'
<1>1. PICK a \in Agent : a = agent
  BY DEF ShellInv
<1>2. PICK s : s = a.on
  OBVIOUS
<1>3. PICK frame : frame = NextFrame
  OBVIOUS
<1>4. s # None /\ relays[s].up /\ sessions' = sessions /\ panels' = panels /\ now' = now /\ RowStep
  BY <1>1, <1>2, Unchanged DEF send_shell_output_load, Running, Reachable
<1>5. /\ s \in Sessions /\ Up(s) /\ Attached(s) /\ Opened(s) /\ a.base <= a.outputSeq /\ s # None
  BY <1>1, <1>2, <1>4 DEF ShellInv, Shell, Agent, Up, Attached, Opened
<1>6. CASE Ending({s}, "failed") /\ agent' = [agent EXCEPT !.fails = TRUE]
  <2>1. PICK S : S = {s}
    OBVIOUS
  <2>2. Ending(S, "failed") /\ S \subseteq Sessions /\ (\A q \in S : Opened(q)) /\ "failed" \in _TERMINAL_STATES
    BY <1>5, <1>6, <2>1 DEF _TERMINAL_STATES
  <2>3. AgentStep
    BY <1>6, Failing
  <2> QED BY <1>4, <1>6, <2>2, <2>3, EndingStep
<1>7. CASE agent' = [agent EXCEPT !.fails = TRUE] /\ relays' = relays /\ handlers' = handlers
  BY <1>4, <1>7, FailedStep
<1>8. CASE /\ append(relays[s].output, frame) \in {"accepted", "repeated"}
           /\ relays' = IF append(relays[s].output, frame) = "repeated" THEN relays
                        ELSE [relays EXCEPT ![s].output = Appended(@, frame)]
           /\ Start([op |-> "output", on |-> s, frame |-> frame, bytes |-> sessions[s].bytes,
                     accepted |-> append(relays[s].output, frame) = "accepted"])
           /\ agent' = agent
  <2>1. AgentStep
    BY <1>8, Unchanged
  <2>2. /\ frame \in OutFrame /\ frame.seq \in Nat /\ frame.seq = a.outputSeq + 1 /\ frame.gen = a.gen
        /\ frame.n = frame.seq - a.base /\ frame.seq > a.base /\ a.gen \in Nat /\ a.base \in Nat /\ a.outputSeq \in Nat
    <3>1. a.gen \in Nat /\ a.base \in Nat /\ a.outputSeq \in Nat
      BY DEF Agent
    <3>2. PICK seq \in Nat, n \in Nat : seq = a.outputSeq + 1 /\ n = a.outputSeq + 1 - a.base /\ seq > a.base
      BY <1>5, <3>1
    <3>3. frame = [seq |-> seq, gen |-> a.gen, n |-> n]
      BY <1>1, <1>3, <3>2 DEF NextFrame
    <3> QED BY <3>1, <3>2, <3>3 DEF OutFrame
  <2>3. PICK in \in Direction(InFrame), out \in Direction(OutFrame) :
          /\ in = relays[s].input /\ out = relays[s].output
          /\ relays[s] \in SessionRelay /\ Ordered(in) /\ Ordered(out) /\ Sent(s) /\ Chained(out.digests)
    BY <1>5 DEF ShellInv, Relay, SessionRelay, Sent
  <2>4. /\ \A d \in Digests(out) : d \in OutFrame /\ Counted(s, d) /\ d.gen <= Latest(out).gen
        /\ out.digests # <<>> => Latest(out) \in Digests(out)
        /\ a.outputSeq > a.base => out.digests # <<>> /\ Latest(out).gen = a.gen
    <3>1. \A d \in Digests(out) : d \in OutFrame
      BY <2>3, OrderedDigests
    <3>2. \A d \in Digests(out) : Counted(s, d) /\ d.gen <= Latest(out).gen
      BY <2>3 DEF Sent
    <3>3. out.digests # <<>> => Latest(out) \in Digests(out)
      <4>1. out.digests # <<>> => Len(out.digests) \in 1..Len(out.digests)
        BY DEF Direction
      <4> QED BY <4>1 DEF Latest, Digests
    <3>4. a.outputSeq > a.base => out.digests # <<>> /\ Latest(out).gen = a.gen
      BY <1>1, <1>2, <1>4, <1>5, <2>3 DEF ShellInv, Shell
    <3> QED BY <3>1, <3>2, <3>3, <3>4
  <2>5. PICK new \in Direction(OutFrame) :
          /\ Ordered(new) /\ Chained(new.digests) /\ new.digests # <<>>
          /\ \A d \in Digests(new) : d.gen <= Latest(new).gen /\ (d \in Digests(out) \/ d = frame)
          /\ Latest(new).gen = a.gen
          /\ \A start \in Nat : \A screen \in Seq(OutFrame) :
               Shows(out, start, screen) => Shows(new, start, screen)
          /\ relays' = [q \in Sessions |-> relays'[q]] /\ \A q \in Sessions : q # s => relays'[q] = relays[q]
          /\ relays'[s] \in SessionRelay /\ relays'[s].up /\ relays'[s].input = in /\ relays'[s].output = new
    <3>1. CASE append(out, frame) = "repeated"
      <4>1. frame \in Digests(out)
        BY <3>1 DEF append, Digests, Direction
      <4>2. out.digests # <<>>
        BY <4>1 DEF Digests
      <4>3. Latest(out).gen = a.gen
        <5>1. PICK l \in OutFrame : l = Latest(out) /\ l \in Digests(out)
          BY <2>4, <4>2
        <5>2. l.gen \in Nat /\ frame.gen <= l.gen /\ l.gen <= a.gen
          BY <1>1, <2>4, <4>1, <5>1 DEF OutFrame, Counted
        <5> QED BY <2>2, <5>1, <5>2
      <4>4. relays' = relays
        BY <1>8, <2>3, <3>1
      <4> QED BY <1>5, <2>3, <2>4, <4>2, <4>3, <4>4 DEF Up, ShellInv
    <3>2. CASE append(out, frame) = "accepted"
      <4>1. PICK new \in Direction(OutFrame) : new = Appended(out, frame)
        BY <2>2, <2>3, <3>2, AppendedOrdered
      <4>2. PICK n \in Nat : n = Len(out.digests)
        BY DEF Direction
      <4>3. /\ Ordered(new) /\ Len(new.digests) = n + 1 /\ new.digests[n + 1] = frame
            /\ \A i \in 1..n : new.digests[i] = out.digests[i]
            /\ frame.seq = out.last + 1
        <5>1. frame \in OutFrame /\ frame.seq \in Nat /\ Ordered(out)
          BY <2>2, <2>3
        <5> QED BY <3>2, <4>1, <4>2, <5>1, AppendedOrdered
      <4>4. /\ \A d \in Digests(new) : d \in Digests(out) \/ d = frame
            /\ new.digests # <<>> /\ Latest(new) = frame
        BY <2>2, <2>3, <3>2, <4>1, AppendedDigests
      <4>5. n > 0 => Follows(out.digests[n], frame)
        <5> SUFFICES ASSUME n > 0 PROVE Follows(out.digests[n], frame)
          OBVIOUS
        <5>1. PICK l \in OutFrame : l = out.digests[n] /\ l = Latest(out) /\ l \in Digests(out)
          <6>1. out.digests # <<>>
            BY <4>2 DEF Direction
          <6> QED BY <2>4, <4>2, <6>1 DEF Latest
        <5>2. l.seq = out.last
          <6>1. n \in 1..n
            OBVIOUS
          <6>2. l.seq = out.last - n + n /\ out.last \in Nat
            BY <2>3, <4>2, <5>1, <6>1, ZenonT(30) DEF Ordered, Direction
          <6> QED BY <6>2
        <5>3. l.gen \in Nat /\ l.gen <= a.gen /\ (l.gen = a.gen => l.n = l.seq - a.base)
          BY <1>1, <2>4, <5>1 DEF OutFrame, Counted
        <5>4. CASE l.gen = frame.gen
          <6>1. PICK last \in Nat, base \in Nat : last = out.last /\ base = a.base
            BY <2>2 DEF Direction
          <6>3. l.n = last - base /\ frame.n = (last + 1) - base
            BY <2>2, <4>3, <5>2, <5>3, <5>4, <6>1
          <6>2. frame.n = l.n + 1
            BY <6>3
          <6> QED BY <5>1, <5>4, <6>2 DEF Follows
        <5>5. CASE l.gen # frame.gen
          <6>1. ~(a.outputSeq > a.base)
            BY <2>2, <2>4, <5>1, <5>5
          <6>2. frame.n = 1 /\ l.gen < frame.gen
            BY <1>5, <2>2, <5>3, <5>5, <6>1
          <6> QED BY <5>1, <5>5, <6>2 DEF Follows
        <5> QED BY <5>4, <5>5
      <4>6. Chained(new.digests)
        <5>1. ASSUME NEW i \in 1..(n + 1), i > 1 PROVE Follows(new.digests[i - 1], new.digests[i])
          <6>1. CASE i = n + 1
            <7>1. n \in 1..n /\ i - 1 = n
              BY <5>1, <6>1
            <7>2. new.digests[n] = out.digests[n] /\ new.digests[i] = frame
              BY <4>3, <6>1, <7>1
            <7> QED BY <4>5, <7>1, <7>2
          <6>2. CASE i # n + 1
            <7>1. i \in 1..n /\ i - 1 \in 1..n
              BY <5>1, <6>2
            <7>2. Follows(out.digests[i - 1], out.digests[i])
              BY <2>3, <4>2, <5>1, <7>1 DEF Chained
            <7> QED BY <4>3, <7>1, <7>2
          <6> QED BY <6>1, <6>2
        <5> QED BY <4>3, <5>1 DEF Chained
      <4>7. ASSUME NEW d \in Digests(new) PROVE d.gen <= Latest(new).gen
        BY <1>1, <2>2, <2>4, <4>4, <4>7 DEF Counted
      <4>8. ASSUME NEW start \in Nat, NEW screen \in Seq(OutFrame), Shows(out, start, screen)
            PROVE  Shows(new, start, screen)
        <5>1. Len(screen) \in Nat
          OBVIOUS
        <5> QED BY <2>2, <2>3, <3>2, <4>1, <4>8, <5>1, ShowsAppended
      <4>9. relays' = [relays EXCEPT ![s].output = new]
        BY <1>5, <1>8, <2>3, <3>2, <4>1 DEF ShellInv
      <4>10. /\ relays' = [q \in Sessions |-> relays'[q]] /\ (\A q \in Sessions : q # s => relays'[q] = relays[q])
             /\ relays'[s] \in SessionRelay /\ relays'[s].up
             /\ relays'[s].input = in /\ relays'[s].output = new
        BY <1>5, <2>3, <4>9, OutputSet
      <4> QED BY <2>2, <4>3, <4>4, <4>6, <4>7, <4>8, <4>10
    <3> QED BY <1>8, <2>3, <3>1, <3>2
  <2>6. RelayStep
    <3>1. /\ Up(s) /\ Up(s)' /\ relays'[s].input = relays[s].input
          /\ relays[s].output.digests # <<>> =>
               /\ relays'[s].output.digests # <<>>
               /\ \A n \in Nat : n <= Latest(relays[s].output).gen => n <= Latest(relays'[s].output).gen
      <4>1. ASSUME out.digests # <<>>, NEW n \in Nat, n <= Latest(out).gen PROVE n <= Latest(new).gen
        <5>1. Latest(out).gen \in Nat /\ Latest(out).gen <= a.gen
          BY <1>1, <2>4, <4>1 DEF OutFrame, Counted
        <5> QED BY <2>2, <2>5, <4>1, <5>1
      <4> QED BY <1>5, <2>3, <2>5, <4>1 DEF Up
    <3>2. ASSUME NEW q \in Sessions, q # s PROVE relays'[q] = relays[q]
      BY <2>5, <3>2
    <3> QED BY <3>1, <3>2 DEF RelayStep, Up, Latest, Digests
  <2>7. \A q \in Sessions : Relay(q)'
    <3>1. Sent(s)'
      <4>1. \A d \in Digests(new) : Counted(s, d)
        BY <1>1, <1>2, <2>2, <2>4, <2>5 DEF Counted
      <4>2. \A d \in Digests(new) : Counted(s, d)' /\ d.gen <= Latest(new).gen
        BY <1>8, <2>5, <4>1 DEF Counted
      <4>3. Attached(s)'
        BY <1>4, <1>5 DEF Attached
      <4> QED BY <2>5, <4>2, <4>3 DEF Sent, Chained, Digests, Latest
    <3>2. Relay(s)'
      BY <2>3, <2>5, <3>1 DEF Relay, Up, Ordered
    <3> QED BY <1>4, <2>1, <2>5, <3>2, RelaySame
  <2>8. Shell'
    BY <1>4, <1>8, <2>1, <2>6, <2>7, ShellStays DEF AgentStep
  <2>9. Handlers'
    <3>1. PICK bytes \in Nat : bytes = sessions[s].bytes
      BY <1>5 DEF ShellInv, ShellRow
    <3>2. PICK h : h = [op |-> "output", on |-> s, frame |-> frame, bytes |-> bytes,
                        accepted |-> append(relays[s].output, frame) = "accepted"]
      OBVIOUS
    <3>3. /\ h.op = "output" /\ h.on = s /\ h.frame = frame /\ h.bytes = bytes
          /\ handlers' = handlers \cup {h}
      BY <1>8, <3>1, <3>2 DEF Start
    <3>4. Handler(h)'
      <4>1. Up(s)' /\ Attached(s)' /\ frame.gen <= agent'.gen /\ agent'.on = s
        BY <1>1, <1>2, <1>4, <1>5, <1>8, <2>2, <2>5 DEF Up, Attached
      <4>2. relays'[s].output.digests # <<>> /\ frame.gen <= Latest(relays'[s].output).gen
        BY <2>2, <2>5
      <4> QED BY <1>5, <2>2, <3>3, <4>1, <4>2 DEF Handler, Latest
    <3>5. agent'.on = agent.on
      BY <1>8
    <3> QED BY <1>4, <2>1, <2>6, <3>3, <3>4, <3>5, HandlerStarts
  <2>10. ASSUME NEW q \in Operators PROVE Page(q)'
    <3>1. PICK p \in Panel : p = panels[q] /\ panels'[q] = p
      BY <1>4 DEF ShellInv
    <3>2. p.on \in Sessions \cup {None} /\ p.start \in Nat /\ p.screen \in Seq(OutFrame)
      BY DEF Panel
    <3>3. CASE p.on # s
      <4>1. p.on # None => relays'[p.on] = relays[p.on]
        BY <2>5, <3>2, <3>3
      <4> QED BY <1>4, <2>1, <3>1, <4>1, PageStays DEF Up
    <3>4. CASE p.on = s
      BY <1>4, <1>5, <2>1, <2>3, <2>5, <3>1, <3>2, <3>4, PageStays
    <3> QED BY <3>3, <3>4
  <2> QED BY <1>4, <2>1, <2>5, <2>7, <2>8, <2>9, <2>10 DEF ShellInv, AgentStep
<1> QED BY <1>1, <1>2, <1>3, <1>6, <1>7, <1>8 DEF send_shell_output_load

\* The endpoint moves on once its last chunk was taken.
LEMMA OutputStep ==
  ASSUME ShellInv, NEW h \in handlers, send_shell_output(h)
  PROVE  ShellInv'
<1>1. /\ h.op = "output" /\ handlers' = handlers \ {h} /\ relays' = relays /\ panels' = panels /\ now' = now
      /\ RelayStep
  BY Unchanged DEF send_shell_output, Ends
<1>2. /\ h.on \in Sessions /\ Up(h.on) /\ Attached(h.on) /\ h.bytes \in Nat /\ h.frame \in OutFrame
      /\ h.frame.gen <= agent.gen
      /\ relays[h.on].output.digests # <<>> /\ h.frame.gen <= Latest(relays[h.on].output).gen
  BY <1>1 DEF ShellInv, Handlers, Handler
<1>3. RowStep /\ \A s \in Sessions : ~Opened(s) => ~Opened(s)'
  <2>1. CASE sessions' = sessions
    BY <2>1, Unchanged DEF Opened
  <2>2. CASE sessions' = [sessions EXCEPT ![h.on] =
                            _touch([@ EXCEPT !.agent_last_seq = h.frame.seq, !.bytes = h.bytes + 1])]
    <3>1. PICK row \in ShellRow : row = sessions[h.on]
      BY <1>2 DEF ShellInv
    <3>2. PICK seq \in Nat, bytes \in Nat : seq = h.frame.seq /\ bytes = h.bytes + 1
      BY <1>2 DEF OutFrame
    <3>3. PICK made \in ShellRow : made = [row EXCEPT !.agent_last_seq = seq, !.bytes = bytes]
      BY DEF ShellRow
    <3>4. made.status = row.status /\ made.owner = row.owner
      BY <3>3 DEF ShellRow
    <3>5. sessions' = [sessions EXCEPT ![h.on] = _touch(made)]
      BY <1>2, <2>2, <3>1, <3>2, <3>3 DEF ShellInv
    <3>6. RowStep
      BY <1>2, <3>1, <3>4, <3>5, TouchedRow DEF Opened, Attached
    <3>7. \A s \in Sessions : s # h.on => sessions'[s] = sessions[s]
      BY <3>5 DEF ShellInv
    <3> QED BY <1>2, <3>6, <3>7 DEF Opened, Attached
  <2> QED BY <2>1, <2>2 DEF send_shell_output
<1>4. CASE agent' = agent
  <2>1. AgentStep
    BY <1>4, Unchanged
  <2>2. Shell'
    BY <1>1, <1>3, <1>4, <2>1, RelaySame, ShellStays DEF AgentStep
  <2>3. Handlers'
    BY <1>1, <1>3, <1>4, <2>1, HandlersStay DEF ShellInv, Handlers, Handler
  <2>4. \A o \in Operators : Page(o)'
    BY <1>1, <1>3, <2>1, PagesStay
  <2> QED BY <1>1, <1>3, <2>1, <2>2, <2>3, <2>4, RelaysLeft DEF ShellInv
<1>5. CASE /\ agent.on # None /\ agent.on = h.on /\ NextFrame = h.frame
           /\ agent' = [agent EXCEPT !.outputSeq = h.frame.seq]
  <2>1. PICK a \in Agent : a = agent
    BY DEF ShellInv
  <2>2. PICK seq \in Nat : seq = h.frame.seq
    BY <1>2 DEF OutFrame
  <2>3. PICK b \in Agent : b = [a EXCEPT !.outputSeq = seq]
    BY DEF Agent
  <2>4. agent' = b /\ b.on = a.on /\ b.gen = a.gen /\ b.base = a.base /\ b.got = a.got /\ b.after = a.after
        /\ b.outputSeq = seq /\ Len(a.got) \in Nat
    BY <1>5, <2>1, <2>2, <2>3 DEF Agent
  <2>5. AgentStep
    <3>1. /\ Len(agent'.got) >= Len(agent.got)
          /\ \A i \in 1..Len(agent.got) : agent'.got[i] = agent.got[i]
          /\ \A i \in 1..Len(agent'.got) : ~(i > Len(agent.got))
      BY <2>1, <2>4
    <3> QED BY <2>1, <2>4, <3>1 DEF AgentStep
  <2>6. Latest(relays[h.on].output).gen = a.gen /\ a.base <= seq
    <3>1. h.frame.gen = a.gen /\ seq = a.outputSeq + 1
      BY <1>5, <2>1, <2>2 DEF NextFrame
    <3>2. a.base <= a.outputSeq /\ a.base \in Nat /\ a.outputSeq \in Nat /\ a.gen \in Nat
      BY <1>5, <2>1 DEF ShellInv, Shell, Agent
    <3>3. PICK out \in Direction(OutFrame) : out = relays[h.on].output /\ Ordered(out) /\ Sent(h.on)
      BY <1>2 DEF ShellInv, Relay, SessionRelay
    <3>4. PICK l : l = Latest(out) /\ l \in Digests(out)
      <4>1. Len(out.digests) \in 1..Len(out.digests)
        BY <1>2, <3>3 DEF Direction
      <4> QED BY <4>1 DEF Latest, Digests
    <3>5. l \in OutFrame /\ l.gen <= a.gen
      BY <2>1, <3>3, <3>4, OrderedDigests DEF Sent, Counted
    <3> QED BY <1>2, <3>1, <3>2, <3>3, <3>4, <3>5 DEF OutFrame
  <2>7. Shell'
    <3>1. /\ a.after = Len(a.got) /\ (\A i \in 1..Len(a.got) : a.got[i].seq = i)
          /\ a.on # None /\ a.on = h.on
          /\ Len(a.got) <= relays[h.on].input.last
          /\ \A i \in 1..Len(a.got) : \A d \in Digests(relays[h.on].input) : d.seq = i => d = a.got[i]
      BY <1>2, <1>5, <2>1 DEF ShellInv, Shell
    <3>2. /\ b.after = Len(b.got) /\ (\A i \in 1..Len(b.got) : b.got[i].seq = i)
          /\ b.on # None /\ Attached(b.on)' /\ b.base <= b.outputSeq
          /\ Len(b.got) <= relays'[b.on].input.last
          /\ \A i \in 1..Len(b.got) : \A d \in Digests(relays'[b.on].input) : d.seq = i => d = b.got[i]
          /\ relays'[b.on].output.digests # <<>> /\ Latest(relays'[b.on].output).gen = b.gen
      BY <1>1, <1>2, <1>3, <2>4, <2>6, <3>1 DEF RowStep
    <3> QED BY <2>4, <3>2 DEF Shell, Attached, Up, Digests, Latest
  <2>8. Handlers'
    BY <1>1, <1>3, <1>5, <2>5, HandlersStay DEF ShellInv, Handlers, Handler
  <2>9. \A o \in Operators : Page(o)'
    BY <1>1, <1>3, <2>5, PagesStay
  <2> QED BY <1>1, <1>3, <2>5, <2>7, <2>8, <2>9, RelaysLeft DEF ShellInv
<1> QED BY <1>4, <1>5 DEF send_shell_output, Running

-----------------------------------------------------------------------------
(* The sessions *)

\* At the start nothing is open, nothing is attached and nothing is shown.
LEMMA ShellInit == Init => ShellInv
<1> SUFFICES ASSUME Init PROVE ShellInv
  OBVIOUS
<1>1. /\ now = 0 /\ sessions = [s \in Sessions |-> Row] /\ relays = [s \in Sessions |-> NoRelay]
      /\ handlers = {} /\ agent = Idle(0) /\ panels = [o \in Operators |-> NoPanel]
  BY DEF Init
<1>2. Row \in ShellRow
  BY DEF Row, ShellRow
<1>3. sessions \in [Sessions -> ShellRow]
  BY <1>1, <1>2
<1>4. relays = [s \in Sessions |-> relays[s]] /\ \A s \in Sessions : Relay(s)
  BY <1>1 DEF Relay, Up, NoRelay
<1>5. <<>> \in Seq(InFrame) /\ <<>> \in Seq(OutFrame)
  OBVIOUS
<1>6. agent \in Agent /\ agent.on = None /\ agent.got = <<>> /\ agent.after = 0
  <2>1. PICK none \in Seq(InFrame), on \in Sessions \cup {None} : none = <<>> /\ on = None
    BY <1>5
  <2>2. PICK new : new = [on |-> on, gen |-> 0, fails |-> FALSE, base |-> 0, outputSeq |-> 0, after |-> 0,
                          got |-> none]
    OBVIOUS
  <2>3. new \in Agent
    BY <2>2 DEF Agent
  <2>4. agent = new
    BY <1>1, <2>1, <2>2 DEF Idle
  <2> QED BY <2>1, <2>2, <2>3, <2>4
<1>7. Shell
  BY <1>6 DEF Shell
<1>8. NoPanel \in Panel /\ NoPanel.on = None /\ NoPanel.said = <<>> /\ NoPanel.screen = <<>>
  BY DEF NoPanel, Panel
<1>9. panels \in [Operators -> Panel] /\ \A o \in Operators : panels[o] = NoPanel
  BY <1>1, <1>8
<1>10. \A o \in Operators : Page(o)
  BY <1>8, <1>9 DEF Page, Chained
<1>11. Handlers
  BY <1>1 DEF Handlers
<1> QED BY <1>1, <1>3, <1>4, <1>6, <1>7, <1>9, <1>10, <1>11 DEF ShellInv

\* Every step of the system, the conversations' included, keeps the shell invariant.
LEMMA ShellStep == ShellInv /\ [Next]_vars => ShellInv'
<1> SUFFICES ASSUME ShellInv, [Next]_vars PROVE ShellInv'
  OBVIOUS
<1>1. now \in Nat /\ now + 1 \in Nat
  BY DEF ShellInv
<1>2. CASE UNCHANGED vars
  BY <1>1, <1>2, QuietStep DEF vars, shellVars
<1>3. ASSUME NEW o \in Operators,
             \/ open_shell_session_load(o) \/ send_shell_input_load(o)
             \/ read_shell_output(o) \/ panel_reloads(o) \/ close_shell_session_load(o)
      PROVE  ShellInv'
  BY <1>3, OpenLoadStep, InputLoadStep, OutputReadStep, ReloadStep, CloseLoadStep
<1>4. ASSUME \/ _shell_session_sweep_once_load
             \/ attach_shell_session_load \/ shell_refused \/ pollShellInput
             \/ send_shell_output_load \/ complete_shell_session
             \/ agent_restarts \/ server_restarts
      PROVE  ShellInv'
  BY <1>4, SweepStep, AttachLoadStep, RefusedStep, PollStep, OutputLoadStep, CompleteStep,
     AgentRestartStep, ServerRestartStep
<1>5. ASSUME NEW h \in handlers, Commit(h) PROVE ShellInv'
  BY <1>5, OpenStep, InputStep, EndedStep, AttachStep, OutputStep DEF Commit
<1>6. CASE set_trust \/ (ChatNext /\ UNCHANGED shellVars)
  BY <1>1, <1>6, QuietStep DEF set_trust, shellVars
<1>7. CASE tick
  BY <1>1, <1>7, QuietStep DEF tick
<1> QED BY <1>2, <1>3, <1>4, <1>5, <1>6, <1>7 DEF Next

\* The relays, the rows, the handlers, the shell and the pages of shell_relay.py and
\* shell_sessions.py agree with the digests in every reachable state.
THEOREM ShellInvariance == Spec => []ShellInv
<1>1. Init => ShellInv
  BY ShellInit
<1>2. ShellInv /\ [Next]_vars => ShellInv'
  BY ShellStep
<1> QED BY <1>1, <1>2, PTL DEF Spec

\* Both streams of every session arrive in order, whatever is lost, retried, reloaded or restarted.
THEOREM BothStreamsInOrder == Spec => []StreamsInOrder
<1>1. ASSUME ShellInv PROVE StreamsInOrder
  <2>1. ASSUME NEW i \in DOMAIN agent.got
        PROVE  /\ agent.got[i].seq = i
               /\ \A o \in Operators :
                    panels[o].on = agent.on => \A j \in DOMAIN panels[o].said :
                      panels[o].said[j].seq = i => panels[o].said[j].text = agent.got[i].text
    <3>1. i \in 1..Len(agent.got) /\ agent.on # None
      BY <1>1, <2>1 DEF ShellInv, Agent, Shell
    <3>2. agent.got[i].seq = i
      BY <1>1, <3>1 DEF ShellInv, Shell
    <3>3. ASSUME NEW o \in Operators, panels[o].on = agent.on, NEW j \in DOMAIN panels[o].said,
                 panels[o].said[j].seq = i
          PROVE  panels[o].said[j].text = agent.got[i].text
      <4>1. j \in 1..Len(panels[o].said)
        BY <1>1, <3>3 DEF ShellInv, Panel
      <4>2. Agrees(panels[o].on, panels[o].said[j])
        BY <1>1, <3>1, <3>3, <4>1 DEF ShellInv, Page
      <4> QED BY <3>1, <3>3, <4>2 DEF Agrees
    <3> QED BY <3>2, <3>3
  <2>2. ASSUME NEW o \in Operators, NEW i \in DOMAIN panels[o].screen
        PROVE  LET f == panels[o].screen[i] IN
               /\ f.seq = panels[o].start + i
               /\ i > 1 => LET e == panels[o].screen[i - 1] IN
                    IF e.gen = f.gen THEN f.n = e.n + 1 ELSE e.gen < f.gen /\ f.n = 1
    <3>1. i \in 1..Len(panels[o].screen)
      BY <1>1, <2>2 DEF ShellInv, Panel
    <3>2. panels[o].screen[i].seq = panels[o].start + i
      BY <1>1, <3>1 DEF ShellInv, Page
    <3>3. i > 1 => Follows(panels[o].screen[i - 1], panels[o].screen[i])
      BY <1>1, <3>1 DEF ShellInv, Page, Chained
    <3> QED BY <3>2, <3>3 DEF Follows
  <2> QED BY <2>1, <2>2 DEF StreamsInOrder
<1> QED BY <1>1, ShellInvariance, PTL

-----------------------------------------------------------------------------
(* The conversations *)

Token == [kind : {"random", "launch"}, epoch : Nat]

Message == [sender : SupportParty, read : BOOLEAN]

Conversation ==
  [status : SupportConversationStatus, by : SupportParty \cup {None}, epoch : Nat, lapsed : BOOLEAN,
   token : Token \cup {None}, notice : BOOLEAN, messages : Seq(Message)]

\* Only an open conversation has a token, and a heartbeat holds an open one.
ChatInv ==
  /\ chats \in [Chats -> Conversation]
  /\ \A c \in Chats : chats[c].status # "open" => chats[c].token = None
  /\ issued \subseteq [chat : Chats, token : Token]
  /\ beat.chat # None =>
       /\ beat.chat \in Chats /\ chats[beat.chat].status = "open"
       /\ beat.row \in Conversation

\* The invariant after a step that writes one conversation.
LEMMA ChatWritten ==
  ASSUME ChatInv, NEW c \in Chats, NEW row \in Conversation, chats' = [chats EXCEPT ![c] = row],
         row.status # "open" => row.token = None,
         beat' = beat \/ beat' = NoBeat,
         beat'.chat = c => row.status = "open" \/ beat'.chat = None,
         issued' = issued \/ (issued' = issued \cup {[chat |-> c, token |-> row.token]} /\ row.token \in Token)
  PROVE  ChatInv'
<1>1. /\ chats' \in [Chats -> Conversation] /\ chats'[c] = row
      /\ \A d \in Chats : d # c => chats'[d] = chats[d]
  BY DEF ChatInv
<1>2. issued' \subseteq [chat : Chats, token : Token]
  BY DEF ChatInv
<1>3. beat'.chat # None =>
        /\ beat'.chat \in Chats /\ chats'[beat'.chat].status = "open" /\ beat'.row \in Conversation
  BY <1>1 DEF ChatInv, NoBeat
<1> QED BY <1>1, <1>2, <1>3 DEF ChatInv

\* A step that writes no conversation.
LEMMA ChatSame ==
  ASSUME ChatInv, chats' = chats, issued' = issued, beat' = beat
  PROVE  ChatInv'
BY DEF ChatInv

\* A conversation that was never opened, or is pruned, has no token.
LEMMA BlankChat == SupportConversation \in Conversation /\ SupportConversation.token = None
<1>1. PICK none \in Seq(Message), gone \in Token \cup {None}, by \in SupportParty \cup {None} :
        none = <<>> /\ gone = None /\ by = None
  <2>1. <<>> \in Seq(Message)
    OBVIOUS
  <2> QED BY <2>1
<1>2. PICK new : new = [status |-> "absent", by |-> by, epoch |-> 0, lapsed |-> FALSE,
                        token |-> gone, notice |-> FALSE, messages |-> none]
  OBVIOUS
<1>3. new \in Conversation
  BY <1>2 DEF Conversation, SupportConversationStatus
<1>4. SupportConversation = new
  BY <1>1, <1>2 DEF SupportConversation
<1> QED BY <1>1, <1>2, <1>3, <1>4

\* Rotating hands out a random token and keeps the status.
LEMMA Rotated ==
  ASSUME NEW row \in Conversation
  PROVE  /\ rotate(row) \in Conversation /\ rotate(row).status = row.status
         /\ rotate(row).token \in Token /\ rotate(row).epoch \in Nat
<1>1. PICK epoch \in Nat : epoch = row.epoch + 1
  BY DEF Conversation
<1>2. PICK token \in Token : token = [kind |-> "random", epoch |-> epoch]
  BY DEF Token
<1>3. PICK new \in Conversation : new = [row EXCEPT !.epoch = epoch, !.lapsed = FALSE, !.token = token]
  BY DEF Conversation
<1>4. new.status = row.status /\ new.token = token /\ new.epoch = epoch
  BY <1>3 DEF Conversation
<1>5. rotate(row) = new
  BY <1>1, <1>2, <1>3 DEF rotate, Conversation
<1> QED BY <1>4, <1>5

\* A launch address carries a derived token and keeps the status.
LEMMA Launched ==
  ASSUME NEW row \in Conversation
  PROVE  /\ technician_launch_url(row) \in Conversation
         /\ technician_launch_url(row).status = row.status
         /\ technician_launch_url(row).token \in Token /\ technician_launch_url(row).epoch \in Nat
<1>1. PICK epoch \in Nat : epoch = IF row.lapsed THEN row.epoch + 1 ELSE row.epoch
  BY DEF Conversation
<1>2. PICK token \in Token : token = [kind |-> "launch", epoch |-> epoch]
  BY DEF Token
<1>3. PICK new \in Conversation : new = [row EXCEPT !.epoch = epoch, !.lapsed = FALSE, !.token = token]
  BY DEF Conversation
<1>4. new.status = row.status /\ new.token = token /\ new.epoch = epoch
  BY <1>3 DEF Conversation
<1>5. technician_launch_url(row) = new
  BY <1>1, <1>2, <1>3 DEF technician_launch_url
<1> QED BY <1>4, <1>5

\* An open commits a new conversation, a new token for the open one, or nothing.
LEMMA ChatOpens ==
  ASSUME ChatInv, open_commit
  PROVE  ChatInv'
<1>1. PICK o \in opening, c \in Chats :
        open_conversation(o, c) \/ open_technician_conversation(o, c)
  BY DEF open_commit
<1>2. beat' = beat
  BY DEF open_commit
<1>3. PICK old \in Conversation : old = chats[c]
  BY DEF ChatInv
<1>4. CASE open_conversation(o, c)
  <2>1. PICK by \in SupportParty \cup {None} : by = IF o.chat = None THEN "end_user" ELSE old.by
    BY DEF Conversation, SupportParty
  <2>2. PICK mid \in Conversation : mid = [old EXCEPT !.status = "open", !.notice = FALSE, !.by = by]
    BY DEF Conversation, SupportConversationStatus
  <2>3. PICK row \in Conversation : row = rotate(mid) /\ row.status = "open" /\ row.token \in Token
    BY <2>2, Rotated DEF Conversation
  <2>4. mid = [chats[c] EXCEPT !.status = "open", !.notice = FALSE,
                               !.by = IF o.chat = None THEN "end_user" ELSE @]
    BY <1>3, <2>1, <2>2
  <2>5. chats' = [chats EXCEPT ![c] = row] /\ issued' = issued \cup {[chat |-> c, token |-> row.token]}
    BY <1>4, <2>3, <2>4 DEF open_conversation, Issue
  <2> QED BY <1>2, <2>3, <2>5, ChatWritten
<1>5. CASE open_technician_conversation(o, c)
  <2>1. CASE chats' = chats
    BY <1>2, <1>5, <2>1, ChatSame DEF open_technician_conversation
  <2>2. CASE chats' = [chats EXCEPT ![c] = technician_launch_url(
                         rotate([@ EXCEPT !.status = "open", !.by = "technician"]))]
    <3>1. PICK mid \in Conversation : mid = [old EXCEPT !.status = "open", !.by = "technician"]
      BY DEF Conversation, SupportConversationStatus, SupportParty
    <3>2. PICK second \in Conversation : second = rotate(mid) /\ second.status = "open"
      BY <3>1, Rotated DEF Conversation
    <3>3. PICK row \in Conversation : row = technician_launch_url(second) /\ row.status = "open"
      BY <3>2, Launched
    <3>4. chats' = [chats EXCEPT ![c] = row]
      BY <1>3, <2>2, <3>1, <3>2, <3>3 DEF ChatInv
    <3> QED BY <1>2, <1>5, <3>3, <3>4, ChatWritten DEF open_technician_conversation
  <2> QED BY <1>5, <2>1, <2>2 DEF open_technician_conversation
<1> QED BY <1>1, <1>4, <1>5

\* A conversation that a heartbeat renews has not been closed since it was read.
LEMMA ChatBeats ==
  ASSUME ChatInv, heartbeat_load \/ heartbeat_commit
  PROVE  ChatInv'
<1>1. CASE heartbeat_load
  <2>1. PICK c \in Chats : launches(c) /\ beat' = [chat |-> c, row |-> chats[c]]
    BY <1>1 DEF heartbeat_load
  <2>2. chats' = chats /\ issued' = issued
    BY <1>1 DEF heartbeat_load
  <2> QED BY <2>1, <2>2 DEF ChatInv, launches
<1>2. CASE heartbeat_commit
  <2>1. PICK c \in Chats : c = beat.chat /\ chats[c].status = "open" /\ beat.row \in Conversation
    BY <1>2 DEF ChatInv, heartbeat_commit
  <2>2. PICK sent \in Conversation : sent = technician_launch_url(beat.row)
    BY <2>1, Launched
  <2>6. sent.token \in Token /\ sent.epoch \in Nat
    BY <2>1, <2>2, Launched
  <2>3. PICK old \in Conversation : old = chats[c]
    BY DEF ChatInv
  <2>4. PICK row \in Conversation : row = [old EXCEPT !.token = sent.token, !.epoch = sent.epoch, !.lapsed = FALSE]
    BY <2>6 DEF Conversation
  <2>5. row.status = "open" /\ row.token = sent.token
    BY <2>1, <2>3, <2>4 DEF Conversation
  <2>7. chats' = [chats EXCEPT ![c] = row]
    BY <1>2, <2>1, <2>2, <2>3, <2>4 DEF heartbeat_commit, ChatInv
  <2>8. issued' = issued \cup {[chat |-> c, token |-> row.token]} /\ beat' = NoBeat
    BY <1>2, <2>1, <2>2, <2>5 DEF heartbeat_commit, Issue
  <2> QED BY <2>5, <2>6, <2>7, <2>8, ChatWritten
<1> QED BY <1>1, <1>2

\* Marking a transcript read leaves a transcript of messages.
LEMMA MessagesSeen ==
  ASSUME NEW told \in Seq(Message)
  PROVE  Seen(told) \in Seq(Message)
<1>1. PICK n \in Nat : n = Len(told) /\ DOMAIN told = 1..n
  OBVIOUS
<1>2. ASSUME NEW i \in 1..n
      PROVE  [sender |-> told[i].sender,
              read |-> told[i].read \/ told[i].sender = "end_user"] \in Message
  <2>1. PICK m \in Message : m = told[i]
    BY <1>1
  <2>2. PICK flag \in BOOLEAN : flag = (m.read \/ m.sender = "end_user")
    BY Zenon
  <2>3. [sender |-> m.sender, read |-> flag] \in Message
    BY DEF Message
  <2> QED BY <2>1, <2>2, <2>3, Zenon
<1>3. Seen(told) \in [1..n -> Message]
  BY <1>1, <1>2, Zenon DEF Seen
<1> QED BY <1>1, <1>3, SeqDef


\* What the user and the technicians do to an open conversation.
LEMMA ChatTalks ==
  ASSUME ChatInv, NEW c \in Chats,
         notice(c) \/ refresh(c) \/ send(c) \/ reply(c) \/ transcript(c) \/ lapses(c)
  PROVE  ChatInv'
<1>1. PICK old \in Conversation : old = chats[c]
  BY DEF ChatInv
<1>2. beat' = beat
  BY DEF notice, refresh, send, reply, transcript, lapses, authorized, _visible_conversation
<1>3. CASE notice(c)
  <2>1. PICK row \in Conversation : row = [old EXCEPT !.notice = TRUE]
    BY DEF Conversation
  <2>2. row.status = "open"
    BY <1>1, <1>3, <2>1 DEF Conversation, notice
  <2>3. chats' = [chats EXCEPT ![c] = row] /\ issued' = issued
    BY <1>1, <1>3, <2>1 DEF notice, ChatInv
  <2> QED BY <1>2, <2>2, <2>3, ChatWritten
<1>4. CASE refresh(c)
  <2>1. PICK row \in Conversation : row = rotate(old)
    BY Rotated
  <2>2. row.status = "open" /\ row.token \in Token
    BY <1>1, <1>4, <2>1, Rotated DEF refresh
  <2>3. chats' = [chats EXCEPT ![c] = row]
    BY <1>1, <1>4, <2>1 DEF refresh, ChatInv
  <2>4. chats'[c] = row
    BY <2>3 DEF ChatInv
  <2>5. issued' = issued \cup {[chat |-> c, token |-> row.token]}
    BY <1>4, <2>4 DEF refresh, Issue
  <2> QED BY <1>2, <2>2, <2>3, <2>5, ChatWritten
<1>5. ASSUME NEW sender \in SupportParty, append_message(c, sender) PROVE ChatInv'
  <2>1. PICK message \in Message : message = [sender |-> sender, read |-> FALSE]
    BY DEF Message
  <2>2. PICK messages \in Seq(Message) : messages = Append(old.messages, message)
    BY AppendProperties DEF Conversation
  <2>3. PICK row \in Conversation : row = [old EXCEPT !.messages = messages]
    BY DEF Conversation
  <2>4. row.status = "open"
    BY <1>1, <1>5, <2>3 DEF Conversation, append_message
  <2>5. chats' = [chats EXCEPT ![c] = row] /\ issued' = issued
    BY <1>1, <1>5, <2>1, <2>2, <2>3 DEF append_message, ChatInv
  <2> QED BY <1>2, <2>4, <2>5, ChatWritten
<1>6. CASE send(c) \/ reply(c)
  BY <1>5, <1>6 DEF send, reply, SupportParty
<1>7. CASE transcript(c)
  <2>1. PICK told \in Seq(Message) : told = chats[c].messages
    BY <1>1 DEF Conversation
  <2>2. PICK messages \in Seq(Message) : messages = Seen(told)
    BY MessagesSeen
  <2>7. chats' = [chats EXCEPT ![c].messages = messages]
    BY <1>7, <2>1, <2>2 DEF transcript
  <2>3. PICK row \in Conversation : row = [old EXCEPT !.messages = messages]
    BY DEF Conversation
  <2>4. row.status = old.status /\ row.token = old.token
    BY <2>3 DEF Conversation
  <2>5. chats' = [chats EXCEPT ![c] = row] /\ issued' = issued
    <3>1. issued' = issued
      BY <1>7 DEF transcript
    <3> QED BY <1>1, <2>2, <2>3, <2>7, <3>1 DEF ChatInv
  <2> QED BY <1>1, <1>2, <2>4, <2>5, ChatWritten DEF ChatInv
<1>8. CASE lapses(c)
  <2>1. PICK row \in Conversation : row = [old EXCEPT !.lapsed = TRUE]
    BY DEF Conversation
  <2>2. row.status = "open"
    BY <1>1, <1>8, <2>1 DEF Conversation, lapses
  <2>3. chats' = [chats EXCEPT ![c] = row] /\ issued' = issued
    BY <1>1, <1>8, <2>1 DEF lapses, ChatInv
  <2> QED BY <1>2, <2>2, <2>3, ChatWritten
<1> QED BY <1>3, <1>4, <1>6, <1>7, <1>8

\* Closing and pruning wait for a heartbeat that holds the conversation.
LEMMA ChatEnds ==
  ASSUME ChatInv, NEW c \in Chats, close_conversation(c) \/ _prune_support_chat(c)
  PROVE  ChatInv'
<1>1. PICK old \in Conversation : old = chats[c]
  BY DEF ChatInv
<1>2. beat' = beat /\ issued' = issued /\ beat.chat # c
  BY DEF close_conversation, _prune_support_chat, _visible_conversation, Locked
<1>3. CASE close_conversation(c)
  <2>1. PICK row \in Conversation : row = [old EXCEPT !.status = "closed", !.token = None]
    BY DEF Conversation, SupportConversationStatus
  <2>2. row.token = None
    BY <2>1 DEF Conversation
  <2>3. chats' = [chats EXCEPT ![c] = row]
    BY <1>1, <1>3, <2>1 DEF close_conversation, ChatInv
  <2> QED BY <1>2, <2>2, <2>3, ChatWritten
<1>4. CASE _prune_support_chat(c)
  <2>1. PICK blank \in Conversation : blank = SupportConversation /\ blank.token = None
    BY BlankChat
  <2>2. PICK row \in Conversation : row = [blank EXCEPT !.status = "pruned"]
    BY DEF Conversation, SupportConversationStatus
  <2>3. row.token = None
    BY <2>1, <2>2 DEF Conversation
  <2>4. chats' = [chats EXCEPT ![c] = row]
    BY <1>4, <2>1, <2>2 DEF _prune_support_chat
  <2> QED BY <1>2, <2>3, <2>4, ChatWritten
<1> QED BY <1>3, <1>4

\* Every step of the system, the shell's included, keeps the invariant of the conversations.
LEMMA ChatStep == ChatInv /\ [Next]_vars => ChatInv'
<1> SUFFICES ASSUME ChatInv, [Next]_vars PROVE ChatInv'
  OBVIOUS
<1>1. CASE UNCHANGED chatVars
  BY <1>1, ChatSame DEF chatVars
<1>2. CASE ChatNext
  <2>1. ASSUME NEW by \in SupportParty, open_load(by) PROVE ChatInv'
    BY <2>1, ChatSame DEF open_load
  <2> QED BY <1>2, <2>1, ChatOpens, ChatBeats, ChatTalks, ChatEnds DEF ChatNext
<1>3. ASSUME NEW o \in Operators,
             \/ open_shell_session_load(o) \/ send_shell_input_load(o)
             \/ read_shell_output(o) \/ panel_reloads(o) \/ close_shell_session_load(o)
      PROVE  UNCHANGED chatVars
  BY <1>3 DEF open_shell_session_load, send_shell_input_load, read_shell_output, panel_reloads,
              close_shell_session_load
<1>4. ASSUME \/ _shell_session_sweep_once_load
             \/ attach_shell_session_load \/ shell_refused \/ pollShellInput
             \/ send_shell_output_load \/ complete_shell_session
             \/ agent_restarts \/ server_restarts \/ set_trust \/ tick
      PROVE  UNCHANGED chatVars
  BY <1>4 DEF _shell_session_sweep_once_load, attach_shell_session_load, shell_refused, pollShellInput,
              send_shell_output_load, complete_shell_session, agent_restarts, server_restarts, set_trust, tick
<1>5. ASSUME NEW h \in handlers, Commit(h) PROVE UNCHANGED chatVars
  BY <1>5 DEF Commit, open_shell_session, send_shell_input, ended, attach_shell_session, send_shell_output
<1>6. CASE UNCHANGED vars
  BY <1>1, <1>6 DEF vars
<1> QED BY <1>1, <1>2, <1>3, <1>4, <1>5, <1>6 DEF Next

\* A conversation that is closed stays closed to every token that was ever handed out.
THEOREM ClosedChatsStayShut == Spec => []ClosedChatShut
<1>1. Init => ChatInv
  <2> SUFFICES ASSUME Init PROVE ChatInv
    OBVIOUS
  <2>1. PICK blank \in Conversation : blank = SupportConversation /\ blank.token = None
    BY BlankChat
  <2>2. chats = [c \in Chats |-> blank] /\ issued = {} /\ beat = NoBeat
    BY <2>1 DEF Init, ChatInit
  <2>3. beat.chat = None
    BY <2>2 DEF NoBeat
  <2> QED BY <2>1, <2>2, <2>3 DEF ChatInv
<1>2. ChatInv /\ [Next]_vars => ChatInv'
  BY ChatStep
<1>3. ASSUME ChatInv PROVE ClosedChatShut
  <2> SUFFICES ASSUME NEW i \in issued, chats[i.chat].status # "open" PROVE ~verify(i.chat, i.token)
    BY DEF ClosedChatShut
  <2>1. i.chat \in Chats /\ i.token \in Token
    BY <1>3 DEF ChatInv
  <2>2. chats[i.chat].token = None /\ i.token # None
    BY <1>3, <2>1, ChatAssumption DEF ChatInv, Token
  <2> QED BY <2>2 DEF verify
<1> QED BY <1>1, <1>2, <1>3, PTL DEF Spec
=============================================================================
