--------------------------- MODULE EvidenceProofs ---------------------------
(***************************************************************************)
(* Proofs about the audit chain, its anchors and the evidence vault.       *)
(***************************************************************************)
EXTENDS EvidenceVault, FiniteSetTheorems, SequenceTheorems, WellFoundedInduction, TLAPS

(***************************************************************************)
(* The chain as a set of rows.                                             *)
(***************************************************************************)
Listing(s) == s \in Seq(ToSet(s))

Numbered(log, n) ==
  /\ n \in Nat
  /\ \A e \in log : e.seq \in 1..n
  /\ \A i \in 1..n : \E e \in log : e.seq = i
  /\ \A d, e \in log : d.seq = e.seq => d = e

Linked(log) ==
  /\ \A e \in log :
       /\ Listing(e.prev_hash) /\ Listing(e.event_hash)
       /\ e.event_hash = _hash_event(e.prev_hash, e.seq, e.what)
       /\ e.seq = 1 => e.prev_hash = _GENESIS
  /\ \A d, e \in log : e.seq = d.seq + 1 => e.prev_hash = d.event_hash

Chain(log, n) == Numbered(log, n) /\ Linked(log)

\* A nonempty set of numbers has a least one.
LEMMA LeastNumber ==
  ASSUME NEW S \in SUBSET Nat, S # {} PROVE \E x \in S : \A y \in S : x <= y
<1>1. PICK R : R = OpToRel(<, Nat) /\ IsWellFoundedOn(R, Nat)
  BY NatLessThanWellFounded
<1>2. \A x, y \in Nat : x < y => <<x, y>> \in R
  BY <1>1 DEF OpToRel
<1>3. PICK x \in S : \A y \in S : ~ (<<y, x>> \in R)
  BY <1>1, WFMin
<1>4. \A y \in S : ~(y < x)
  BY <1>2, <1>3
<1> QED BY <1>4

\* A bounded set of numbers has a greatest one, which Max is.
LEMMA GreatestNumber ==
  ASSUME NEW S \in SUBSET Nat, S # {}, NEW b \in Nat, \A x \in S : x <= b
  PROVE  Max(S) \in S /\ \A x \in S : x <= Max(S)
<1> DEFINE Above == {m \in Nat : \A x \in S : x <= m}
<1>1. PICK m \in Above : \A k \in Above : m <= k
  BY LeastNumber
<1>2. m \in S
  <2>1. SUFFICES ASSUME m \notin S PROVE FALSE
    OBVIOUS
  <2>2. \A x \in S : x \in Nat /\ x < m
    BY <2>1, <1>1
  <2>3. PICK x \in S : TRUE
    OBVIOUS
  <2>4. m - 1 \in Nat /\ \A y \in S : y <= m - 1
    BY <2>2, <2>3, <1>1
  <2>5. m - 1 \in Above
    BY <2>4
  <2> QED BY <2>5, <1>1
<1>3. \E x \in S : \A y \in S : x >= y
  BY <1>1, <1>2
<1>4. Max(S) \in S /\ \A y \in S : Max(S) >= y
  BY <1>3 DEF Max
<1> QED BY <1>4

\* As many rows as positions.
LEMMA Counted ==
  ASSUME NEW log, NEW n, Numbered(log, n) PROVE IsFiniteSet(log) /\ Cardinality(log) = n
<1> DEFINE at == [i \in 1..n |-> CHOOSE e \in log : e.seq = i]
<1>1. n \in Nat
  BY DEF Numbered
<1>2. \A i \in 1..n : at[i] \in log /\ at[i].seq = i
  BY DEF Numbered
<1>3. \A e \in log : e.seq \in 1..n /\ at[e.seq] = e
  BY <1>2 DEF Numbered
<1> HIDE DEF at
<1>4. at \in [1..n -> log]
  BY <1>2 DEF at
<1>5. at \in Bijection(1..n, log)
  BY <1>2, <1>3, <1>4 DEF Bijection, Injection, Surjection, IsInjective
<1>6. IsFiniteSet(1..n) /\ Cardinality(1..n) = n
  BY <1>1, FS_Interval
<1> QED BY <1>5, <1>6, FS_Bijection DEF ExistsBijection

\* A prefix of a chain is a chain.
LEMMA PrefixChain ==
  ASSUME NEW log, NEW n, Chain(log, n), NEW k \in 0..n
  PROVE  Chain(Upto(log, k), k)
<1>1. Numbered(Upto(log, k), k)
  BY DEF Chain, Numbered, Upto
<1>2. Linked(Upto(log, k))
  BY DEF Chain, Linked, Upto
<1> QED BY <1>1, <1>2 DEF Chain

\* The row at a position.
LEMMA RowAt ==
  ASSUME NEW log, NEW n, Numbered(log, n), NEW i \in 1..n
  PROVE  /\ At(log, i) \in log /\ At(log, i).seq = i
         /\ \A e \in log : e.seq = i => e = At(log, i)
BY DEF Numbered, At

\* The tail of a chain.
LEMMA TailOf ==
  ASSUME NEW log, NEW n, Numbered(log, n)
  PROVE  /\ Tail_seq(log) = n
         /\ _chain_tail(log) = [seq |-> n, hash |-> IF n = 0 THEN _GENESIS ELSE At(log, n).event_hash]
<1> DEFINE S == {e.seq : e \in log} \cup {0}
<1>1. S \in SUBSET Nat /\ n \in Nat
  BY DEF Numbered
<1>2. n \in S /\ \A x \in S : x <= n
  BY DEF Numbered
<1> HIDE DEF S
<1>3. Max(S) \in S /\ \A x \in S : x <= Max(S)
  BY <1>1, <1>2, GreatestNumber, Zenon
<1>4. Max(S) = n
  <2>1. Max(S) \in Nat /\ n \in Nat /\ Max(S) <= n /\ n <= Max(S)
    BY <1>1, <1>2, <1>3, Zenon
  <2> QED BY <2>1
<1> QED BY <1>4 DEF Tail_seq, _chain_tail, S

\* In the order of their positions the rows are where their positions say.
LEMMA Ordered ==
  ASSUME NEW log, NEW n, Numbered(log, n)
  PROVE  InSeqOrder(log) = [i \in 1..n |-> At(log, i)]
<1>1. n \in Nat /\ Cardinality(log) = n
  BY Counted DEF Numbered
<1>2. \A e \in log : Cardinality({d \in log : d.seq <= e.seq}) = e.seq
  <2> TAKE e \in log
  <2>1. e.seq \in 0..n
    BY DEF Numbered
  <2>2. Numbered(Upto(log, e.seq), e.seq)
    BY <2>1 DEF Numbered, Upto
  <2> QED BY <2>2, Counted DEF Upto
<1>3. \A i \in 1..n : (CHOOSE e \in log : Cardinality({d \in log : d.seq <= e.seq}) = i) = At(log, i)
  <2> TAKE i \in 1..n
  <2>1. \A e \in log : Cardinality({d \in log : d.seq <= e.seq}) = i <=> e.seq = i
    BY <1>2
  <2> QED BY <2>1, RowAt
<1> QED BY <1>1, <1>3 DEF InSeqOrder, InOrder

\* A chain verifies (verify_chain).
LEMMA ChainVerifies ==
  ASSUME NEW log, NEW n, Chain(log, n) PROVE verify_chain(log)
<1>1. Numbered(log, n) /\ n \in Nat
  BY DEF Chain, Numbered
<1> DEFINE chain == InSeqOrder(log)
<1>2. chain = [i \in 1..n |-> At(log, i)]
  BY <1>1, Ordered
<1>3. \A i \in 1..n : chain[i] \in log /\ chain[i].seq = i
  BY <1>1, <1>2, RowAt
<1>4. DOMAIN chain = 1..n
  BY <1>2
<1> HIDE DEF chain
<1>5. ASSUME NEW i \in 1..n
      PROVE  /\ chain[i].prev_hash = IF i = 1 THEN _GENESIS ELSE chain[i - 1].event_hash
             /\ chain[i].event_hash = _hash_event(chain[i].prev_hash, i, chain[i].what)
  <2>1. i # 1 => i - 1 \in 1..n
    BY <1>1
  <2>2. i # 1 => chain[i].seq = chain[i - 1].seq + 1
    BY <1>3, <2>1
  <2> QED BY <1>3, <2>1, <2>2 DEF Chain, Linked
<1>6. \A i \in DOMAIN chain :
    /\ chain[i].seq = i
    /\ chain[i].prev_hash = IF i = 1 THEN _GENESIS ELSE chain[i - 1].event_hash
    /\ chain[i].event_hash = _hash_event(chain[i].prev_hash, i, chain[i].what)
  BY <1>3, <1>4, <1>5
<1> QED BY <1>6, Zenon DEF verify_chain, chain

-----------------------------------------------------------------------------
(* Recording (core/audit.py). *)

LEMMA ListingOf ==
  ASSUME NEW S, NEW s \in Seq(S)
  PROVE  Listing(s) /\ ToSet(s) = {s[i] : i \in 1..Len(s)} /\ DOMAIN s = 1..Len(s) /\ Len(s) \in Nat
BY DEF Listing, ToSet

LEMMA AppendListing ==
  ASSUME NEW s, Listing(s), NEW x
  PROVE  /\ Listing(Append(s, x)) /\ ToSet(Append(s, x)) = ToSet(s) \cup {x}
         /\ Len(s) \in Nat /\ Len(Append(s, x)) = Len(s) + 1
         /\ DOMAIN s = 1..Len(s) /\ DOMAIN Append(s, x) = 1..Len(s) + 1
         /\ Append(s, x)[Len(s) + 1] = x /\ \A i \in 1..Len(s) : Append(s, x)[i] = s[i]
<1> DEFINE U == ToSet(s) \cup {x}  t == Append(s, x)
<1>1. s \in Seq(U) /\ t \in Seq(U) /\ Len(s) \in Nat /\ Len(t) = Len(s) + 1
  BY DEF Listing
<1>2. DOMAIN s = 1..Len(s) /\ DOMAIN t = 1..Len(s) + 1
  BY <1>1
<1>3. t[Len(s) + 1] = x /\ \A i \in 1..Len(s) : t[i] = s[i]
  BY <1>1
<1> HIDE DEF t
<1>4. ToSet(t) = U
  <2>1. ASSUME NEW i \in 1..Len(s) + 1 PROVE t[i] \in U
    BY <1>1, <1>2
  <2>2. ASSUME NEW y \in ToSet(s) PROVE \E i \in 1..Len(s) + 1 : t[i] = y
    BY <1>1, <1>2, <1>3 DEF ToSet
  <2>3. \E i \in 1..Len(s) + 1 : t[i] = x
    BY <1>1, <1>3
  <2> QED BY <1>2, <2>1, <2>2, <2>3 DEF ToSet
<1>5. Listing(t)
  BY <1>1, <1>4 DEF Listing
<1> QED BY <1>1, <1>2, <1>3, <1>4, <1>5 DEF t

\* The hash at the end of a chain.
LEMMA TailHash ==
  ASSUME NEW log, NEW n, Chain(log, n)
  PROVE  /\ n \in Nat /\ _chain_tail(log).seq = n /\ Listing(_chain_tail(log).hash)
         /\ n = 0 => _chain_tail(log).hash = _GENESIS
         /\ \A e \in log : e.seq = n => _chain_tail(log).hash = e.event_hash
<1>1. Numbered(log, n) /\ n \in Nat
  BY DEF Chain, Numbered
<1>2. _chain_tail(log) = [seq |-> n, hash |-> IF n = 0 THEN _GENESIS ELSE At(log, n).event_hash]
  BY <1>1, TailOf
<1>3. Listing(_GENESIS)
  BY DEF Listing, _GENESIS, ToSet
<1>4. n # 0 => At(log, n) \in log /\ \A e \in log : e.seq = n => e = At(log, n)
  BY <1>1, RowAt
<1>5. \A e \in log : e.seq = n => n # 0
  BY <1>1 DEF Numbered
<1> QED BY <1>1, <1>2, <1>3, <1>4, <1>5 DEF Chain, Linked

\* What an event is made of (record).
LEMMA NewEvent ==
  ASSUME NEW log, NEW n, Chain(log, n), NEW what
  PROVE  LET e == AuditEvent(log, what) IN
         /\ e.seq = n + 1 /\ e.what = what /\ e.prev_hash = _chain_tail(log).hash
         /\ e.event_hash = _hash_event(e.prev_hash, e.seq, e.what)
         /\ Listing(e.prev_hash) /\ Listing(e.event_hash)
<1>1. _chain_tail(log).seq = n /\ Listing(_chain_tail(log).hash)
  BY TailHash
<1>2. Listing(_hash_event(_chain_tail(log).hash, n + 1, what))
  BY <1>1, AppendListing DEF _hash_event
<1> QED BY <1>1, <1>2 DEF AuditEvent

\* An event that is recorded makes the chain longer by one.
LEMMA Extended ==
  ASSUME NEW log, NEW n, Chain(log, n), NEW what
  PROVE  Chain(log \cup {AuditEvent(log, what)}, n + 1)
<1> DEFINE e == AuditEvent(log, what)
<1>1. /\ e.seq = n + 1 /\ e.prev_hash = _chain_tail(log).hash
      /\ e.event_hash = _hash_event(e.prev_hash, e.seq, e.what)
      /\ Listing(e.prev_hash) /\ Listing(e.event_hash)
  BY NewEvent
<1>2. /\ n \in Nat
      /\ n = 0 => _chain_tail(log).hash = _GENESIS
      /\ \A d \in log : d.seq = n => _chain_tail(log).hash = d.event_hash
  BY TailHash
<1>3. Numbered(log, n) /\ Linked(log)
  BY DEF Chain
<1> HIDE DEF e
<1>4. Numbered(log \cup {e}, n + 1)
  <2>1. \A d \in log \cup {e} : d.seq \in 1..n + 1
    BY <1>1, <1>2, <1>3 DEF Numbered
  <2>2. ASSUME NEW i \in 1..n + 1 PROVE \E d \in log \cup {e} : d.seq = i
    <3>1. CASE i = n + 1
      BY <1>1, <3>1
    <3>2. CASE i \in 1..n
      BY <3>2, <1>3 DEF Numbered
    <3> QED BY <1>2, <3>1, <3>2
  <2>3. \A c, d \in log \cup {e} : c.seq = d.seq => c = d
    BY <1>1, <1>2, <1>3 DEF Numbered
  <2> QED BY <1>2, <2>1, <2>2, <2>3 DEF Numbered
<1>5. Linked(log \cup {e})
  <2>1. \A d \in log : d.seq \in 1..n
    BY <1>3 DEF Numbered
  <2>2. ASSUME NEW c \in log \cup {e}
        PROVE  /\ Listing(c.prev_hash) /\ Listing(c.event_hash)
               /\ c.event_hash = _hash_event(c.prev_hash, c.seq, c.what)
               /\ c.seq = 1 => c.prev_hash = _GENESIS
    BY <1>1, <1>2, <1>3 DEF Linked
  <2>3. ASSUME NEW c \in log \cup {e}, NEW d \in log \cup {e}, d.seq = c.seq + 1
        PROVE  d.prev_hash = c.event_hash
    BY <1>1, <1>2, <1>3, <2>1, <2>3 DEF Linked
  <2> QED BY <2>2, <2>3 DEF Linked
<1> QED BY <1>4, <1>5 DEF Chain, e

Grown(h, f, k) == h \o [j \in 1..k |-> f[j]]

\* The history after i more events, which is what a digest stands for.
LEMMA LongerHash ==
  ASSUME NEW h, Listing(h), NEW f, NEW i \in Nat \ {0}
  PROVE  /\ Grown(h, f, i) = Append(Grown(h, f, i - 1), f[i])
         /\ Grown(h, f, 0) = h
         /\ Listing(Grown(h, f, i)) /\ Listing(Grown(h, f, i - 1))
<1> DEFINE S == ToSet(h) \cup {f[j] : j \in 1..i}
           g == [j \in 1..i |-> f[j]]
           u == [j \in 1..i - 1 |-> f[j]]
           z == [j \in 1..0 |-> f[j]]
<1>1. h \in Seq(S) /\ Len(h) \in Nat
  BY DEF Listing
<1>2. g \in Seq(S) /\ Len(g) = i /\ \A j \in 1..i : g[j] = f[j]
  <2>1. g \in [1..i -> S]
    OBVIOUS
  <2> QED BY <2>1
<1>3. u \in Seq(S) /\ Len(u) = i - 1 /\ \A j \in 1..i - 1 : u[j] = f[j]
  <2>1. u \in [1..i - 1 -> S] /\ i - 1 \in Nat
    OBVIOUS
  <2> QED BY <2>1
<1>4. z \in Seq(S) /\ Len(z) = 0
  <2>1. z \in [1..0 -> S]
    OBVIOUS
  <2> QED BY <2>1
<1>5. f[i] \in S
  <2>1. i \in 1..i
    OBVIOUS
  <2> QED BY <2>1
<1>n. i \in Nat /\ i - 1 \in Nat
  OBVIOUS
<1> HIDE DEF g, u, z, S
<1>6. /\ h \o g \in Seq(S) /\ Len(h \o g) = Len(h) + i
      /\ \A k \in 1..Len(h) + i : (h \o g)[k] = IF k <= Len(h) THEN h[k] ELSE g[k - Len(h)]
  BY <1>1, <1>2, ConcatProperties
<1>7. /\ h \o u \in Seq(S) /\ Len(h \o u) = Len(h) + (i - 1)
      /\ \A k \in 1..Len(h) + (i - 1) : (h \o u)[k] = IF k <= Len(h) THEN h[k] ELSE u[k - Len(h)]
  <2>1. /\ h \o u \in Seq(S) /\ Len(h \o u) = Len(h) + Len(u)
        /\ \A k \in 1..Len(h) + Len(u) : (h \o u)[k] = IF k <= Len(h) THEN h[k] ELSE u[k - Len(h)]
    BY <1>1, <1>3, ConcatProperties
  <2> QED BY <1>3, <2>1, Zenon
<1>8. h \o z = h
  <2>1. /\ h \o z \in Seq(S) /\ Len(h \o z) = Len(h)
        /\ \A k \in 1..Len(h) : (h \o z)[k] = h[k]
    BY <1>1, <1>4, ConcatProperties
  <2> QED BY <1>1, <2>1, SeqEqual
<1>9. h \o g = Append(h \o u, f[i])
  <2> DEFINE a == Append(h \o u, f[i])
  <2>1. /\ a \in Seq(S) /\ Len(a) = Len(h) + i
        /\ \A k \in 1..Len(h) + (i - 1) : a[k] = (h \o u)[k]
        /\ a[Len(h) + i] = f[i]
    <3>1. Len(h \o u) + 1 = Len(h) + i
      BY <1>1, <1>7, <1>n
    <3> HIDE DEF a
    <3>2. /\ a \in Seq(S) /\ Len(a) = Len(h \o u) + 1 /\ a[Len(h \o u) + 1] = f[i]
          /\ \A k \in 1..Len(h \o u) : a[k] = (h \o u)[k]
      <4>1. h \o u \in Seq(S) /\ f[i] \in S
        BY <1>5, <1>7
      <4> QED BY <4>1, AppendProperties DEF a
    <3> QED BY <1>7, <3>1, <3>2
  <2> HIDE DEF a
  <2>2. ASSUME NEW k \in 1..Len(h) + i PROVE (h \o g)[k] = a[k]
    <3>1. CASE k <= Len(h)
      <4>1. k \in 1..Len(h) + (i - 1) /\ k \in 1..Len(h) + i
        BY <1>1, <1>n, <3>1
      <4> QED BY <1>6, <1>7, <2>1, <3>1, <4>1
    <3>2. CASE k > Len(h) /\ k < Len(h) + i
      <4>1. k - Len(h) \in 1..i - 1 /\ k \in 1..Len(h) + (i - 1)
        BY <1>1, <3>2
      <4>2. (h \o g)[k] = f[k - Len(h)]
        BY <1>1, <1>2, <1>6, <3>2, <4>1
      <4>3. a[k] = f[k - Len(h)]
        BY <1>1, <1>3, <1>7, <2>1, <3>2, <4>1
      <4> QED BY <4>2, <4>3
    <3>3. CASE k = Len(h) + i
      BY <1>1, <1>2, <1>6, <2>1, <3>3
    <3>4. k <= Len(h) \/ (k > Len(h) /\ k < Len(h) + i) \/ k = Len(h) + i
      BY <1>1, <1>n
    <3> QED BY <3>1, <3>2, <3>3, <3>4, Zenon
  <2>3. h \o g = a
    BY <1>6, <2>1, <2>2, SeqEqual
  <2> QED BY <2>3 DEF a
<1>10. Listing(h \o g) /\ Listing(h \o u)
  BY <1>6, <1>7, ListingOf
<1> QED BY <1>8, <1>9, <1>10 DEF g, u, z, Grown

\* Recording one event after another makes the chain longer by as many.
LEMMA ExtendedBy ==
  ASSUME NEW log, NEW n, Chain(log, n), NEW whats, NEW m \in Nat, DOMAIN whats = 1..m
  PROVE  /\ Chain(log \cup AuditEvents(log, whats), n + m)
         /\ \A e \in AuditEvents(log, whats) : e.seq > n /\ \E i \in 1..m : e.what = whats[i]
<1> DEFINE h == _chain_tail(log).hash
           f == [j \in 1..m |-> <<n + j, whats[j]>>]
           F(k) == Grown(h, f, k)
           made(i) == [seq |-> n + i, prev_hash |-> F(i - 1), what |-> whats[i], event_hash |-> F(i)]
           new == {made(i) : i \in 1..m}
<1>1. /\ n \in Nat /\ _chain_tail(log).seq = n /\ Listing(h)
      /\ n = 0 => h = _GENESIS
      /\ \A e \in log : e.seq = n => h = e.event_hash
  BY TailHash
<1>2. AuditEvents(log, whats) = new
  <2>1. ASSUME NEW k \in 0..m
        PROVE  [j \in 1..k |-> <<n + j, whats[j]>>] = [j \in 1..k |-> f[j]]
    OBVIOUS
  <2>2. ASSUME NEW i \in 1..m
        PROVE  [seq |-> n + i, prev_hash |-> h \o [j \in 1..i - 1 |-> <<n + j, whats[j]>>],
                what |-> whats[i], event_hash |-> h \o [j \in 1..i |-> <<n + j, whats[j]>>]] = made(i)
    <3>1. i - 1 \in 0..m /\ i \in 0..m
      OBVIOUS
    <3> HIDE DEF f
    <3> QED BY <2>1, <3>1 DEF Grown
  <2> HIDE DEF f, h
  <2> QED BY <1>1, <2>2 DEF AuditEvents, h
<1>3. ASSUME NEW i \in 1..m
      PROVE  F(i) = Append(F(i - 1), f[i]) /\ Listing(F(i)) /\ Listing(F(i - 1))
  <2>1. i \in Nat \ {0} /\ Listing(h)
    BY <1>1
  <2> HIDE DEF f, h
  <2> QED BY <2>1, LongerHash, Zenon
<1>4. F(0) = h
  <2>1. 1 \in Nat \ {0}
    OBVIOUS
  <2> HIDE DEF f, h
  <2> QED BY <1>1, <2>1, LongerHash
<1>5. \A i \in 1..m : f[i] = <<n + i, whats[i]>>
  OBVIOUS
<1> HIDE DEF f, h, F
<1>6. ASSUME NEW i \in 1..m
      PROVE  /\ made(i).seq = n + i /\ made(i).what = whats[i]
             /\ made(i).prev_hash = F(i - 1) /\ made(i).event_hash = F(i)
             /\ Listing(made(i).prev_hash) /\ Listing(made(i).event_hash)
             /\ made(i).event_hash = _hash_event(made(i).prev_hash, made(i).seq, made(i).what)
  BY <1>3, <1>5 DEF _hash_event
<1> HIDE DEF made
<1>7. Numbered(log, n) /\ Linked(log)
  BY DEF Chain
<1>8. \A d \in log : d.seq \in 1..n
  BY <1>7 DEF Numbered
<1>9. Numbered(log \cup new, n + m)
  <2>1. \A d \in log \cup new : d.seq \in 1..n + m
    BY <1>1, <1>6, <1>8
  <2>2. ASSUME NEW i \in 1..n + m PROVE \E d \in log \cup new : d.seq = i
    <3>1. CASE i > n
      <4>1. i - n \in 1..m /\ n + (i - n) = i
        BY <1>1, <3>1
      <4>2. made(i - n) \in new /\ made(i - n).seq = n + (i - n)
        BY <4>1, <1>6
      <4> QED BY <4>1, <4>2
    <3>2. CASE i \in 1..n
      BY <3>2, <1>7 DEF Numbered
    <3> QED BY <1>1, <3>1, <3>2
  <2>3. ASSUME NEW c \in log \cup new, NEW d \in log \cup new, c.seq = d.seq PROVE c = d
    <3>1. CASE c \in log /\ d \in log
      BY <2>3, <3>1, <1>7 DEF Numbered
    <3>2. CASE c \in new /\ d \in new
      <4>1. PICK i \in 1..m, j \in 1..m : c = made(i) /\ d = made(j)
        BY <3>2
      <4>2. i = j
        BY <1>1, <2>3, <4>1, <1>6
      <4> QED BY <4>1, <4>2
    <3>3. ASSUME NEW e \in log, NEW i \in 1..m PROVE e.seq # made(i).seq
      BY <1>1, <1>6, <1>8
    <3> QED BY <2>3, <3>1, <3>2, <3>3
  <2> QED BY <1>1, <2>1, <2>2, <2>3 DEF Numbered
<1>10. Linked(log \cup new)
  <2>1. ASSUME NEW c \in log \cup new
        PROVE  /\ Listing(c.prev_hash) /\ Listing(c.event_hash)
               /\ c.event_hash = _hash_event(c.prev_hash, c.seq, c.what)
               /\ c.seq = 1 => c.prev_hash = _GENESIS
    <3>1. CASE c \in log
      BY <3>1, <1>7 DEF Linked
    <3>2. ASSUME NEW i \in 1..m, c = made(i) PROVE c.seq = 1 => c.prev_hash = _GENESIS
      <4>1. n + i = 1 => n = 0 /\ i - 1 = 0
        BY <1>1
      <4> QED BY <1>1, <1>4, <1>6, <3>2, <4>1
    <3> QED BY <3>1, <3>2, <1>6
  <2>2. ASSUME NEW c \in log \cup new, NEW d \in log \cup new, d.seq = c.seq + 1
        PROVE  d.prev_hash = c.event_hash
    <3>1. CASE c \in log /\ d \in log
      BY <2>2, <3>1, <1>7 DEF Linked
    <3>2. ASSUME NEW i \in 1..m, NEW j \in 1..m, c = made(i), d = made(j)
          PROVE  d.prev_hash = c.event_hash
      <4>1. j - 1 = i
        BY <1>1, <1>6, <2>2, <3>2
      <4> QED BY <1>6, <3>2, <4>1
    <3>3. ASSUME c \in log, NEW j \in 1..m, d = made(j)
          PROVE  d.prev_hash = c.event_hash
      <4>1. j - 1 = 0 /\ c.seq = n
        BY <1>1, <1>6, <1>8, <2>2, <3>3
      <4> QED BY <1>1, <1>4, <1>6, <3>3, <4>1
    <3>4. ASSUME d \in log, NEW i \in 1..m, c = made(i) PROVE FALSE
      BY <1>1, <1>6, <1>8, <2>2, <3>4
    <3> QED BY <3>1, <3>2, <3>3, <3>4
  <2> QED BY <2>1, <2>2 DEF Linked
<1>11. \A e \in new : e.seq > n /\ \E i \in 1..m : e.what = whats[i]
  <2> TAKE e \in new
  <2>1. PICK i \in 1..m : e = made(i)
    OBVIOUS
  <2>2. e.seq = n + i /\ e.what = whats[i]
    BY <1>6, <2>1
  <2> QED BY <1>1, <2>2
<1> HIDE DEF new
<1>12. Chain(log \cup new, n + m)
  BY <1>9, <1>10 DEF Chain
<1> QED BY <1>2, <1>11, <1>12

-----------------------------------------------------------------------------
(* The chain never breaks (serialize_append, the unique position). *)

Height == Tail_seq(events)

\* An open transaction continues the committed chain, and there is at most one.
Continues(log, s) ==
  /\ Listing(s)
  /\ Chain(log \cup ToSet(s), Tail_seq(log) + Len(s))
  /\ \A e \in ToSet(s) : e.seq > Tail_seq(log) /\ e.what.action = "handled"

ChainInv ==
  /\ Chain(events, Height)
  /\ DOMAIN open = Txns
  /\ \A t \in Txns : Continues(events, open[t])
  /\ \A t, u \in Txns : open[t] # <<>> /\ open[u] # <<>> => t = u
  /\ "conflict" \notin ended

\* What a step may do to the committed events.
Grows ==
  /\ events \subseteq events' /\ Height \in Nat /\ Height' \in Nat /\ Height <= Height'
  /\ \A e \in events' \ events : e.seq > Height

LEMMA LastOf ==
  ASSUME NEW log, NEW n, Chain(log, n) PROVE Tail_seq(log) = n /\ n \in Nat
BY TailOf DEF Chain, Numbered

LEMMA NothingRecorded ==
  ASSUME NEW log, NEW n, Chain(log, n) PROVE Continues(log, <<>>)
<1>1. ToSet(<<>>) = {} /\ Len(<<>>) = 0 /\ Listing(<<>>)
  BY DEF ToSet, Listing
<1>2. Tail_seq(log) = n /\ n \in Nat /\ log \cup {} = log /\ n + 0 = n
  BY LastOf
<1> QED BY <1>1, <1>2 DEF Continues

\* Committed records of a handler, all at once.
LEMMA LongerChain ==
  ASSUME ChainInv, NEW more, NEW k \in Nat, Chain(events \cup more, Height + k),
         \A e \in more : e.seq > Height,
         events' = events \cup more, Unlocked, UNCHANGED <<open, ended>>
  PROVE  ChainInv' /\ Grows
<1>1. Chain(events', Height + k) /\ Height \in Nat
  BY LastOf DEF ChainInv
<1>2. Height' = Height + k
  BY <1>1, LastOf DEF Height
<1>3. \A t \in Txns : open'[t] = <<>>
  BY DEF Unlocked
<1>4. Continues(events', <<>>)
  BY <1>1, NothingRecorded
<1>5. \A t \in Txns : Continues(events', open'[t])
  BY <1>3, <1>4
<1>6. Grows
  BY <1>1, <1>2 DEF Grows
<1> QED BY <1>1, <1>2, <1>5, <1>6 DEF ChainInv

\* Audits
LEMMA AuditsKept ==
  ASSUME ChainInv, NEW what, Audits(what), UNCHANGED <<open, ended>>
  PROVE  ChainInv' /\ Grows /\ \A e \in events' \ events : e.what = what
<1> DEFINE more == {AuditEvent(events, what)}
<1>1. events' = events \cup more /\ Unlocked
  BY DEF Audits
<1>2. Chain(events \cup more, Height + 1)
  BY Extended DEF ChainInv
<1>3. \A e \in more : e.seq = Height + 1 /\ e.what = what
  BY NewEvent DEF ChainInv
<1>4. Height \in Nat
  BY LastOf DEF ChainInv
<1> HIDE DEF more
<1>5. ChainInv' /\ Grows
  <2>1. 1 \in Nat /\ \A e \in more : e.seq > Height
    BY <1>3, <1>4
  <2> QED BY <1>1, <1>2, <2>1, LongerChain
<1> QED BY <1>1, <1>3, <1>5

\* _vault_sweep_once
LEMMA RecordsKept ==
  ASSUME ChainInv, NEW whats, NEW m \in Nat, DOMAIN whats = 1..m,
         events' = events \cup AuditEvents(events, whats),
         m > 0 => Unlocked, UNCHANGED <<open, ended>>
  PROVE  ChainInv' /\ Grows /\ \A e \in events' \ events : \E i \in 1..m : e.what = whats[i]
<1> DEFINE more == AuditEvents(events, whats)
<1>1. /\ Chain(events \cup more, Height + m)
      /\ \A e \in more : e.seq > Height /\ \E i \in 1..m : e.what = whats[i]
  <2>1. Chain(events, Height)
    BY DEF ChainInv
  <2> QED BY <2>1, ExtendedBy
<1>2. Height \in Nat
  BY LastOf DEF ChainInv
<1> HIDE DEF more
<1>3. events' = events \cup more
  BY DEF more
<1>4. CASE m > 0
  <2>1. ChainInv' /\ Grows
    BY <1>1, <1>3, <1>4, LongerChain
  <2> QED BY <1>1, <1>3, <2>1
<1>5. CASE m = 0
  <2>1. more = {}
    BY <1>1, <1>5
  <2>2. events' = events /\ Height' = Height
    BY <1>3, <2>1 DEF Height
  <2>3. open' = open /\ ended' = ended
    OBVIOUS
  <2>4. ChainInv'
    BY <2>2, <2>3, Zenon DEF ChainInv
  <2>5. Grows /\ events' \ events = {}
    BY <1>2, <2>2 DEF Grows
  <2> QED BY <2>4, <2>5
<1> QED BY <1>4, <1>5

\* record
LEMMA RecordStep ==
  ASSUME ChainInv, NEW t \in Txns, record(t)
  PROVE  ChainInv' /\ Grows
<1> DEFINE log == events \cup ToSet(open[t])
           e == AuditEvent(log, What("handled", 0, 0, 0))
           s == Append(open[t], e)
<1>1. Chain(events, Height) /\ Height \in Nat /\ Continues(events, open[t])
  BY LastOf DEF ChainInv
<1>2. Listing(open[t]) /\ Chain(log, Height + Len(open[t]))
  BY <1>1 DEF Continues, Height
<1>3. /\ Listing(s) /\ ToSet(s) = ToSet(open[t]) \cup {e}
      /\ Len(open[t]) \in Nat /\ Len(s) = Len(open[t]) + 1
  BY <1>2, AppendListing
<1>4. e.seq = Height + Len(open[t]) + 1 /\ e.what.action = "handled"
  BY <1>2, NewEvent DEF What
<1>5. Chain(log \cup {e}, Height + Len(open[t]) + 1)
  BY <1>2, Extended
<1>6. open' = [open EXCEPT ![t] = s] /\ UNCHANGED <<events, ended>>
  BY DEF record
<1>7. \A u \in Txns \ {t} : open[u] = <<>>
  BY DEF record, _serialize_append
<1> HIDE DEF e, s
<1>8. Continues(events, s)
  <2>1. events \cup ToSet(s) = log \cup {e}
    BY <1>3
  <2>2. Tail_seq(events) + Len(s) = Height + Len(open[t]) + 1
    BY <1>1, <1>3 DEF Height
  <2>3. \A d \in ToSet(s) : d.seq > Tail_seq(events) /\ d.what.action = "handled"
    BY <1>1, <1>3, <1>4 DEF Continues, Height
  <2> HIDE DEF log
  <2> QED BY <1>3, <1>5, <2>1, <2>2, <2>3 DEF Continues
<1>9. \A u \in Txns : Continues(events', open'[u])
  BY <1>6, <1>8, Zenon DEF ChainInv
<1>10. Height' = Height
  BY <1>6 DEF Height
<1>11. \A u, v \in Txns : open'[u] # <<>> /\ open'[v] # <<>> => u = v
  BY <1>6, <1>7 DEF ChainInv
<1>12. ChainInv'
  BY <1>6, <1>9, <1>10, <1>11 DEF ChainInv
<1> QED BY <1>1, <1>6, <1>10, <1>12 DEF Grows

\* commit: nobody else has taken the positions.
LEMMA CommitStep ==
  ASSUME ChainInv, NEW t \in Txns, commit(t)
  PROVE  ChainInv' /\ Grows /\ \A e \in events' \ events : e.what.action = "handled"
<1> DEFINE mine == ToSet(open[t])
<1>1. Chain(events, Height) /\ Height \in Nat /\ Continues(events, open[t])
  BY LastOf DEF ChainInv
<1>2. /\ Chain(events \cup mine, Height + Len(open[t])) /\ Listing(open[t])
      /\ \A e \in mine : e.seq > Height /\ e.what.action = "handled"
  BY <1>1 DEF Continues, Height
<1>3. ~\E d \in mine, e \in events : d.seq = e.seq
  BY <1>1, <1>2 DEF Chain, Numbered
<1>4. /\ events' = events \cup mine /\ open' = [open EXCEPT ![t] = <<>>]
      /\ ended' = ended \cup {"committed"}
  BY <1>3 DEF commit
<1>5. Len(open[t]) \in Nat
  BY <1>2 DEF Listing
<1>6. Height' = Height + Len(open[t])
  BY <1>2, <1>4, LastOf DEF Height
<1>7. Chain(events', Height')
  BY <1>2, <1>4, <1>6
<1>8. \A u \in Txns : open'[u] = <<>>
  BY <1>4 DEF ChainInv, commit
<1>9. Continues(events', <<>>)
  BY <1>7, NothingRecorded
<1>10. \A u \in Txns : Continues(events', open'[u])
  BY <1>8, <1>9
<1>11. ChainInv'
  BY <1>4, <1>7, <1>8, <1>10 DEF ChainInv
<1>12. Grows
  BY <1>1, <1>2, <1>4, <1>5, <1>6 DEF Grows
<1> QED BY <1>2, <1>4, <1>11, <1>12

\* rollback
LEMMA RollbackStep ==
  ASSUME ChainInv, NEW t \in Txns, rollback(t)
  PROVE  ChainInv' /\ Grows /\ events' = events
<1>1. open' = [open EXCEPT ![t] = <<>>] /\ ended' = ended \cup {"rolled_back"} /\ events' = events
  BY DEF rollback
<1>2. Chain(events, Height) /\ Height \in Nat
  BY LastOf DEF ChainInv
<1>3. Continues(events, <<>>)
  BY <1>2, NothingRecorded
<1>4. \A u \in Txns : Continues(events', open'[u])
  BY <1>1, <1>3 DEF ChainInv
<1>5. Height' = Height
  BY <1>1 DEF Height
<1> QED BY <1>1, <1>2, <1>4, <1>5 DEF ChainInv, Grows

\* A step that leaves the events alone.
LEMMA EventsKept ==
  ASSUME ChainInv, UNCHANGED <<events, open, ended>>
  PROVE  ChainInv' /\ Grows
<1>1. Height' = Height /\ Height \in Nat
  BY LastOf DEF ChainInv, Height
<1>2. ChainInv'
  BY <1>1, Zenon DEF ChainInv
<1> QED BY <1>1, <1>2 DEF Grows

\* What the steps of the vault do to the chain: nothing, or they record.
Recorded ==
  /\ UNCHANGED <<open, ended>>
  /\ \/ events' = events
     \/ \E what : Audits(what)
     \/ \E whats : \E m \in Nat : /\ DOMAIN whats = 1..m /\ (m > 0 => Unlocked)
                                  /\ events' = events \cup AuditEvents(events, whats)

LEMMA SweepRecords ==
  ASSUME NEW h, _vault_sweep_once(h)
  PROVE  \E whats : \E m \in Nat :
           /\ DOMAIN whats = 1..m /\ (m > 0 => Unlocked)
           /\ events' = events \cup AuditEvents(events, whats)
           /\ \A i \in 1..m : whats[i].action = "verified"
<1> DEFINE failing == {r \in RecordIds : /\ r \in h.verified
                                         /\ h.new[r].integrity \in FAILING_STATES
                                         /\ h.new[r].integrity # h.was[r].integrity}
           m == Cardinality(failing)
           whats == [i \in DOMAIN Listed(failing) |-> What("verified", Listed(failing)[i], 0, 0)]
<1>1. IsFiniteSet(failing)
  BY EvidenceAssumption, FS_Subset
<1>2. m \in Nat /\ (m > 0 => failing # {})
  BY <1>1, FS_CardinalityType, FS_EmptySet
<1>3. /\ failing # {} => Unlocked
      /\ events' = events \cup AuditEvents(events, whats)
  BY Zenon DEF _vault_sweep_once
<1>4. DOMAIN Listed(failing) = 1..m
  BY DEF Listed, InOrder
<1>5. DOMAIN whats = 1..m /\ \A i \in 1..m : whats[i].action = "verified"
  BY <1>4 DEF What
<1> QED BY <1>2, <1>3, <1>5

LEMMA VaultSteps ==
  [Next]_vars => ChainNext \/ (Recorded /\ UNCHANGED <<anchors, medium, publishing>>)
<1> SUFFICES ASSUME [Next]_vars
    PROVE  ChainNext \/ (Recorded /\ UNCHANGED <<anchors, medium, publishing>>)
  OBVIOUS
<1> USE DEF Recorded, chainVars
<1>1. CASE UNCHANGED vars
  BY <1>1 DEF vars
<1>2. CASE export_load \/ store_evidence_load
  BY <1>2 DEF export_load, store_evidence_load
<1>3. CASE \E k \in HoldIds : \/ \E scope \in RecordIds \cup {0} : place_legal_hold_load(k, scope)
                              \/ release_legal_hold_load(k)
  BY <1>3 DEF place_legal_hold_load, release_legal_hold_load
<1>4. CASE \E r \in RecordIds : verify_evidence_load(r) \/ download_evidence(r) \/ dispose_evidence_load(r)
  BY <1>4, Zenon DEF verify_evidence_load, download_evidence, dispose_evidence_load
<1>5. CASE sweep \/ storage_damaged \/ tick
  BY <1>5, Zenon DEF sweep, storage_damaged, tick
<1>6. ASSUME NEW h \in handlers, StorageCall(h) \/ handler_fails(h)
      PROVE  Recorded /\ UNCHANGED <<anchors, medium, publishing>>
  BY <1>6, Zenon DEF StorageCall, reconcile_hold, store_package, dispose_record, handler_fails
<1>7. ASSUME NEW h \in handlers, Commit(h) PROVE Recorded /\ UNCHANGED <<anchors, medium, publishing>>
  <2>1. CASE export_evidence_bundle(h)
    BY <2>1, Zenon DEF export_evidence_bundle, Audits
  <2>2. CASE hold_commit(h) \/ verify_evidence(h)
    BY <2>2, Zenon DEF hold_commit, verify_evidence
  <2>3. CASE store_evidence(h)
    BY <2>3, Zenon DEF store_evidence
  <2>4. CASE dispose_evidence(h)
    BY <2>4, Zenon DEF dispose_evidence
  <2> QED BY <1>7, <2>1, <2>2, <2>3, <2>4 DEF Commit
<1>8. ASSUME NEW h \in handlers, _vault_sweep_once(h)
      PROVE  Recorded /\ UNCHANGED <<anchors, medium, publishing>>
  <2>1. UNCHANGED <<open, ended, anchors, medium, publishing>>
    BY <1>8, Zenon DEF _vault_sweep_once
  <2> QED BY <1>8, <2>1, SweepRecords
<1> QED BY <1>1, <1>2, <1>3, <1>4, <1>5, <1>6, <1>7, <1>8, Zenon DEF Next

\* Every step keeps the chain, and events are only ever added after its end.
LEMMA ChainStep == ChainInv /\ [Next]_vars => ChainInv' /\ Grows
<1> SUFFICES ASSUME ChainInv, [Next]_vars PROVE ChainInv' /\ Grows
  OBVIOUS
<1>1. CASE \E t \in Txns : record(t) \/ commit(t) \/ rollback(t)
  BY <1>1, RecordStep, CommitStep, RollbackStep
<1>2. CASE \E p \in Replicas : Publishing(p) \/ publisher_crashes(p)
  <2>1. UNCHANGED <<events, open, ended>>
    BY <1>2, Zenon DEF Publishing, publisher_crashes, _publish_once, publish_pending, publish_commit
  <2> QED BY <2>1, EventsKept
<1>3. CASE create_audit_anchor_load
  <2>1. UNCHANGED <<events, open, ended>>
    BY <1>3 DEF create_audit_anchor_load
  <2> QED BY <2>1, EventsKept
<1>4. CASE create_audit_anchor
  <2>1. Audits(What("anchored", 0, 0, 0)) /\ UNCHANGED <<open, ended>>
    BY <1>4 DEF create_audit_anchor
  <2> QED BY <2>1, AuditsKept
<1>5. CASE Recorded
  <2>1. UNCHANGED <<open, ended>>
    BY <1>5 DEF Recorded
  <2>2. CASE events' = events
    BY <2>1, <2>2, EventsKept
  <2>3. CASE \E what : Audits(what)
    BY <2>1, <2>3, AuditsKept
  <2>4. CASE \E whats : \E m \in Nat : /\ DOMAIN whats = 1..m /\ (m > 0 => Unlocked)
                                       /\ events' = events \cup AuditEvents(events, whats)
    <3>1. PICK whats : \E m \in Nat : /\ DOMAIN whats = 1..m /\ (m > 0 => Unlocked)
                                     /\ events' = events \cup AuditEvents(events, whats)
      BY <2>4, Zenon
    <3>2. PICK m \in Nat : /\ DOMAIN whats = 1..m /\ (m > 0 => Unlocked)
                          /\ events' = events \cup AuditEvents(events, whats)
      BY <3>1, Zenon
    <3> QED BY <2>1, <3>2, RecordsKept
  <2> QED BY <1>5, <2>2, <2>3, <2>4, Zenon DEF Recorded
<1> QED BY <1>1, <1>2, <1>3, <1>4, <1>5, VaultSteps, Zenon DEF ChainNext

-----------------------------------------------------------------------------
(* Anchors stay true of the chain (core/anchor.py, core/anchor_publish.py). *)

Publishers == Replicas \cup {"operator"}
Columns == {"id", "event_count", "last", "root", "row", "receipt"}

\* The anchors in the table and those that a transaction has read or written.
Read(p) == publishing[p].was \cup publishing[p].rows \cup ToSet(publishing[p].todo)
Known == anchors \cup UNION {Read(p) : p \in Publishers}

Anchored(a) ==
  /\ DOMAIN a = Columns /\ a.id \in Nat /\ a.event_count \in 1..Height
  /\ At(events, a.event_count).event_hash = a.last
  /\ Root(Upto(events, a.event_count)) = a.root
Documented(a) == a.row = "published" => canonical_anchor_document(a) \in medium
Agree(a, b) == a.id = b.id => a.event_count = b.event_count /\ a.root = b.root

Faithful(S) ==
  /\ \A a \in S : Anchored(a) /\ Documented(a)
  /\ \A a, b \in S : Agree(a, b)
  /\ \A m \in medium : m.id \in Nat /\ m = [key |-> m.key, id |-> m.id]
  /\ \E top \in Nat : (\A a \in S : a.id <= top) /\ (\A m \in medium : m.id <= top)

Transaction(p) ==
  LET tx == publishing[p] IN
  /\ DOMAIN tx = {"on", "todo", "was", "rows"}
  /\ Listing(tx.todo) /\ IsFiniteSet(tx.rows)
  /\ Ids(ToSet(tx.todo)) \cup Ids(tx.was) \subseteq Ids(anchors) \cup Ids(tx.rows)

AnchorInv ==
  /\ IsFiniteSet(anchors)
  /\ DOMAIN publishing = Publishers
  /\ \A p \in Publishers : Transaction(p)
  /\ Faithful(Known)

\* What was said of a prefix of the chain stays true.
LEMMA PrefixKept ==
  ASSUME ChainInv, ChainInv', Grows
  PROVE  /\ Height \in Nat /\ Height' \in Nat
         /\ \A k \in 0..Height : Upto(events', k) = Upto(events, k)
         /\ \A k \in 1..Height : At(events', k) = At(events, k)
<1>1. Numbered(events, Height) /\ Numbered(events', Height') /\ Height \in Nat /\ Height' \in Nat
  BY DEF ChainInv, Chain, Grows
<1>2. \A e \in events' \ events : e.seq > Height /\ e.seq \in Nat
  BY <1>1 DEF Grows, Numbered
<1>3. ASSUME NEW k \in 0..Height PROVE Upto(events', k) = Upto(events, k)
  <2>1. k \in Nat /\ k <= Height
    BY <1>1
  <2>2. \A e \in events' \ events : ~(e.seq <= k)
    BY <1>1, <1>2, <2>1
  <2>3. events \subseteq events'
    BY DEF Grows
  <2> QED BY <2>2, <2>3 DEF Upto
<1>4. ASSUME NEW k \in 1..Height PROVE At(events', k) = At(events, k)
  <2>1. k \in 1..Height' /\ events \subseteq events'
    BY <1>1 DEF Grows
  <2>2. At(events, k) \in events /\ At(events, k).seq = k
    BY <1>1, RowAt
  <2>3. \A e \in events' : e.seq = k => e = At(events', k)
    BY <1>1, <2>1, RowAt
  <2> QED BY <2>1, <2>2, <2>3
<1> QED BY <1>1, <1>3, <1>4

LEMMA AnchoredKept ==
  ASSUME ChainInv, ChainInv', Grows, NEW a, Anchored(a),
         NEW b, DOMAIN b = Columns, b.id = a.id, b.event_count = a.event_count,
         b.last = a.last, b.root = a.root
  PROVE  Anchored(b)'
<1>1. /\ Height \in Nat /\ Height' \in Nat /\ Height <= Height'
      /\ \A k \in 0..Height : Upto(events', k) = Upto(events, k)
      /\ \A k \in 1..Height : At(events', k) = At(events, k)
  BY PrefixKept DEF Grows
<1>2. a.event_count \in 1..Height /\ a.event_count \in 0..Height /\ a.event_count \in 1..Height'
  BY <1>1 DEF Anchored
<1> QED BY <1>1, <1>2 DEF Anchored

\* create_anchor
LEMMA MadeFromTheChain ==
  ASSUME ChainInv, AnchorInv, events # {}
  PROVE  /\ Faithful(Known \cup {create_anchor})
         /\ create_anchor.row = "none" /\ create_anchor.receipt = None
         /\ \A a \in Known : a.id # create_anchor.id
<1> DEFINE c == create_anchor
           ids == {0} \cup Ids(anchors) \cup Ids(medium)
                  \cup UNION {Ids(publishing[p].rows) : p \in DOMAIN publishing}
<1>1. Numbered(events, Height) /\ Height \in Nat
  BY LastOf DEF ChainInv, Chain
<1>2. Cardinality(events) = Height /\ Height \in 1..Height
  <2>1. Cardinality(events) = Height
    BY <1>1, Counted
  <2>2. Height # 0
    BY <1>1 DEF Numbered
  <2> QED BY <1>1, <2>1, <2>2
<1>3. PICK top \in Nat : (\A a \in Known : a.id <= top) /\ (\A m \in medium : m.id <= top)
  BY DEF AnchorInv, Faithful
<1>4. \A a \in Known : a.id \in Nat
  BY DEF AnchorInv, Faithful, Anchored
<1>5. \A p \in Publishers : publishing[p].rows \subseteq Known
  BY DEF Known, Read
<1>6. ids \in SUBSET Nat /\ \A x \in ids : x <= top
  <2>1. anchors \subseteq Known
    BY DEF Known
  <2>2. \A m \in medium : m.id \in Nat
    BY DEF AnchorInv, Faithful
  <2> QED BY <1>3, <1>4, <1>5, <2>1, <2>2 DEF Ids, AnchorInv
<1>7. 0 \in ids
  OBVIOUS
<1>8. fresh_id = 1 + Max(ids)
  BY DEF fresh_id
<1> HIDE DEF ids
<1>9. Max(ids) \in Nat /\ \A x \in ids : x <= Max(ids)
  BY <1>6, <1>7, GreatestNumber
<1>10. fresh_id \in Nat /\ \A x \in ids : x < fresh_id
  BY <1>6, <1>8, <1>9
<1>11. \A a \in Known : a.id \in ids
  <2> TAKE a \in Known
  <2>1. Ids(anchors) \subseteq ids /\ \A p \in Publishers : Ids(publishing[p].rows) \subseteq ids
    BY DEF ids, AnchorInv
  <2>2. CASE a \in anchors
    BY <2>1, <2>2 DEF Ids
  <2>3. CASE \E p \in Publishers : a \in Read(p)
    <3>1. PICK p \in Publishers : a \in Read(p)
      BY <2>3
    <3>2. Ids(ToSet(publishing[p].todo)) \cup Ids(publishing[p].was)
            \subseteq Ids(anchors) \cup Ids(publishing[p].rows)
      BY DEF AnchorInv, Transaction
    <3>3. a.id \in Ids(ToSet(publishing[p].todo)) \cup Ids(publishing[p].was) \cup Ids(publishing[p].rows)
      BY <3>1 DEF Read, Ids
    <3> QED BY <2>1, <3>2, <3>3
  <2> QED BY <2>2, <2>3 DEF Known
<1>12. \A a \in Known : a.id # c.id
  BY <1>4, <1>10, <1>11 DEF create_anchor
<1>13. \A m \in medium : m.id \in ids
  BY DEF ids, Ids
<1>14. /\ DOMAIN c = Columns /\ c.id = fresh_id /\ c.event_count = Height
       /\ c.row = "none" /\ c.receipt = None /\ c.root = Root(events)
       /\ c.last = _chain_tail(events).hash
  BY <1>2 DEF create_anchor, Columns
<1>15. Anchored(c)
  <2>1. c.last = At(events, Height).event_hash
    BY <1>1, <1>2, <1>14, TailOf
  <2>2. Upto(events, Height) = events
    BY <1>1 DEF Upto, Numbered
  <2> QED BY <1>2, <1>10, <1>14, <2>1, <2>2 DEF Anchored
<1>16. Documented(c)
  BY <1>14 DEF Documented
<1>17. \A a, b \in Known \cup {c} : Agree(a, b)
  BY <1>12 DEF Agree, AnchorInv, Faithful
<1>18. (\A a \in Known \cup {c} : a.id <= fresh_id) /\ (\A m \in medium : m.id <= fresh_id)
  BY <1>4, <1>6, <1>10, <1>11, <1>13, <1>14
<1> HIDE DEF c
<1>19. Faithful(Known \cup {c})
  BY <1>10, <1>15, <1>16, <1>17, <1>18 DEF Faithful, AnchorInv
<1> QED BY <1>12, <1>14, <1>19 DEF c

\* The anchors after a step are those before it, and whether they are published.
Copies(c, a) ==
  /\ DOMAIN c = Columns
  /\ c.id = a.id /\ c.event_count = a.event_count /\ c.last = a.last /\ c.root = a.root

LEMMA FaithfulKept ==
  ASSUME ChainInv, ChainInv', Grows, NEW S, Faithful(S),
         medium \subseteq medium',
         \A m \in medium' \ medium : \E a \in S : m = canonical_anchor_document(a),
         \A c \in Known' : /\ \E a \in S : Copies(c, a)
                           /\ c.row = "published" => canonical_anchor_document(c) \in medium'
  PROVE  Faithful(Known)'
<1>1. \A c \in Known' : Anchored(c)' /\ Documented(c)'
  <2> TAKE c \in Known'
  <2>1. PICK a \in S : Copies(c, a)
    OBVIOUS
  <2>2. Anchored(a)
    BY DEF Faithful
  <2>3. Anchored(c)'
    BY <2>1, <2>2, AnchoredKept DEF Copies
  <2>4. Documented(c)'
    BY DEF Documented, canonical_anchor_document, _object_key
  <2> QED BY <2>3, <2>4
<1>2. \A c, d \in Known' : Agree(c, d)'
  BY DEF Agree, Copies, Faithful
<1>3. \A m \in medium' : m.id \in Nat /\ m = [key |-> m.key, id |-> m.id]
  BY DEF Faithful, canonical_anchor_document, Anchored
<1>4. PICK top \in Nat : (\A a \in S : a.id <= top) /\ (\A m \in medium : m.id <= top)
  BY DEF Faithful
<1>5. \A c \in Known' : c.id <= top
  BY <1>4 DEF Copies
<1>6. \A m \in medium' : m.id <= top
  BY <1>4 DEF canonical_anchor_document
<1> QED BY <1>1, <1>2, <1>3, <1>4, <1>5, <1>6 DEF Faithful

\* A step of one publisher leaves the others' transactions.
LEMMA KnownAfter ==
  ASSUME AnchorInv, NEW p \in Publishers, NEW tx, publishing' = [publishing EXCEPT ![p] = tx]
  PROVE  /\ DOMAIN publishing' = Publishers /\ publishing'[p] = tx
         /\ \A q \in Publishers \ {p} : publishing'[q] = publishing[q]
         /\ Known' \subseteq anchors' \cup Known \cup tx.was \cup tx.rows \cup ToSet(tx.todo)
<1>1. /\ DOMAIN publishing' = Publishers /\ publishing'[p] = tx
      /\ \A q \in Publishers \ {p} : publishing'[q] = publishing[q]
  BY DEF AnchorInv
<1>2. ASSUME NEW c \in Known'
      PROVE  c \in anchors' \cup Known \cup tx.was \cup tx.rows \cup ToSet(tx.todo)
  <2>1. CASE c \in anchors'
    BY <2>1
  <2>2. CASE \E q \in Publishers : c \in Read(q)'
    <3>1. PICK q \in Publishers : c \in Read(q)'
      BY <2>2
    <3>2. c \in publishing'[q].was \cup publishing'[q].rows \cup ToSet(publishing'[q].todo)
      BY <3>1 DEF Read
    <3>3. CASE q = p
      BY <1>1, <3>2, <3>3
    <3>4. CASE q # p
      <4>1. c \in Read(q)
        BY <1>1, <3>2, <3>4 DEF Read
      <4> QED BY <4>1 DEF Known
    <3> QED BY <3>3, <3>4
  <2> QED BY <2>1, <2>2 DEF Known
<1> QED BY <1>1, <1>2

LEMMA OneTransaction ==
  ASSUME AnchorInv, NEW p \in Publishers, NEW tx, publishing' = [publishing EXCEPT ![p] = tx],
         Ids(anchors) \subseteq Ids(anchors'),
         DOMAIN tx = {"on", "todo", "was", "rows"}, Listing(tx.todo), IsFiniteSet(tx.rows),
         Ids(ToSet(tx.todo)) \cup Ids(tx.was) \subseteq Ids(anchors') \cup Ids(tx.rows)
  PROVE  /\ DOMAIN publishing' = Publishers /\ \A q \in Publishers : Transaction(q)'
         /\ Known' \subseteq anchors' \cup Known \cup tx.was \cup tx.rows \cup ToSet(tx.todo)
<1>1. /\ DOMAIN publishing' = Publishers /\ publishing'[p] = tx
      /\ \A q \in Publishers \ {p} : publishing'[q] = publishing[q]
      /\ Known' \subseteq anchors' \cup Known \cup tx.was \cup tx.rows \cup ToSet(tx.todo)
  BY KnownAfter
<1>2. ASSUME NEW q \in Publishers \ {p} PROVE Transaction(q)'
  <2>1. Transaction(q) /\ publishing'[q] = publishing[q]
    BY <1>1 DEF AnchorInv
  <2> QED BY <2>1 DEF Transaction
<1>3. Transaction(p)'
  BY <1>1 DEF Transaction
<1> QED BY <1>1, <1>2, <1>3

LEMMA NoTransaction ==
  /\ DOMAIN NoPublication = {"on", "todo", "was", "rows"}
  /\ Listing(NoPublication.todo) /\ IsFiniteSet(NoPublication.rows)
  /\ NoPublication.todo = <<>> /\ ToSet(NoPublication.todo) = {}
  /\ NoPublication.was = {} /\ NoPublication.rows = {}
<1>1. NoPublication.todo = <<>> /\ NoPublication.was = {} /\ NoPublication.rows = {}
  BY DEF NoPublication
<1>2. Listing(<<>>) /\ ToSet(<<>>) = {}
  BY DEF Listing, ToSet
<1> QED BY <1>1, <1>2, FS_EmptySet DEF NoPublication

\* Whatever is known after the step was known before it, published or not.
LEMMA AnchorsKept ==
  ASSUME ChainInv, ChainInv', Grows, AnchorInv, UNCHANGED <<anchors, medium, publishing>>
  PROVE  AnchorInv'
<1>1. Known' = Known
  BY DEF Known, Read
<1>2. \A c \in Known : Copies(c, c) /\ (c.row = "published" => canonical_anchor_document(c) \in medium)
  BY DEF AnchorInv, Faithful, Anchored, Documented, Copies
<1>3. Faithful(Known)'
  BY <1>1, <1>2, FaithfulKept DEF AnchorInv
<1>4. \A p \in Publishers : Transaction(p)'
  BY DEF AnchorInv, Transaction
<1> QED BY <1>3, <1>4 DEF AnchorInv

\* publisher_crashes
LEMMA CrashKeepsAnchors ==
  ASSUME ChainInv, ChainInv', Grows, AnchorInv, NEW p \in Publishers,
         publishing' = [publishing EXCEPT ![p] = NoPublication], UNCHANGED <<anchors, medium>>
  PROVE  AnchorInv'
<1>1. /\ DOMAIN publishing' = Publishers /\ \A q \in Publishers : Transaction(q)'
      /\ Known' \subseteq anchors' \cup Known
  <2>1. /\ Ids(ToSet(NoPublication.todo)) \cup Ids(NoPublication.was)
             \subseteq Ids(anchors') \cup Ids(NoPublication.rows)
        /\ Ids(anchors) \subseteq Ids(anchors')
    BY NoTransaction DEF Ids
  <2>2. /\ DOMAIN publishing' = Publishers /\ \A q \in Publishers : Transaction(q)'
        /\ Known' \subseteq anchors' \cup Known \cup NoPublication.was \cup NoPublication.rows
                            \cup ToSet(NoPublication.todo)
    BY <2>1, NoTransaction, OneTransaction
  <2> QED BY <2>2, NoTransaction
<1>2. Known' \subseteq Known
  BY <1>1 DEF Known
<1>3. \A c \in Known' : Copies(c, c) /\ (c.row = "published" => canonical_anchor_document(c) \in medium')
  BY <1>2 DEF AnchorInv, Faithful, Anchored, Documented, Copies
<1>4. Faithful(Known)'
  BY <1>2, <1>3, FaithfulKept DEF AnchorInv
<1> QED BY <1>1, <1>4 DEF AnchorInv

LEMMA ListOfAll ==
  ASSUME NEW S, IsFiniteSet(S), NEW list \in SetToSeqs(S)
  PROVE  /\ Listing(list) /\ ToSet(list) \subseteq S
         /\ \A i, j \in DOMAIN list : list[i] = list[j] => i = j
<1>1. Cardinality(S) \in Nat
  BY FS_CardinalityType
<1>2. /\ list \in [1..Cardinality(S) -> S]
      /\ \A i, j \in 1..Cardinality(S) : i # j => list[i] # list[j]
  BY DEF SetToSeqs
<1>3. list \in Seq(S)
  BY <1>1, <1>2
<1>4. Listing(list) /\ ToSet(list) = {list[i] : i \in 1..Len(list)} /\ DOMAIN list = 1..Len(list)
  BY <1>3, ListingOf
<1>5. ToSet(list) \subseteq S
  BY <1>3, <1>4
<1> QED BY <1>2, <1>4, <1>5

\* ensure_current_anchor
LEMMA AnchorIfLonger ==
  ASSUME ChainInv, AnchorInv
  PROVE  ensure_current_anchor = {} \/ (ensure_current_anchor = {create_anchor} /\ events # {})
<1> DEFINE counts == {a.event_count : a \in anchors} \cup {0}
<1>1. Height \in Nat
  BY LastOf DEF ChainInv
<1>2. \A a \in anchors : a.event_count \in Nat /\ a.event_count <= Height
  BY <1>1 DEF AnchorInv, Known, Faithful, Anchored
<1>3. counts \in SUBSET Nat /\ \A x \in counts : x <= Height
  BY <1>1, <1>2
<1>4. 0 \in counts
  OBVIOUS
<1>5. ensure_current_anchor = IF Cardinality(events) > Max(counts) THEN {create_anchor} ELSE {}
  BY DEF ensure_current_anchor
<1> HIDE DEF counts
<1>6. Max(counts) \in Nat
  BY <1>1, <1>3, <1>4, GreatestNumber
<1>7. Cardinality(events) > Max(counts) => events # {}
  BY <1>6, FS_EmptySet
<1> QED BY <1>5, <1>7

\* _publish_once, create_audit_anchor_load
LEMMA LoadKeepsAnchors ==
  ASSUME ChainInv, ChainInv', Grows, AnchorInv, NEW p \in Publishers,
         NEW fresh, fresh = {} \/ (fresh = {create_anchor} /\ events # {}),
         NEW list, Listing(list), ToSet(list) \subseteq anchors \cup fresh,
         publishing' = [publishing EXCEPT ![p] =
                          [on |-> TRUE, todo |-> list, was |-> fresh, rows |-> fresh]],
         UNCHANGED <<anchors, medium>>
  PROVE  AnchorInv'
<1> DEFINE tx == [on |-> TRUE, todo |-> list, was |-> fresh, rows |-> fresh]
<1>1. /\ DOMAIN tx = {"on", "todo", "was", "rows"}
      /\ tx.todo = list /\ tx.was = fresh /\ tx.rows = fresh
  OBVIOUS
<1>2. IsFiniteSet(fresh)
  <2>1. IsFiniteSet({}) /\ IsFiniteSet({create_anchor})
    BY FS_EmptySet, FS_Singleton, Zenon
  <2> QED BY <2>1, Zenon
<1>3. publishing' = [publishing EXCEPT ![p] = tx]
  OBVIOUS
<1> HIDE DEF tx
<1>4. /\ DOMAIN publishing' = Publishers /\ \A q \in Publishers : Transaction(q)'
      /\ Known' \subseteq anchors' \cup Known \cup tx.was \cup tx.rows \cup ToSet(tx.todo)
  <2>1. /\ Ids(ToSet(tx.todo)) \cup Ids(tx.was) \subseteq Ids(anchors') \cup Ids(tx.rows)
        /\ Ids(anchors) \subseteq Ids(anchors')
    BY <1>1 DEF Ids
  <2>2. Listing(tx.todo) /\ IsFiniteSet(tx.rows)
    BY <1>1, <1>2
  <2> QED BY <1>1, <1>3, <2>1, <2>2, OneTransaction
<1>5. Known' \subseteq Known \cup fresh
  BY <1>1, <1>4 DEF Known
<1>6. Faithful(Known \cup fresh)
  <2>1. CASE fresh = {}
    BY <2>1 DEF AnchorInv
  <2>2. CASE fresh = {create_anchor} /\ events # {}
    BY <2>2, MadeFromTheChain
  <2> QED BY <2>1, <2>2
<1>7. \A c \in Known' : Copies(c, c) /\ (c.row = "published" => canonical_anchor_document(c) \in medium')
  BY <1>5, <1>6 DEF Faithful, Anchored, Documented, Copies
<1>8. Faithful(Known)'
  BY <1>5, <1>6, <1>7, FaithfulKept
<1> QED BY <1>4, <1>8 DEF AnchorInv

LEMMA HeadTailListing ==
  ASSUME NEW s, Listing(s), s # <<>>
  PROVE  /\ Head(s) \in ToSet(s) /\ Listing(Tail(s)) /\ ToSet(Tail(s)) \subseteq ToSet(s)
         /\ Head(s) = s[1] /\ 1 \in DOMAIN s /\ DOMAIN s = 1..Len(s) /\ Len(s) \in Nat
         /\ DOMAIN Tail(s) = 1..Len(s) - 1
         /\ \A i \in DOMAIN Tail(s) : i + 1 \in DOMAIN s /\ Tail(s)[i] = s[i + 1]
<1> DEFINE U == ToSet(s)
<1>1. s \in Seq(U)
  BY DEF Listing
<1> HIDE DEF U
<1>2. /\ Head(s) \in U /\ Tail(s) \in Seq(U) /\ Len(Tail(s)) = Len(s) - 1
      /\ \A i \in 1..Len(Tail(s)) : Tail(s)[i] = s[i + 1]
  BY <1>1, HeadTailProperties
<1>3. Head(s) = s[1] /\ 1 \in DOMAIN s /\ DOMAIN s = 1..Len(s) /\ Len(s) \in Nat
  BY <1>1
<1>4. Listing(Tail(s)) /\ DOMAIN Tail(s) = 1..Len(Tail(s))
      /\ ToSet(Tail(s)) = {Tail(s)[i] : i \in 1..Len(Tail(s))}
  BY <1>2, ListingOf
<1>5. ToSet(Tail(s)) \subseteq U
  BY <1>2, <1>4
<1> QED BY <1>2, <1>3, <1>4, <1>5 DEF U

LEMMA SelectedOf ==
  ASSUME AnchorInv, NEW p \in Publishers, NEW a \in ToSet(publishing[p].todo)
  PROVE  /\ a \in Known /\ Selected(p, a) \in publishing[p].rows \cup anchors
         /\ Selected(p, a) \in Known /\ Selected(p, a).id = a.id
         /\ Selected(p, a).event_count = a.event_count /\ Selected(p, a).root = a.root
<1>1. a \in Known /\ publishing[p].rows \cup anchors \subseteq Known
  BY DEF Known, Read
<1>2. a.id \in Ids(anchors) \cup Ids(publishing[p].rows)
  BY DEF AnchorInv, Transaction, Ids
<1>3. \E b \in publishing[p].rows \cup anchors : b.id = a.id
  BY <1>2 DEF Ids
<1>4. Selected(p, a) \in publishing[p].rows \cup anchors /\ Selected(p, a).id = a.id
  BY <1>3 DEF Selected
<1>5. Agree(Selected(p, a), a)
  BY <1>1, <1>4 DEF AnchorInv, Faithful
<1> QED BY <1>1, <1>4, <1>5 DEF Agree

\* What a publisher writes in its transaction for the anchor it has come to.
Told(tx, row, r) == [tx EXCEPT !.todo = Tail(@), !.was = With(@, row), !.rows = With(@, r)]

LEMMA TellKeepsAnchors ==
  ASSUME ChainInv, ChainInv', Grows, AnchorInv, NEW p \in Publishers, publishing[p].todo # <<>>,
         NEW row, row = Selected(p, Head(publishing[p].todo)),
         NEW r, Copies(r, row), r.row = "published" => canonical_anchor_document(r) \in medium',
         medium \subseteq medium',
         medium' \ medium \subseteq {canonical_anchor_document(Head(publishing[p].todo))},
         NEW tx, tx = Told(publishing[p], row, r), publishing' = [publishing EXCEPT ![p] = tx],
         UNCHANGED anchors
  PROVE  AnchorInv'
<1> DEFINE was == publishing[p]
           a == Head(was.todo)
<1>1. Transaction(p)
  BY DEF AnchorInv
<1>2. a \in ToSet(was.todo) /\ Listing(Tail(was.todo)) /\ ToSet(Tail(was.todo)) \subseteq ToSet(was.todo)
  BY <1>1, HeadTailListing DEF Transaction
<1>3. /\ a \in Known /\ row \in was.rows \cup anchors /\ row \in Known /\ row.id = a.id
      /\ row.event_count = a.event_count /\ row.root = a.root
  BY <1>2, SelectedOf
<1>4. /\ DOMAIN tx = {"on", "todo", "was", "rows"} /\ tx.todo = Tail(was.todo)
      /\ tx.was = With(was.was, row) /\ tx.rows = With(was.rows, r)
  BY <1>1 DEF Transaction, Told
<1>5. publishing' = [publishing EXCEPT ![p] = tx]
  OBVIOUS
<1>6. IsFiniteSet(tx.rows)
  <2>1. IsFiniteSet({b \in was.rows : b.id # r.id})
    BY <1>1, FS_Subset DEF Transaction
  <2> QED BY <1>4, <2>1, FS_AddElement DEF With
<1>7. Ids(ToSet(tx.todo)) \cup Ids(tx.was) \subseteq Ids(anchors') \cup Ids(tx.rows)
  <2>1. Ids(ToSet(was.todo)) \cup Ids(was.was) \subseteq Ids(anchors) \cup Ids(was.rows)
    BY <1>1 DEF Transaction
  <2>2. Ids(was.rows) \subseteq Ids(tx.rows) /\ r.id \in Ids(tx.rows)
    BY <1>4 DEF Ids, With
  <2>3. Ids(tx.was) \subseteq Ids(was.was) \cup {r.id}
    BY <1>4 DEF Ids, With, Copies
  <2>4. Ids(ToSet(tx.todo)) \subseteq Ids(ToSet(was.todo))
    BY <1>2, <1>4 DEF Ids
  <2> HIDE DEF was
  <2> QED BY <2>1, <2>2, <2>3, <2>4
<1>8. was.was \cup was.rows \cup ToSet(was.todo) \subseteq Known
  BY DEF Known, Read
<1>9. tx.was \cup tx.rows \cup ToSet(tx.todo) \subseteq Known \cup {r}
  BY <1>2, <1>3, <1>4, <1>8 DEF With
<1> HIDE DEF was, a
<1>10. /\ DOMAIN publishing' = Publishers /\ \A q \in Publishers : Transaction(q)'
       /\ Known' \subseteq anchors' \cup Known \cup tx.was \cup tx.rows \cup ToSet(tx.todo)
  <2>1. Ids(anchors) \subseteq Ids(anchors') /\ Listing(tx.todo)
    BY <1>2, <1>4
  <2> QED BY <1>4, <1>5, <1>6, <1>7, <2>1, OneTransaction
<1>11. Known' \subseteq Known \cup {r}
  BY <1>9, <1>10 DEF Known
<1>12. \A c \in Known' : /\ \E b \in Known : Copies(c, b)
                         /\ c.row = "published" => canonical_anchor_document(c) \in medium'
  <2> TAKE c \in Known'
  <2>1. CASE c = r
    BY <1>3, <2>1
  <2>2. CASE c \in Known
    <3>1. Copies(c, c) /\ (c.row = "published" => canonical_anchor_document(c) \in medium)
      BY <2>2 DEF AnchorInv, Faithful, Anchored, Documented, Copies
    <3> QED BY <2>2, <3>1
  <2> QED BY <1>11, <2>1, <2>2
<1>13. Faithful(Known)'
  <2>1. \A m \in medium' \ medium : \E b \in Known : m = canonical_anchor_document(b)
    BY <1>3 DEF was, a
  <2> QED BY <1>12, <2>1, FaithfulKept DEF AnchorInv
<1> QED BY <1>10, <1>13 DEF AnchorInv

\* A commit writes whether an anchor is published, and nothing else of it.
LEMMA SavedOf ==
  ASSUME AnchorInv, NEW p \in Publishers, NEW a \in anchors
  PROVE  /\ Copies(Saved(p, a), a)
         /\ Saved(p, a).row = "published" => canonical_anchor_document(Saved(p, a)) \in medium
<1> DEFINE new == CHOOSE b \in publishing[p].rows : b.id = a.id
           was == CHOOSE b \in publishing[p].was : b.id = a.id
           to(x, y) == [a EXCEPT !.row = x, !.receipt = y]
<1>1. a \in Known /\ Anchored(a) /\ Documented(a)
  BY DEF Known, AnchorInv, Faithful
<1>2. CASE a.id \notin Ids(publishing[p].rows)
  <2>1. Saved(p, a) = a
    BY <1>2 DEF Saved
  <2> QED BY <1>1, <2>1 DEF Copies, Documented, Anchored
<1>3. CASE a.id \in Ids(publishing[p].rows)
  <2>1. new \in publishing[p].rows /\ new.id = a.id
    BY <1>3 DEF Ids
  <2>2. new \in Known
    BY <2>1 DEF Known, Read
  <2>3. Agree(new, a) /\ Documented(new)
    BY <1>1, <2>2 DEF AnchorInv, Faithful
  <2>4. Saved(p, a) = to(IF new.row # was.row THEN new.row ELSE a.row,
                         IF new.receipt # was.receipt THEN new.receipt ELSE a.receipt)
    BY <1>3 DEF Saved
  <2> HIDE DEF new, was
  <2>5. \A x, y : Copies(to(x, y), a) /\ to(x, y).row = x
    BY <1>1 DEF Anchored, Copies, Columns
  <2> HIDE DEF to
  <2>6. Copies(Saved(p, a), a) /\ Saved(p, a).row \in {new.row, a.row}
    BY <2>4, <2>5
  <2>7. /\ canonical_anchor_document(Saved(p, a)) = canonical_anchor_document(a)
        /\ canonical_anchor_document(new) = canonical_anchor_document(a)
    BY <2>1, <2>3, <2>6 DEF Copies, Agree, canonical_anchor_document, _object_key
  <2> QED BY <1>1, <2>3, <2>6, <2>7 DEF Documented
<1> QED BY <1>2, <1>3

\* publish_commit, create_audit_anchor
LEMMA PublishKeepsAnchors ==
  ASSUME ChainInv, ChainInv', Grows, AnchorInv, NEW p \in Publishers, Publishes(p),
         publishing' = [publishing EXCEPT ![p] = NoPublication], UNCHANGED medium
  PROVE  AnchorInv'
<1> DEFINE saved == {Saved(p, a) : a \in anchors}
           new == {a \in publishing[p].rows : a.id \notin Ids(anchors)}
<1>1. anchors' = saved \cup new
  BY DEF Publishes
<1>2. \A a \in anchors : /\ Copies(Saved(p, a), a)
                         /\ Saved(p, a).row = "published" => canonical_anchor_document(Saved(p, a)) \in medium
  BY SavedOf
<1>3. IsFiniteSet(anchors')
  <2>1. IsFiniteSet(saved)
    <3> DEFINE f == [a \in anchors |-> Saved(p, a)]
    <3>1. f \in Surjection(anchors, saved)
      BY DEF Surjection
    <3> QED BY <3>1, FS_Surjection DEF AnchorInv
  <2>2. IsFiniteSet(new)
    BY FS_Subset DEF AnchorInv, Transaction
  <2> QED BY <1>1, <2>1, <2>2, FS_Union
<1>4. Ids(anchors) \subseteq Ids(anchors')
  BY <1>1, <1>2 DEF Ids, Copies
<1>5. /\ DOMAIN publishing' = Publishers /\ \A q \in Publishers : Transaction(q)'
      /\ Known' \subseteq anchors' \cup Known
  <2>1. Ids(ToSet(NoPublication.todo)) \cup Ids(NoPublication.was)
          \subseteq Ids(anchors') \cup Ids(NoPublication.rows)
    BY NoTransaction DEF Ids
  <2>2. /\ DOMAIN publishing' = Publishers /\ \A q \in Publishers : Transaction(q)'
        /\ Known' \subseteq anchors' \cup Known \cup NoPublication.was \cup NoPublication.rows
                            \cup ToSet(NoPublication.todo)
    BY <1>4, <2>1, NoTransaction, OneTransaction
  <2> QED BY <2>2, NoTransaction
<1>6. new \subseteq Known /\ anchors \subseteq Known
  BY DEF Known, Read
<1>7. \A c \in Known : Copies(c, c) /\ (c.row = "published" => canonical_anchor_document(c) \in medium)
  BY DEF AnchorInv, Faithful, Anchored, Documented, Copies
<1>8. \A c \in Known' : /\ \E b \in Known : Copies(c, b)
                        /\ c.row = "published" => canonical_anchor_document(c) \in medium'
  <2> TAKE c \in Known'
  <2>1. CASE c \in saved
    <3>1. PICK a \in anchors : c = Saved(p, a)
      BY <2>1
    <3> QED BY <1>2, <1>6, <3>1
  <2>2. CASE c \in Known
    BY <1>7, <2>2
  <2> HIDE DEF saved, new
  <2> QED BY <1>1, <1>5, <1>6, <2>1, <2>2
<1>9. Faithful(Known)'
  BY <1>8, FaithfulKept DEF AnchorInv
<1> QED BY <1>3, <1>5, <1>9 DEF AnchorInv

\* publish_pending: a document is on the medium before its anchor is called published.
LEMMA PendingStep ==
  ASSUME ChainInv, ChainInv', Grows, AnchorInv, NEW p \in Publishers, publish_pending(p)
  PROVE  AnchorInv'
<1> DEFINE a == Head(publishing[p].todo)
           row == Selected(p, a)
           Wrote(r) == publishing' = [publishing EXCEPT ![p] = Told(publishing[p], row, r)]
<1>1. publishing[p].todo # <<>> /\ UNCHANGED anchors
  BY DEF publish_pending
<1>2. a \in ToSet(publishing[p].todo)
  BY <1>1, HeadTailListing DEF AnchorInv, Transaction
<1>3. /\ a \in Known /\ row \in Known /\ row.id = a.id
      /\ row.event_count = a.event_count /\ row.root = a.root
  BY <1>2, SelectedOf
<1>4. DOMAIN row = Columns
  BY <1>3 DEF AnchorInv, Faithful, Anchored
<1>5. \/ /\ publishable(a) /\ medium' = medium \cup put_document(a)
         /\ Wrote([row EXCEPT !.row = "published", !.receipt = a.id])
      \/ Wrote([row EXCEPT !.row = "pending"]) /\ UNCHANGED medium
      \/ publishing' = [publishing EXCEPT ![p] = NoPublication] /\ UNCHANGED medium
  BY Zenon DEF publish_pending, Told
<1>6. ASSUME publishable(a), medium' = medium \cup put_document(a),
             Wrote([row EXCEPT !.row = "published", !.receipt = a.id])
      PROVE  AnchorInv'
  <2> DEFINE r == [row EXCEPT !.row = "published", !.receipt = a.id]
  <2>1. Copies(r, row)
    BY <1>4 DEF Copies, Columns
  <2>2. canonical_anchor_document(r) = canonical_anchor_document(a)
    BY <1>3, <2>1 DEF Copies, canonical_anchor_document, _object_key
  <2>3. canonical_anchor_document(a) \in medium'
    <3>1. CASE put_document(a) = {canonical_anchor_document(a)}
      BY <1>6, <3>1
    <3>2. CASE budget.backend # "s3" /\ \E m \in medium : m.key = _object_key(a)
      <4>1. PICK m \in medium : m.key = _object_key(a)
        BY <3>2
      <4>2. m.id = a.id /\ m = [key |-> m.key, id |-> m.id]
        BY <1>6, <3>2, <4>1 DEF publishable, AnchorInv, Faithful
      <4> QED BY <1>6, <4>1, <4>2 DEF canonical_anchor_document
    <3> QED BY <3>1, <3>2 DEF put_document
  <2>4. medium \subseteq medium' /\ medium' \ medium \subseteq {canonical_anchor_document(a)}
    BY <1>6 DEF put_document
  <2>5. Wrote(r)
    BY <1>6
  <2>6. row = Selected(p, Head(publishing[p].todo)) /\ (r.row = "published" => canonical_anchor_document(r) \in medium')
    BY <2>2, <2>3
  <2> HIDE DEF r, row
  <2> QED BY <1>1, <2>1, <2>4, <2>5, <2>6, TellKeepsAnchors
<1>7. ASSUME Wrote([row EXCEPT !.row = "pending"]), UNCHANGED medium
      PROVE  AnchorInv'
  <2> DEFINE r == [row EXCEPT !.row = "pending"]
  <2>1. Copies(r, row) /\ r.row # "published"
    BY <1>4 DEF Copies, Columns
  <2>2. Wrote(r) /\ medium \subseteq medium' /\ medium' \ medium \subseteq {canonical_anchor_document(a)}
    BY <1>7
  <2>3. row = Selected(p, Head(publishing[p].todo)) /\ (r.row = "published" => canonical_anchor_document(r) \in medium')
    BY <2>1
  <2> HIDE DEF r, row
  <2> QED BY <1>1, <2>1, <2>2, <2>3, TellKeepsAnchors
<1>8. ASSUME publishing' = [publishing EXCEPT ![p] = NoPublication], UNCHANGED medium
      PROVE  AnchorInv'
  BY <1>1, <1>8, CrashKeepsAnchors
<1> HIDE DEF row, a
<1> QED BY <1>5, <1>6, <1>7, <1>8

LEMMA AnchorStep == ChainInv /\ AnchorInv /\ [Next]_vars => AnchorInv'
<1> SUFFICES ASSUME ChainInv, AnchorInv, [Next]_vars PROVE AnchorInv'
  OBVIOUS
<1>1. ChainInv' /\ Grows
  BY ChainStep
<1>2. Replicas \subseteq Publishers /\ "operator" \in Publishers
  BY DEF Publishers
<1>3. CASE \E t \in Txns : record(t) \/ commit(t) \/ rollback(t)
  <2>1. UNCHANGED <<anchors, medium, publishing>>
    BY <1>3, Zenon DEF record, commit, rollback
  <2> QED BY <1>1, <2>1, AnchorsKept
<1>4. ASSUME NEW p \in Replicas, _publish_once(p) PROVE AnchorInv'
  <2> DEFINE fresh == ensure_current_anchor
             todo == _unpublished_anchors \cup fresh
  <2>1. PICK list \in SetToSeqs(todo) :
          publishing' = [publishing EXCEPT ![p] =
                           [on |-> TRUE, todo |-> list, was |-> fresh, rows |-> fresh]]
    BY <1>4, Zenon DEF _publish_once
  <2>2. fresh = {} \/ (fresh = {create_anchor} /\ events # {})
    BY AnchorIfLonger
  <2>3. IsFiniteSet(fresh)
    <3>1. IsFiniteSet({}) /\ IsFiniteSet({create_anchor})
      BY FS_EmptySet, FS_Singleton, Zenon
    <3> QED BY <2>2, <3>1, Zenon
  <2>4. todo \subseteq anchors \cup fresh
    BY DEF _unpublished_anchors
  <2> HIDE DEF todo, fresh
  <2>5. IsFiniteSet(todo)
    <3>1. IsFiniteSet(anchors \cup fresh)
      BY <2>3, FS_Union DEF AnchorInv
    <3> QED BY <2>4, <3>1, FS_Subset
  <2>6. Listing(list) /\ ToSet(list) \subseteq anchors \cup fresh
    BY <2>4, <2>5, ListOfAll
  <2>7. UNCHANGED <<anchors, medium>>
    BY <1>4 DEF _publish_once
  <2> QED BY <1>1, <1>2, <2>1, <2>2, <2>6, <2>7, LoadKeepsAnchors
<1>5. ASSUME NEW p \in Replicas, publish_pending(p) PROVE AnchorInv'
  BY <1>1, <1>2, <1>5, PendingStep
<1>6. ASSUME NEW p \in Replicas, publish_commit(p) PROVE AnchorInv'
  <2>1. Publishes(p) /\ publishing' = [publishing EXCEPT ![p] = NoPublication] /\ UNCHANGED medium
    BY <1>6 DEF publish_commit
  <2> QED BY <1>1, <1>2, <2>1, PublishKeepsAnchors
<1>7. ASSUME NEW p \in Replicas, publisher_crashes(p) PROVE AnchorInv'
  <2>1. publishing' = [publishing EXCEPT ![p] = NoPublication] /\ UNCHANGED <<anchors, medium>>
    BY <1>7 DEF publisher_crashes
  <2> QED BY <1>1, <1>2, <2>1, CrashKeepsAnchors
<1>8. CASE create_audit_anchor_load
  <2> DEFINE fresh == {create_anchor}
  <2>1. /\ events # {} /\ UNCHANGED <<anchors, medium>>
        /\ publishing' = [publishing EXCEPT !["operator"] =
                            [on |-> TRUE, todo |-> <<>>, was |-> fresh, rows |-> fresh]]
    BY <1>8, Zenon DEF create_audit_anchor_load
  <2>2. fresh = {create_anchor} /\ Listing(<<>>) /\ ToSet(<<>>) \subseteq anchors \cup fresh
    BY NoTransaction DEF NoPublication
  <2> HIDE DEF fresh
  <2> QED BY <1>1, <1>2, <2>1, <2>2, LoadKeepsAnchors
<1>9. CASE create_audit_anchor
  <2>1. /\ Publishes("operator") /\ publishing' = [publishing EXCEPT !["operator"] = NoPublication]
        /\ UNCHANGED medium
    BY <1>9 DEF create_audit_anchor
  <2> QED BY <1>1, <1>2, <2>1, PublishKeepsAnchors
<1>10. CASE UNCHANGED <<anchors, medium, publishing>>
  BY <1>1, <1>10, AnchorsKept
<1> QED BY <1>3, <1>4, <1>5, <1>6, <1>7, <1>8, <1>9, <1>10, VaultSteps, Zenon DEF ChainNext, Publishing

LEMMA ChainInitial == Init => ChainInv
<1> SUFFICES ASSUME Init PROVE ChainInv
  OBVIOUS
<1>1. events = {} /\ open = [t \in Txns |-> <<>>] /\ ended = {}
  BY DEF Init, ChainInit
<1>2. Chain({}, 0)
  BY DEF Chain, Numbered, Linked
<1>3. Chain(events, Height)
  BY <1>1, <1>2, LastOf DEF Height
<1>4. Continues(events, <<>>)
  BY <1>3, NothingRecorded
<1> QED BY <1>1, <1>3, <1>4 DEF ChainInv

LEMMA AnchorInitial == Init => AnchorInv
<1> SUFFICES ASSUME Init PROVE AnchorInv
  OBVIOUS
<1>1. anchors = {} /\ medium = {} /\ publishing = [p \in Publishers |-> NoPublication]
  BY DEF Init, ChainInit, Publishers
<1>2. \A p \in Publishers : publishing[p] = NoPublication
  BY <1>1
<1>3. Known = {}
  BY <1>1, <1>2, NoTransaction DEF Known, Read
<1>4. Faithful(Known)
  <2>1. 0 \in Nat
    OBVIOUS
  <2> QED BY <1>1, <1>3, <2>1 DEF Faithful
<1>5. \A p \in Publishers : Transaction(p)
  BY <1>2, NoTransaction DEF Transaction, Ids
<1> QED BY <1>1, <1>4, <1>5, FS_EmptySet DEF AnchorInv

\* verify_anchor
LEMMA AnchorTrue ==
  ASSUME ChainInv, NEW a, Anchored(a)
  PROVE  verify_anchor(a)
<1> DEFINE n == a.event_count
           covered == Upto(events, n)
<1>1. Chain(events, Height) /\ Numbered(events, Height) /\ Height \in Nat
  BY LastOf DEF ChainInv, Chain
<1>2. n \in 1..Height /\ n \in 0..Height /\ n \in 1..n
  BY <1>1 DEF Anchored
<1>3. Chain(covered, n) /\ Numbered(covered, n)
  BY <1>1, <1>2, PrefixChain DEF Chain
<1>4. At(covered, n) = At(events, n)
  <2>1. At(covered, n) \in covered /\ At(covered, n).seq = n
    BY <1>2, <1>3, RowAt
  <2>2. \A e \in events : e.seq = n => e = At(events, n)
    BY <1>1, <1>2, RowAt
  <2> QED BY <2>1, <2>2 DEF Upto
<1> HIDE DEF n
<1>5. Cardinality(covered) = n /\ _chain_tail(covered).hash = At(covered, n).event_hash
  BY <1>2, <1>3, Counted, TailOf
<1> QED BY <1>4, <1>5 DEF verify_anchor, Anchored, n

LEMMA ChainUnbrokenThen == ChainInv /\ AnchorInv => ChainUnbroken
<1> SUFFICES ASSUME ChainInv, AnchorInv PROVE ChainUnbroken
  OBVIOUS
<1>1. verify_chain(events) /\ "conflict" \notin ended
  BY ChainVerifies DEF ChainInv
<1>2. \A a \in anchors : Anchored(a) /\ Documented(a)
  BY DEF AnchorInv, Known, Faithful
<1>3. \A a \in anchors : verify_anchor(a)
  BY <1>2, AnchorTrue
<1> QED BY <1>1, <1>2, <1>3 DEF ChainUnbroken, Documented

LEMMA ChainInvariant == Spec => [](ChainInv /\ AnchorInv)
<1>1. Init => ChainInv /\ AnchorInv
  BY ChainInitial, AnchorInitial
<1>2. ChainInv /\ AnchorInv /\ [Next]_vars => (ChainInv /\ AnchorInv)'
  BY ChainStep, AnchorStep
<1> QED BY <1>1, <1>2, PTL DEF Spec

(* However transactions overlap, fail and are rolled back, and wherever a publisher
   ends: the committed events form one chain, no commit is refused, every anchor is
   true of the chain as it has grown since, and one that is called published has its
   document on the medium (core/audit.py, anchor.py, anchor_publish.py). *)
THEOREM ChainStaysWhole == Spec => []ChainUnbroken
BY ChainInvariant, ChainUnbrokenThen, PTL

-----------------------------------------------------------------------------
(* One publisher alone. *)

Solo == Cardinality(budget.replicas) <= 1
Matched(a) == a.row = "published" <=> a.receipt # None
Distinct(S) == \A a, b \in S : a.id = b.id => a = b

\* What the only publisher has read is what the table holds.
AsRead(tx, table) ==
  /\ \A i, j \in DOMAIN tx.todo : tx.todo[i].id = tx.todo[j].id => i = j
  /\ \A a \in ToSet(tx.todo) :
       a.row # "published" /\ \A b \in tx.rows \cup table : b.id = a.id => b = a
  /\ \A w \in tx.was, a \in table : w.id = a.id => w = a
  /\ Ids(tx.rows) \subseteq Ids(tx.was)
  /\ Distinct(tx.rows)

Alone ==
  /\ \A a \in Known : Matched(a)
  /\ Distinct(anchors)
  /\ \A p \in budget.replicas : AsRead(publishing[p], anchors)
  /\ \A p \in Replicas \ budget.replicas : publishing[p] = NoPublication
  /\ publishing["operator"].todo = <<>> /\ Distinct(publishing["operator"].rows)
  /\ \A b \in publishing["operator"].rows : b.id \notin Ids(anchors)
  /\ \A p \in Replicas, b \in publishing["operator"].rows :
       b.id \notin Ids(anchors) \cup Ids(publishing[p].rows)

Limits == [backend : {"filesystem", "s3"}, replicas : SUBSET Replicas, handlers : Nat,
           clock : Nat, sweeps : BOOLEAN, ops : [Ops -> Nat]]

AloneInv == budget \in Limits /\ (Solo => Alone)

\* A handler that builds a bundle asks for events that were there.
Asks(h) == h.op \in {"export", "stored"} => h.through \in 1..Height

AnswerInv == NoFalseAlarm /\ \A h \in handlers : Asks(h)

-----------------------------------------------------------------------------
(* The chain accounts for holds and disposals. *)

RowColumns == {"state", "package", "version", "until", "backend_legal_hold", "integrity"}
Scopes == RecordIds \cup {0}

Placed(p) == p.what.action = "placed"
ReleasedIn(log, k) == \E q \in log : q.what.action = "released" /\ q.what.hold = k

\* The events up to the one that was last when the disposal was checked.
Disposable(r, seen) ==
  /\ r \in RecordIds /\ seen \in 0..Height
  /\ rows[r].state # "absent" /\ rows[r].until <= now
  /\ \A p \in Upto(events, seen) :
       Placed(p) /\ p.what.rec \in {0, r} => ReleasedIn(Upto(events, seen), p.what.hold)

HandlerOK(h) ==
  /\ h.op \in {"export", "placed", "released", "verified", "sweep", "stored", "deleted"}
  /\ h.op \in {"placed", "released", "verified", "sweep"} =>
       DOMAIN h = {"op", "hold", "status", "scope", "todo", "verified", "was", "new"}
  /\ h.op = "placed" => /\ h.hold \in HoldIds /\ h.status = "active" /\ h.scope \in Scopes
                        /\ holds[h.hold].status = "absent"
  /\ h.op = "released" => /\ h.hold \in HoldIds /\ h.status = "released"
                          /\ holds[h.hold].status # "absent" /\ holds[h.hold].scope = h.scope
  /\ h.op = "stored" => /\ DOMAIN h = {"op", "rec", "through", "step", "package", "until", "held"}
                        /\ h.rec \in RecordIds /\ h.until \in Nat /\ rows[h.rec].state = "absent"
  /\ h.op = "deleted" => DOMAIN h = {"op", "rec", "step", "seen"} /\ Disposable(h.rec, h.seen)

LedgerInv ==
  /\ now \in Nat
  /\ DOMAIN rows = RecordIds /\ \A r \in RecordIds : DOMAIN rows[r] = RowColumns /\ rows[r].until \in Nat
  /\ holds \in [HoldIds -> [status : {"absent", "active", "released"}, scope : Scopes]]
  /\ \A h \in handlers : HandlerOK(h)
  /\ \A g, h \in handlers : g.op = "placed" /\ h.op = "placed" /\ g.hold = h.hold => g = h
  /\ \A g, h \in handlers : g.op = "stored" /\ h.op = "stored" /\ g.rec = h.rec => g = h
  /\ \A p \in events : Placed(p) =>
       /\ p.what.hold \in HoldIds
       /\ holds[p.what.hold].status # "absent" /\ holds[p.what.hold].scope = p.what.rec
  /\ \A k \in HoldIds : holds[k].status = "released" => ReleasedIn(events, k)
  /\ \A d \in events : d.what.action = "deleted" => Disposable(d.what.rec, d.what.seen)

\* What was explained stays explained: the prefix of the chain that was read is fixed.
LEMMA DisposableKept ==
  ASSUME ChainInv, ChainInv', Grows, NEW r, NEW seen, Disposable(r, seen),
         now \in Nat, now' \in Nat, now <= now', rows[r].until \in Nat,
         rows'[r].state # "absent", rows'[r].until = rows[r].until
  PROVE  Disposable(r, seen)'
<1>1. /\ Height \in Nat /\ Height' \in Nat /\ Height <= Height'
      /\ \A k \in 0..Height : Upto(events', k) = Upto(events, k)
  BY PrefixKept DEF Grows
<1>2. seen \in 0..Height /\ seen \in 0..Height'
  BY <1>1 DEF Disposable
<1>3. Upto(events', seen) = Upto(events, seen)
  BY <1>1, <1>2
<1>4. rows'[r].until <= now'
  BY DEF Disposable
<1> QED BY <1>2, <1>3, <1>4 DEF Disposable

Conflict(f, g) == \/ f.op = "placed" /\ g.op = "placed" /\ f.hold = g.hold
                  \/ f.op = "stored" /\ g.op = "stored" /\ f.rec = g.rec

\* A row keeps its state and its retention.
SameRows ==
  /\ DOMAIN rows' = RecordIds
  /\ \A r \in RecordIds : /\ DOMAIN rows'[r] = RowColumns
                          /\ rows'[r].state = rows[r].state /\ rows'[r].until = rows[r].until

\* A step that neither places a hold nor disposes of a package nor stores one.
LEMMA LedgerKept ==
  ASSUME ChainInv, ChainInv', Grows, LedgerInv, now' \in Nat, now <= now', SameRows,
         holds' = holds, \A e \in events' \ events : e.what.action \notin {"placed", "deleted"},
         NEW G, handlers' \subseteq handlers \cup G,
         \A g \in G : HandlerOK(g) /\ \A f \in handlers' : Conflict(f, g) => f = g
  PROVE  LedgerInv'
<1>1. ASSUME NEW r, NEW seen, Disposable(r, seen) PROVE Disposable(r, seen)'
  <2>1. /\ r \in RecordIds /\ now \in Nat /\ rows[r].until \in Nat
        /\ rows'[r].state # "absent" /\ rows'[r].until = rows[r].until
    BY <1>1 DEF Disposable, SameRows, LedgerInv
  <2> QED BY <1>1, <2>1, DisposableKept
<1>2. ASSUME NEW h, HandlerOK(h) PROVE HandlerOK(h)'
  <2>1. h.op = "stored" => h.rec \in RecordIds /\ rows'[h.rec].state = "absent"
    BY <1>2 DEF HandlerOK, SameRows
  <2>2. h.op = "deleted" => Disposable(h.rec, h.seen)'
    BY <1>1, <1>2 DEF HandlerOK
  <2> QED BY <1>2, <2>1, <2>2 DEF HandlerOK
<1>3. \A h \in handlers' : HandlerOK(h)'
  BY <1>2 DEF LedgerInv
<1>4. \A f, g \in handlers' : Conflict(f, g) => f = g
  <2>1. \A f, g \in handlers : Conflict(f, g) => f = g
    BY DEF LedgerInv, Conflict
  <2>2. \A f, g : Conflict(f, g) => Conflict(g, f)
    BY DEF Conflict
  <2> QED BY <2>1, <2>2
<1>5. /\ \A f, g \in handlers' : f.op = "placed" /\ g.op = "placed" /\ f.hold = g.hold => f = g
      /\ \A f, g \in handlers' : f.op = "stored" /\ g.op = "stored" /\ f.rec = g.rec => f = g
  BY <1>4 DEF Conflict
<1>6. events \subseteq events'
  BY DEF Grows
<1>7. \A p \in events' : Placed(p) =>
        /\ p.what.hold \in HoldIds
        /\ holds'[p.what.hold].status # "absent" /\ holds'[p.what.hold].scope = p.what.rec
  BY DEF LedgerInv, Placed
<1>8. \A k \in HoldIds : holds'[k].status = "released" => ReleasedIn(events', k)
  BY <1>6 DEF LedgerInv, ReleasedIn
<1>9. \A d \in events' : d.what.action = "deleted" => Disposable(d.what.rec, d.what.seen)'
  BY <1>1 DEF LedgerInv
<1>10. \A r \in RecordIds : rows'[r].until \in Nat
  BY DEF SameRows, LedgerInv
<1>11. holds' \in [HoldIds -> [status : {"absent", "active", "released"}, scope : Scopes]]
  BY DEF LedgerInv
<1> QED BY <1>3, <1>5, <1>7, <1>8, <1>9, <1>10, <1>11 DEF LedgerInv, SameRows, Placed

Context == ChainInv /\ ChainInv' /\ Grows /\ LedgerInv

\* Of the rows and the holds nothing is changed, and events of no concern are added.
LEMMA LedgerAside ==
  ASSUME Context, UNCHANGED <<now, rows, holds>>,
         \A e \in events' \ events : e.what.action \notin {"placed", "deleted"},
         NEW G, handlers' \subseteq handlers \cup G,
         \A g \in G : HandlerOK(g) /\ \A f \in handlers' : Conflict(f, g) => f = g
  PROVE  LedgerInv'
<1>1. ChainInv /\ ChainInv' /\ Grows /\ LedgerInv /\ holds' = holds
  BY DEF Context
<1>2. SameRows /\ now' \in Nat /\ now <= now'
  BY <1>1 DEF SameRows, LedgerInv
<1> QED BY <1>1, <1>2, LedgerKept

LEMMA HandlersFewer ==
  ASSUME Context, UNCHANGED <<now, rows, holds>>,
         \A e \in events' \ events : e.what.action \notin {"placed", "deleted"},
         handlers' \subseteq handlers
  PROVE  LedgerInv'
<1> DEFINE G == {}
<1>1. handlers' \subseteq handlers \cup G /\ \A g \in G : HandlerOK(g) /\ \A f \in handlers' : Conflict(f, g) => f = g
  OBVIOUS
<1> HIDE DEF G
<1> QED BY <1>1, LedgerAside

\* Transactions that audit, and anchors.
LEMMA ChainLedger ==
  ASSUME Context, ChainNext, UNCHANGED vaultVars
  PROVE  LedgerInv'
<1>1. UNCHANGED <<now, rows, holds, handlers>>
  BY DEF vaultVars
<1>2. ChainInv
  BY DEF Context
<1>3. \A e \in events' \ events : e.what.action \in {"handled", "anchored"}
  <2>1. ASSUME NEW t \in Txns, record(t) \/ rollback(t) PROVE events' = events
    BY <2>1, Zenon DEF record, rollback
  <2>2. ASSUME NEW t \in Txns, commit(t) PROVE \A e \in events' \ events : e.what.action = "handled"
    BY <1>2, <2>2, CommitStep
  <2>3. ASSUME NEW p \in Replicas, Publishing(p) \/ publisher_crashes(p) PROVE events' = events
    BY <2>3, Zenon DEF Publishing, publisher_crashes, _publish_once, publish_pending, publish_commit
  <2>4. CASE create_audit_anchor_load
    BY <2>4, Zenon DEF create_audit_anchor_load
  <2>5. CASE create_audit_anchor
    <3>1. Audits(What("anchored", 0, 0, 0)) /\ UNCHANGED <<open, ended>>
      BY <2>5 DEF create_audit_anchor
    <3>2. \A e \in events' \ events : e.what = What("anchored", 0, 0, 0)
      BY <1>2, <3>1, AuditsKept
    <3> QED BY <3>2 DEF What
  <2> QED BY <2>1, <2>2, <2>3, <2>4, <2>5 DEF ChainNext
<1> QED BY <1>1, <1>3, HandlersFewer

\* A handler begins: what it has read is so.
LEMMA BeginsLedger ==
  ASSUME Context, NEW g, HandlerOK(g), Start(g), UNCHANGED <<now, rows, holds, events>>,
         \A f \in handlers : Conflict(f, g) => f = g
  PROVE  LedgerInv'
<1> DEFINE G == {g}
<1>1. handlers' \subseteq handlers \cup G
  BY DEF Start
<1>2. \A x \in G : HandlerOK(x) /\ \A f \in handlers' : Conflict(f, x) => f = x
  BY <1>1
<1>3. \A e \in events' \ events : e.what.action \notin {"placed", "deleted"}
  OBVIOUS
<1>4. UNCHANGED <<now, rows, holds>>
  OBVIOUS
<1> HIDE DEF G
<1> QED BY <1>1, <1>2, <1>3, <1>4, LedgerAside

\* A handler goes on: it is still what it was.
Resembles(g, h) ==
  /\ DOMAIN g = DOMAIN h /\ g.op = h.op
  /\ h.op \in {"placed", "released", "verified", "sweep"} =>
       g.hold = h.hold /\ g.status = h.status /\ g.scope = h.scope
  /\ h.op = "stored" => g.rec = h.rec /\ g.until \in Nat
  /\ h.op = "deleted" => g.rec = h.rec /\ g.seen = h.seen

LEMMA GoesOnLedger ==
  ASSUME Context, NEW h \in handlers, NEW g, Resembles(g, h), Becomes(h, g),
         UNCHANGED <<now, rows, holds, events>>
  PROVE  LedgerInv'
<1> DEFINE G == {g}
<1>1. HandlerOK(h) /\ \A e, f \in handlers : Conflict(e, f) => e = f
  BY DEF Context, LedgerInv, Conflict
<1>2. HandlerOK(g)
  BY <1>1 DEF HandlerOK, Resembles
<1>3. handlers' = (handlers \ {h}) \cup G
  BY DEF Becomes
<1>4. \A f : Conflict(f, g) => Conflict(f, h)
  BY DEF Conflict, Resembles
<1>5. \A x \in G : HandlerOK(x) /\ \A f \in handlers' : Conflict(f, x) => f = x
  BY <1>1, <1>2, <1>3, <1>4
<1>6. \A e \in events' \ events : e.what.action \notin {"placed", "deleted"}
  OBVIOUS
<1>7. UNCHANGED <<now, rows, holds>> /\ handlers' \subseteq handlers \cup G
  BY <1>3
<1> HIDE DEF G
<1> QED BY <1>5, <1>6, <1>7, LedgerAside

LEMMA BatchIs ==
  ASSUME NEW op, NEW hold, NEW todo
  PROVE  LET b == Batch(op, hold, todo) IN
         /\ DOMAIN b = {"op", "hold", "status", "scope", "todo", "verified", "was", "new"}
         /\ b.op = op /\ b.hold = hold.id /\ b.status = hold.status /\ b.scope = hold.scope
BY DEF Batch

\* Handlers that begin.
LEMMA LoadLedger ==
  ASSUME Context,
         \/ export_load \/ store_evidence_load \/ sweep
         \/ \E k \in HoldIds : \/ \E scope \in RecordIds \cup {0} : place_legal_hold_load(k, scope)
                               \/ release_legal_hold_load(k)
         \/ \E r \in RecordIds : verify_evidence_load(r)
  PROVE  LedgerInv'
<1>1. LedgerInv /\ Stored \subseteq RecordIds
  BY DEF Context, Stored
<1>2. CASE export_load
  <2>1. PICK through \in 1..Tail_seq(events) : Start([op |-> "export", through |-> through])
    BY <1>2, Zenon DEF export_load
  <2>2. UNCHANGED <<now, rows, holds, events>>
    BY <1>2, Zenon DEF export_load, chainVars
  <2> DEFINE g == [op |-> "export", through |-> through]
  <2>3. g.op = "export"
    OBVIOUS
  <2>4. Start(g)
    BY <2>1
  <2> HIDE DEF g
  <2>5. HandlerOK(g) /\ \A f \in handlers : Conflict(f, g) => f = g
    BY <2>3 DEF HandlerOK, Conflict
  <2> QED BY <2>2, <2>4, <2>5, BeginsLedger
<1>3. CASE store_evidence_load
  <2>1. PICK r \in RecordIds, through \in 1..Tail_seq(events) :
          /\ rows[r].state = "absent" /\ \A h \in handlers : h.op = "stored" => h.rec # r
          /\ Start([op |-> "stored", rec |-> r, through |-> through, step |-> "load",
                    package |-> <<>>, until |-> 0, held |-> FALSE])
    BY <1>3, Zenon DEF store_evidence_load
  <2>2. UNCHANGED <<now, rows, holds, events>>
    BY <1>3, Zenon DEF store_evidence_load, chainVars
  <2> DEFINE g == [op |-> "stored", rec |-> r, through |-> through, step |-> "load",
                   package |-> <<>>, until |-> 0, held |-> FALSE]
  <2>3. /\ g.op = "stored" /\ g.rec = r /\ g.until = 0
        /\ DOMAIN g = {"op", "rec", "through", "step", "package", "until", "held"}
    OBVIOUS
  <2>4. Start(g)
    BY <2>1
  <2> HIDE DEF g
  <2>5. HandlerOK(g) /\ \A f \in handlers : Conflict(f, g) => f = g
    BY <2>1, <2>3 DEF HandlerOK, Conflict
  <2> QED BY <2>2, <2>4, <2>5, BeginsLedger
<1>4. CASE sweep
  <2> DEFINE g == Batch("sweep", NoHold, Jobs(FirstOf(Listed(drifted)), FALSE) \o Jobs(verify_queue, TRUE))
  <2>1. Start(g) /\ UNCHANGED <<now, rows, holds, events>>
    BY <1>4, Zenon DEF sweep, chainVars
  <2>2. g.op = "sweep" /\ DOMAIN g = {"op", "hold", "status", "scope", "todo", "verified", "was", "new"}
    BY BatchIs, Zenon
  <2> HIDE DEF g
  <2>3. HandlerOK(g) /\ \A f \in handlers : Conflict(f, g) => f = g
    BY <2>2 DEF HandlerOK, Conflict
  <2> QED BY <2>1, <2>3, BeginsLedger
<1>5. ASSUME NEW k \in HoldIds, NEW scope \in RecordIds \cup {0}, place_legal_hold_load(k, scope)
      PROVE  LedgerInv'
  <2> DEFINE hold == [id |-> k, status |-> "active", scope |-> scope]
             todo == Jobs(Listed(_covered_records(scope)), FALSE)
             g == Batch("placed", hold, todo)
  <2>1. Start(g) /\ UNCHANGED <<now, rows, holds, events>>
    BY <1>5, Zenon DEF place_legal_hold_load, chainVars
  <2>h. hold.id = k /\ hold.status = "active" /\ hold.scope = scope
    OBVIOUS
  <2> HIDE DEF hold, todo
  <2>2. /\ g.op = "placed" /\ g.hold = k /\ g.status = "active" /\ g.scope = scope
        /\ DOMAIN g = {"op", "hold", "status", "scope", "todo", "verified", "was", "new"}
    BY <2>h, BatchIs
  <2>3. /\ holds[k].status = "absent" /\ \A h \in handlers : h.op = "placed" => h.hold # k
        /\ scope \in Scopes
    BY <1>1, <1>5, Zenon DEF place_legal_hold_load, Scopes
  <2> HIDE DEF g
  <2>4. HandlerOK(g) /\ \A f \in handlers : Conflict(f, g) => f = g
    BY <2>2, <2>3 DEF HandlerOK, Conflict
  <2> QED BY <2>1, <2>4, BeginsLedger
<1>6. ASSUME NEW k \in HoldIds, release_legal_hold_load(k) PROVE LedgerInv'
  <2> DEFINE hold == [id |-> k, status |-> "released", scope |-> holds[k].scope]
             todo == Jobs(Listed(_covered_records(holds[k].scope)), FALSE)
             g == Batch("released", hold, todo)
  <2>1. Start(g) /\ UNCHANGED <<now, rows, holds, events>>
    BY <1>6, Zenon DEF release_legal_hold_load, chainVars
  <2>h. hold.id = k /\ hold.status = "released" /\ hold.scope = holds[k].scope
    OBVIOUS
  <2> HIDE DEF hold, todo
  <2>2. /\ g.op = "released" /\ g.hold = k /\ g.status = "released" /\ g.scope = holds[k].scope
        /\ DOMAIN g = {"op", "hold", "status", "scope", "todo", "verified", "was", "new"}
    BY <2>h, BatchIs
  <2>3. holds[k].status = "active"
    BY <1>6, Zenon DEF release_legal_hold_load
  <2> HIDE DEF g
  <2>4. HandlerOK(g) /\ \A f \in handlers : Conflict(f, g) => f = g
    BY <2>2, <2>3 DEF HandlerOK, Conflict
  <2> QED BY <2>1, <2>4, BeginsLedger
<1>7. ASSUME NEW r \in RecordIds, verify_evidence_load(r) PROVE LedgerInv'
  <2> DEFINE g == Batch("verified", NoHold, Jobs(<<r>>, TRUE))
  <2>1. Start(g) /\ UNCHANGED <<now, rows, holds, events>>
    BY <1>7, Zenon DEF verify_evidence_load, chainVars
  <2>2. g.op = "verified" /\ DOMAIN g = {"op", "hold", "status", "scope", "todo", "verified", "was", "new"}
    BY BatchIs, Zenon
  <2> HIDE DEF g
  <2>3. HandlerOK(g) /\ \A f \in handlers : Conflict(f, g) => f = g
    BY <2>2 DEF HandlerOK, Conflict
  <2> QED BY <2>1, <2>3, BeginsLedger
<1> QED BY <1>2, <1>3, <1>4, <1>5, <1>6, <1>7, Zenon

\* reconcile_hold, store_package, dispose_record
LEMMA StorageCallLedger ==
  ASSUME Context, NEW h \in handlers, StorageCall(h)
  PROVE  LedgerInv'
<1>1. LedgerInv /\ HandlerOK(h)
  BY DEF Context, LedgerInv
<1>2. UNCHANGED <<now, rows, holds, events>>
  BY Zenon DEF StorageCall, reconcile_hold, store_package, dispose_record, chainVars
<1>3. CASE handlers' \subseteq handlers
  BY <1>2, <1>3, HandlersFewer
<1>4. CASE reconcile_hold(h)
  <2> DEFINE r == Head(h.todo).rec
  <2>1. PICK tail, held, found :
          Becomes(h, [h EXCEPT !.todo = tail, !.new[r].backend_legal_hold = held, !.new[r].integrity = found])
    BY <1>4, Zenon DEF reconcile_hold
  <2> DEFINE g == [h EXCEPT !.todo = tail, !.new[r].backend_legal_hold = held, !.new[r].integrity = found]
  <2>2. h.op \in {"placed", "released", "verified", "sweep"}
    BY <1>4, Zenon DEF reconcile_hold
  <2>3. DOMAIN h = {"op", "hold", "status", "scope", "todo", "verified", "was", "new"}
    BY <1>1, <2>2 DEF HandlerOK
  <2>4. Resembles(g, h)
    BY <2>2, <2>3 DEF Resembles
  <2>5. Becomes(h, g)
    BY <2>1
  <2> HIDE DEF g
  <2> QED BY <1>2, <2>4, <2>5, GoesOnLedger
<1>5. CASE store_package(h)
  <2>1. ASSUME NEW step, NEW package, NEW held,
               Becomes(h, [h EXCEPT !.step = step, !.package = package, !.until = now + Retention,
                                    !.held = held])
        PROVE  LedgerInv'
    <3> DEFINE g == [h EXCEPT !.step = step, !.package = package, !.until = now + Retention, !.held = held]
    <3>1. h.op = "stored"
      BY <1>5, Zenon DEF store_package
    <3>2. now + Retention \in Nat
      BY <1>1, EvidenceAssumption DEF LedgerInv
    <3>3. DOMAIN h = {"op", "rec", "through", "step", "package", "until", "held"}
      BY <1>1, <3>1 DEF HandlerOK
    <3>4. Resembles(g, h)
      BY <3>1, <3>2, <3>3 DEF Resembles
    <3>5. Becomes(h, g)
      BY <2>1
    <3> HIDE DEF g
    <3> QED BY <1>2, <3>4, <3>5, GoesOnLedger
  <2>2. \/ Ends(h)
        \/ \E step, package, held :
             Becomes(h, [h EXCEPT !.step = step, !.package = package, !.until = now + Retention,
                                  !.held = held])
    BY <1>5, Zenon DEF store_package
  <2>3. CASE Ends(h)
    BY <1>3, <2>3 DEF Ends
  <2> QED BY <2>1, <2>2, <2>3, Zenon
<1>6. CASE dispose_record(h)
  <2>1. Ends(h) \/ \E step : Becomes(h, [h EXCEPT !.step = step])
    BY <1>6, Zenon DEF dispose_record
  <2>2. CASE Ends(h)
    BY <1>3, <2>2 DEF Ends
  <2>3. ASSUME NEW step, Becomes(h, [h EXCEPT !.step = step]) PROVE LedgerInv'
    <3> DEFINE g == [h EXCEPT !.step = step]
    <3>1. h.op = "deleted"
      BY <1>6, Zenon DEF dispose_record
    <3>2. DOMAIN h = {"op", "rec", "step", "seen"}
      BY <1>1, <3>1 DEF HandlerOK
    <3>3. Resembles(g, h)
      BY <3>1, <3>2 DEF Resembles
    <3>4. Becomes(h, g)
      BY <2>3
    <3> HIDE DEF g
    <3> QED BY <1>2, <3>3, <3>4, GoesOnLedger
  <2> QED BY <2>1, <2>2, <2>3, Zenon
<1> QED BY <1>4, <1>5, <1>6 DEF StorageCall

\* download_evidence
LEMMA DownloadLedger ==
  ASSUME Context, UNCHANGED <<open, ended>>, NEW r \in RecordIds, download_evidence(r)
  PROVE  LedgerInv'
<1>1. /\ UNCHANGED <<now, holds, handlers>>
      /\ \/ Audits(What("retrieved", r, 0, 0)) /\ UNCHANGED rows
         \/ events' = events /\ \E found : rows' = [rows EXCEPT ![r].integrity = found]
  BY Zenon DEF download_evidence
<1>2. CASE Audits(What("retrieved", r, 0, 0)) /\ UNCHANGED rows
  <2>1. \A e \in events' \ events : e.what = What("retrieved", r, 0, 0)
    BY <1>2, AuditsKept DEF Context
  <2> QED BY <1>1, <1>2, <2>1, HandlersFewer DEF What
<1>3. ASSUME events' = events, NEW found, rows' = [rows EXCEPT ![r].integrity = found]
      PROVE  LedgerInv'
  <2>1. SameRows
    BY <1>3 DEF SameRows, Context, LedgerInv, RowColumns
  <2>2. now' \in Nat /\ now <= now' /\ holds' = holds
    BY <1>1 DEF Context, LedgerInv
  <2> DEFINE G == {}
  <2>3. /\ handlers' \subseteq handlers \cup G
        /\ \A g \in G : HandlerOK(g) /\ \A f \in handlers' : Conflict(f, g) => f = g
        /\ \A e \in events' \ events : e.what.action \notin {"placed", "deleted"}
    BY <1>1, <1>3
  <2> HIDE DEF G
  <2> QED BY <2>1, <2>2, <2>3, LedgerKept DEF Context
<1> QED BY <1>1, <1>2, <1>3

\* A disposal is checked against the holds of this moment: each hold that the chain
\* knows and that is not in force has its release in the chain.
LEMMA CheckedLedger ==
  ASSUME Context, NEW r \in RecordIds, ~deletion_denial(r)
  PROVE  Disposable(r, Height)
<1>1. LedgerInv /\ Height \in Nat
  BY DEF Context, Grows
<1>2. rows[r].state = "stored" /\ rows[r].until <= now /\ ~hold_active_for(r)
  BY <1>1 DEF deletion_denial, LedgerInv
<1>3. Upto(events, Height) = events
  BY DEF Context, ChainInv, Chain, Numbered, Upto
<1>4. ASSUME NEW p \in events, Placed(p), p.what.rec \in {0, r} PROVE ReleasedIn(events, p.what.hold)
  <2>1. /\ p.what.hold \in HoldIds
        /\ holds[p.what.hold].status # "absent" /\ holds[p.what.hold].scope = p.what.rec
    BY <1>1, <1>4 DEF LedgerInv
  <2>2. holds[p.what.hold].status # "active"
    BY <1>2, <1>4, <2>1 DEF hold_active_for, _covering_hold_clause
  <2>3. holds[p.what.hold].status = "released"
    BY <1>1, <2>1, <2>2 DEF LedgerInv
  <2> QED BY <1>1, <2>1, <2>3 DEF LedgerInv
<1> QED BY <1>1, <1>2, <1>3, <1>4 DEF Disposable

\* dispose_evidence_load
LEMMA DisposeLoadLedger ==
  ASSUME Context, UNCHANGED <<open, ended>>, NEW r \in RecordIds, dispose_evidence_load(r)
  PROVE  LedgerInv'
<1>1. /\ UNCHANGED <<now, rows, holds>>
      /\ IF deletion_denial(r) THEN Audits(What("deletion_denied", r, 0, 0)) /\ UNCHANGED handlers
         ELSE /\ Start([op |-> "deleted", rec |-> r, step |-> "load", seen |-> Tail_seq(events)])
              /\ UNCHANGED events
  BY Zenon DEF dispose_evidence_load
<1>2. CASE deletion_denial(r)
  <2>1. \A e \in events' \ events : e.what = What("deletion_denied", r, 0, 0)
    BY <1>1, <1>2, AuditsKept DEF Context
  <2> QED BY <1>1, <1>2, <2>1, HandlersFewer DEF What
<1>3. CASE ~deletion_denial(r)
  <2> DEFINE g == [op |-> "deleted", rec |-> r, step |-> "load", seen |-> Height]
  <2>1. g.op = "deleted" /\ g.rec = r /\ g.seen = Height /\ DOMAIN g = {"op", "rec", "step", "seen"}
    OBVIOUS
  <2>2. Start(g) /\ UNCHANGED <<now, rows, holds, events>>
    BY <1>1, <1>3 DEF Height
  <2> HIDE DEF g
  <2>3. Disposable(g.rec, g.seen)
    BY <1>3, <2>1, CheckedLedger
  <2>4. HandlerOK(g) /\ \A f \in handlers : Conflict(f, g) => f = g
    BY <2>1, <2>3 DEF HandlerOK, Conflict
  <2> QED BY <2>2, <2>4, BeginsLedger
<1> QED BY <1>2, <1>3

\* Writes: of a row that was checked or reconciled only two columns are written.
LEMMA WritesSameRows ==
  ASSUME LedgerInv, NEW h, rows' = Writes(h) PROVE SameRows
<1> DEFINE set(r, held, found) == [rows[r] EXCEPT !.backend_legal_hold = held, !.integrity = found]
<1>1. \A r \in RecordIds : DOMAIN rows[r] = RowColumns
  BY DEF LedgerInv
<1>2. \A r \in RecordIds : \A held, found :
        /\ DOMAIN set(r, held, found) = RowColumns
        /\ set(r, held, found).state = rows[r].state /\ set(r, held, found).until = rows[r].until
  BY <1>1 DEF RowColumns
<1> DEFINE written(r) == IF r \notin DOMAIN h.new THEN rows[r]
                         ELSE set(r, IF h.new[r].backend_legal_hold # h.was[r].backend_legal_hold
                                     THEN h.new[r].backend_legal_hold ELSE rows[r].backend_legal_hold,
                                     IF h.new[r].integrity # h.was[r].integrity
                                     THEN h.new[r].integrity ELSE rows[r].integrity)
<1>w. Writes(h) = [r \in RecordIds |-> written(r)]
  BY Zenon DEF Writes
<1> HIDE DEF written
<1>3. DOMAIN rows' = RecordIds /\ \A r \in RecordIds : rows'[r] = written(r)
  BY <1>w
<1> HIDE DEF set
<1>4. ASSUME NEW r \in RecordIds PROVE rows'[r] = rows[r] \/ \E held, found : rows'[r] = set(r, held, found)
  BY <1>3 DEF written
<1> HIDE DEF set
<1>5. ASSUME NEW r \in RecordIds
      PROVE  /\ DOMAIN rows'[r] = RowColumns
             /\ rows'[r].state = rows[r].state /\ rows'[r].until = rows[r].until
  BY <1>1, <1>2, <1>4
<1> QED BY <1>3, <1>5 DEF SameRows

\* verify_evidence, _vault_sweep_once, export_evidence_bundle and what ends without a word.
LEMMA CheckedRowsLedger ==
  ASSUME Context, NEW h, rows' = Writes(h) \/ rows' = rows, UNCHANGED <<now, holds>>,
         handlers' \subseteq handlers,
         \A e \in events' \ events : e.what.action \notin {"placed", "deleted"}
  PROVE  LedgerInv'
<1>1. LedgerInv /\ now' \in Nat /\ now <= now' /\ holds' = holds
  BY DEF Context, LedgerInv
<1>2. SameRows
  BY <1>1, WritesSameRows DEF SameRows, LedgerInv
<1> DEFINE G == {}
<1>3. handlers' \subseteq handlers \cup G /\ \A g \in G : HandlerOK(g) /\ \A f \in handlers' : Conflict(f, g) => f = g
  OBVIOUS
<1> HIDE DEF G
<1> QED BY <1>1, <1>2, <1>3, LedgerKept DEF Context

\* hold_commit: a hold that begins or ends, and the event that says so.
LEMMA HoldLedger ==
  ASSUME Context, UNCHANGED <<open, ended>>, NEW h \in handlers, hold_commit(h)
  PROVE  LedgerInv'
<1>1. /\ h.op \in {"placed", "released"} /\ UNCHANGED now /\ handlers' = handlers \ {h}
      /\ Audits(What(h.op, h.scope, h.hold, 0)) /\ holds' = SeenBy(h) /\ rows' = Writes(h)
  BY Zenon DEF hold_commit, Ends
<1>2. LedgerInv /\ HandlerOK(h) /\ ChainInv /\ ChainInv' /\ Grows
  BY DEF Context, LedgerInv
<1>3. SameRows
  BY <1>1, <1>2, WritesSameRows
<1>4. \A e \in events' \ events :
        e.what.action = h.op /\ e.what.rec = h.scope /\ e.what.hold = h.hold
  <2>1. \A e \in events' \ events : e.what = What(h.op, h.scope, h.hold, 0)
    BY <1>1, <1>2, AuditsKept
  <2> QED BY <2>1 DEF What
<1>5. \E e \in events' : e.what.action = h.op /\ e.what.hold = h.hold
  <2>1. AuditEvent(events, What(h.op, h.scope, h.hold, 0)) \in events'
    BY <1>1 DEF Audits
  <2>2. AuditEvent(events, What(h.op, h.scope, h.hold, 0)).what = What(h.op, h.scope, h.hold, 0)
    BY DEF AuditEvent
  <2> QED BY <2>1, <2>2 DEF What
<1>6. /\ h.hold \in HoldIds /\ holds' = [holds EXCEPT ![h.hold] = [status |-> h.status, scope |-> h.scope]]
      /\ DOMAIN holds = HoldIds
  BY <1>1, <1>2 DEF SeenBy, HandlerOK, LedgerInv
<1>7. /\ holds'[h.hold].status = h.status /\ holds'[h.hold].scope = h.scope
      /\ \A k \in HoldIds \ {h.hold} : holds'[k] = holds[k]
  BY <1>6
<1>8. h.scope \in Scopes /\ h.status \in {"active", "released"} /\ (h.status = "released" => h.op = "released")
  BY <1>1, <1>2 DEF HandlerOK, LedgerInv
<1>9. holds' \in [HoldIds -> [status : {"absent", "active", "released"}, scope : Scopes]]
  BY <1>2, <1>6, <1>8 DEF LedgerInv
<1>10. ASSUME NEW r, NEW seen, Disposable(r, seen) PROVE Disposable(r, seen)'
  <2>1. /\ r \in RecordIds /\ now \in Nat /\ now' \in Nat /\ now <= now' /\ rows[r].until \in Nat
        /\ rows'[r].state # "absent" /\ rows'[r].until = rows[r].until
    BY <1>1, <1>2, <1>3, <1>10 DEF Disposable, SameRows, LedgerInv
  <2> QED BY <1>2, <1>10, <2>1, DisposableKept
<1>11. ASSUME NEW f \in handlers' PROVE HandlerOK(f)'
  <2>1. f \in handlers /\ f # h /\ HandlerOK(f)
    BY <1>1, <1>2 DEF LedgerInv
  <2>2. f.op = "stored" => rows'[f.rec].state = "absent"
    BY <1>3, <2>1 DEF HandlerOK, SameRows
  <2>3. f.op = "deleted" => Disposable(f.rec, f.seen)'
    BY <1>10, <2>1 DEF HandlerOK
  <2>4. f.op = "placed" => holds'[f.hold].status = "absent"
    <3>1. ASSUME f.op = "placed" PROVE f.hold # h.hold
      BY <1>1, <1>2, <2>1, <3>1 DEF HandlerOK, LedgerInv
    <3> QED BY <1>7, <2>1, <3>1 DEF HandlerOK
  <2>5. f.op = "released" => holds'[f.hold].status # "absent" /\ holds'[f.hold].scope = f.scope
    <3>1. ASSUME f.op = "released", f.hold = h.hold PROVE h.op = "released" /\ f.scope = h.scope
      BY <1>1, <1>2, <2>1, <3>1 DEF HandlerOK
    <3> QED BY <1>1, <1>2, <1>7, <2>1, <3>1 DEF HandlerOK
  <2> QED BY <2>1, <2>2, <2>3, <2>4, <2>5 DEF HandlerOK
<1>12. ASSUME NEW p \in events', Placed(p)
       PROVE  /\ p.what.hold \in HoldIds
              /\ holds'[p.what.hold].status # "absent" /\ holds'[p.what.hold].scope = p.what.rec
  <2>1. CASE p \in events
    <3>1. /\ p.what.hold \in HoldIds
          /\ holds[p.what.hold].status # "absent" /\ holds[p.what.hold].scope = p.what.rec
      BY <1>2, <1>12, <2>1 DEF LedgerInv
    <3>2. p.what.hold = h.hold => h.op = "released" /\ h.scope = p.what.rec
      BY <1>1, <1>2, <3>1 DEF HandlerOK
    <3> QED BY <1>7, <1>8, <3>1, <3>2
  <2>2. CASE p \notin events
    BY <1>4, <1>6, <1>7, <1>8, <1>12, <2>2 DEF Placed
  <2> QED BY <2>1, <2>2
<1>13. ASSUME NEW k \in HoldIds, holds'[k].status = "released" PROVE ReleasedIn(events', k)
  <2>1. CASE k = h.hold
    BY <1>1, <1>5, <1>7, <1>8, <1>13, <2>1 DEF ReleasedIn
  <2>2. CASE k # h.hold
    <3>1. ReleasedIn(events, k)
      BY <1>2, <1>7, <1>13, <2>2 DEF LedgerInv
    <3> QED BY <1>2, <3>1 DEF ReleasedIn, Grows
  <2> QED BY <2>1, <2>2
<1>14. \A d \in events' : d.what.action = "deleted" => Disposable(d.what.rec, d.what.seen)'
  BY <1>1, <1>2, <1>4, <1>10 DEF LedgerInv
<1>15. \A r \in RecordIds : rows'[r].until \in Nat
  BY <1>2, <1>3 DEF SameRows, LedgerInv
<1>16. /\ now' \in Nat
       /\ \A f, g \in handlers' : f.op = "placed" /\ g.op = "placed" /\ f.hold = g.hold => f = g
       /\ \A f, g \in handlers' : f.op = "stored" /\ g.op = "stored" /\ f.rec = g.rec => f = g
  BY <1>1, <1>2 DEF LedgerInv
<1> QED BY <1>3, <1>9, <1>11, <1>12, <1>13, <1>14, <1>15, <1>16 DEF LedgerInv, SameRows, Placed

\* dispose_evidence: the package that was checked is deleted, and the event names what was seen.
LEMMA DisposeLedger ==
  ASSUME Context, UNCHANGED <<open, ended>>, NEW h \in handlers, dispose_evidence(h)
  PROVE  LedgerInv'
<1> DEFINE what == IF h.step = "gone" THEN What("deleted", h.rec, 0, h.seen)
                   ELSE What("deletion_denied", h.rec, 0, 0)
<1>1. /\ h.op = "deleted" /\ UNCHANGED <<now, holds>> /\ handlers' = handlers \ {h} /\ Audits(what)
      /\ rows' = IF h.step = "gone" THEN [rows EXCEPT ![h.rec].state = "deleted"]
                 ELSE [rows EXCEPT ![h.rec].integrity = "lock_drift"]
  BY Zenon DEF dispose_evidence, Ends
<1>2. LedgerInv /\ ChainInv /\ ChainInv' /\ Grows /\ HandlerOK(h)
  BY DEF Context, LedgerInv
<1>3. Disposable(h.rec, h.seen) /\ h.rec \in RecordIds /\ rows[h.rec].state # "absent"
  BY <1>1, <1>2 DEF HandlerOK, Disposable
<1>4. /\ DOMAIN rows' = RecordIds
      /\ \A r \in RecordIds :
           /\ DOMAIN rows'[r] = RowColumns /\ rows'[r].until = rows[r].until
           /\ rows'[r].state = IF h.step = "gone" /\ r = h.rec THEN "deleted" ELSE rows[r].state
  BY <1>1, <1>2, <1>3 DEF LedgerInv, RowColumns
<1>5. ASSUME NEW r, NEW seen, Disposable(r, seen) PROVE Disposable(r, seen)'
  <2>1. /\ r \in RecordIds /\ now \in Nat /\ now' \in Nat /\ now <= now' /\ rows[r].until \in Nat
        /\ rows'[r].state # "absent" /\ rows'[r].until = rows[r].until
    BY <1>1, <1>2, <1>4, <1>5 DEF Disposable, LedgerInv
  <2> QED BY <1>2, <1>5, <2>1, DisposableKept
<1>6. \A e \in events' \ events : e.what = what
  BY <1>1, <1>2, AuditsKept
<1>7. /\ what.action \notin {"placed", "released"}
      /\ what.action = "deleted" => what.rec = h.rec /\ what.seen = h.seen
  BY DEF What
<1> HIDE DEF what
<1>8. ASSUME NEW f \in handlers' PROVE HandlerOK(f)'
  <2>1. f \in handlers /\ HandlerOK(f)
    BY <1>1, <1>2 DEF LedgerInv
  <2>2. f.op = "stored" => rows'[f.rec].state = "absent"
    BY <1>3, <1>4, <2>1 DEF HandlerOK
  <2>3. f.op = "deleted" => Disposable(f.rec, f.seen)'
    BY <1>5, <2>1 DEF HandlerOK
  <2> QED BY <1>1, <2>1, <2>2, <2>3 DEF HandlerOK
<1>9. \A d \in events' : d.what.action = "deleted" => Disposable(d.what.rec, d.what.seen)'
  BY <1>2, <1>3, <1>5, <1>6, <1>7 DEF LedgerInv
<1>10. /\ \A p \in events' : Placed(p) =>
            /\ p.what.hold \in HoldIds
            /\ holds'[p.what.hold].status # "absent" /\ holds'[p.what.hold].scope = p.what.rec
       /\ \A k \in HoldIds : holds'[k].status = "released" => ReleasedIn(events', k)
  BY <1>1, <1>2, <1>6, <1>7 DEF LedgerInv, Placed, ReleasedIn, Grows
<1>11. /\ now' \in Nat
       /\ holds' \in [HoldIds -> [status : {"absent", "active", "released"}, scope : Scopes]]
       /\ \A f, g \in handlers' : f.op = "placed" /\ g.op = "placed" /\ f.hold = g.hold => f = g
       /\ \A f, g \in handlers' : f.op = "stored" /\ g.op = "stored" /\ f.rec = g.rec => f = g
       /\ \A r \in RecordIds : rows'[r].until \in Nat
  BY <1>1, <1>2, <1>4 DEF LedgerInv
<1> QED BY <1>4, <1>8, <1>9, <1>10, <1>11 DEF LedgerInv, Placed

\* store_evidence: a row that was absent, of the only handler that stores it.
LEMMA StoreLedger ==
  ASSUME Context, UNCHANGED <<open, ended>>, NEW h \in handlers, store_evidence(h)
  PROVE  LedgerInv'
<1> DEFINE row == [state |-> "stored", package |-> h.package, until |-> h.until,
                   version |-> IF enforces_lock THEN h.rec ELSE 0,
                   backend_legal_hold |-> h.held, integrity |-> "intact"]
           what == What(IF h.step = "put" THEN "stored" ELSE "store_failed", h.rec, 0, 0)
<1>1. /\ h.op = "stored" /\ UNCHANGED <<now, holds>> /\ handlers' = handlers \ {h}
      /\ events' = events \/ Audits(what)
      /\ rows' = rows \/ rows' = [rows EXCEPT ![h.rec] = row]
  BY Zenon DEF store_evidence, Ends
<1>2. LedgerInv /\ ChainInv /\ ChainInv' /\ Grows /\ HandlerOK(h)
  BY DEF Context, LedgerInv
<1>3. h.rec \in RecordIds /\ rows[h.rec].state = "absent" /\ h.until \in Nat
  BY <1>1, <1>2 DEF HandlerOK
<1>4. what.action \notin {"placed", "released", "deleted"}
  BY DEF What
<1>5. DOMAIN row = RowColumns /\ row.until = h.until /\ row.state = "stored"
  BY DEF RowColumns
<1> HIDE DEF row, what
<1>6. /\ DOMAIN rows' = RecordIds
      /\ \A r \in RecordIds :
           /\ DOMAIN rows'[r] = RowColumns /\ rows'[r].until \in Nat
           /\ r # h.rec => rows'[r] = rows[r]
  BY <1>1, <1>2, <1>3, <1>5 DEF LedgerInv
<1>7. ASSUME NEW r, NEW seen, Disposable(r, seen) PROVE Disposable(r, seen)'
  <2>1. /\ r \in RecordIds /\ r # h.rec /\ now \in Nat /\ now' \in Nat /\ now <= now' /\ rows[r].until \in Nat
    BY <1>1, <1>2, <1>3, <1>7 DEF Disposable, LedgerInv
  <2>2. rows'[r].state # "absent" /\ rows'[r].until = rows[r].until
    BY <1>6, <1>7, <2>1 DEF Disposable
  <2> QED BY <1>2, <1>7, <2>1, <2>2, DisposableKept
<1>8. \A e \in events' \ events : e.what = what
  BY <1>1, <1>2, AuditsKept
<1>9. ASSUME NEW f \in handlers' PROVE HandlerOK(f)'
  <2>1. f \in handlers /\ f # h /\ HandlerOK(f)
    BY <1>1, <1>2 DEF LedgerInv
  <2>2. f.op = "stored" => rows'[f.rec].state = "absent"
    <3>1. ASSUME f.op = "stored" PROVE f.rec # h.rec
      BY <1>1, <1>2, <2>1, <3>1 DEF LedgerInv
    <3> QED BY <1>6, <2>1, <3>1 DEF HandlerOK
  <2>3. f.op = "deleted" => Disposable(f.rec, f.seen)'
    BY <1>7, <2>1 DEF HandlerOK
  <2> QED BY <1>1, <2>1, <2>2, <2>3 DEF HandlerOK
<1>10. \A d \in events' : d.what.action = "deleted" => Disposable(d.what.rec, d.what.seen)'
  BY <1>2, <1>4, <1>7, <1>8 DEF LedgerInv
<1>11. /\ \A p \in events' : Placed(p) =>
            /\ p.what.hold \in HoldIds
            /\ holds'[p.what.hold].status # "absent" /\ holds'[p.what.hold].scope = p.what.rec
       /\ \A k \in HoldIds : holds'[k].status = "released" => ReleasedIn(events', k)
  BY <1>1, <1>2, <1>4, <1>8 DEF LedgerInv, Placed, ReleasedIn, Grows
<1>12. /\ now' \in Nat
       /\ holds' \in [HoldIds -> [status : {"absent", "active", "released"}, scope : Scopes]]
       /\ \A f, g \in handlers' : f.op = "placed" /\ g.op = "placed" /\ f.hold = g.hold => f = g
       /\ \A f, g \in handlers' : f.op = "stored" /\ g.op = "stored" /\ f.rec = g.rec => f = g
  BY <1>1, <1>2 DEF LedgerInv
<1> QED BY <1>6, <1>9, <1>10, <1>11, <1>12 DEF LedgerInv, Placed

\* The other commits, the sweep, and what happens outside the handlers.
LEMMA OtherLedger ==
  ASSUME Context,
         \/ \E h \in handlers : \/ export_evidence_bundle(h) \/ verify_evidence(h)
                                \/ _vault_sweep_once(h) \/ handler_fails(h)
         \/ storage_damaged \/ tick
  PROVE  LedgerInv'
<1>1. ChainInv /\ LedgerInv
  BY DEF Context
<1>2. ASSUME NEW h \in handlers, export_evidence_bundle(h) PROVE LedgerInv'
  <2> DEFINE what == What("exported", 0, 0, 0)
  <2>1. /\ UNCHANGED <<now, rows, holds, open, ended>> /\ handlers' \subseteq handlers
        /\ events' = events \/ Audits(what)
    BY <1>2, Zenon DEF export_evidence_bundle, Ends, Audits
  <2>2. what.action = "exported"
    BY DEF What
  <2> HIDE DEF what
  <2>3. \A e \in events' \ events : e.what = what
    BY <1>1, <2>1, AuditsKept
  <2> QED BY <2>1, <2>2, <2>3, HandlersFewer
<1>3. ASSUME NEW h \in handlers, verify_evidence(h) PROVE LedgerInv'
  <2>1. /\ UNCHANGED <<now, holds, open, ended>> /\ handlers' \subseteq handlers
        /\ rows' = Writes(h) /\ Audits(What("verified", 0, 0, 0))
    BY <1>3, Zenon DEF verify_evidence, Ends
  <2>2. \A e \in events' \ events : e.what.action = "verified"
    <3>1. \A e \in events' \ events : e.what = What("verified", 0, 0, 0)
      BY <1>1, <2>1, AuditsKept
    <3> QED BY <3>1 DEF What
  <2> QED BY <2>1, <2>2, CheckedRowsLedger
<1>4. ASSUME NEW h \in handlers, _vault_sweep_once(h) PROVE LedgerInv'
  <2>1. /\ UNCHANGED <<now, holds, open, ended>> /\ handlers' \subseteq handlers /\ rows' = Writes(h)
    BY <1>4, Zenon DEF _vault_sweep_once, Ends
  <2>2. PICK whats : \E m \in Nat :
          /\ DOMAIN whats = 1..m /\ (m > 0 => Unlocked)
          /\ events' = events \cup AuditEvents(events, whats)
          /\ \A i \in 1..m : whats[i].action = "verified"
    BY <1>4, SweepRecords
  <2>3. PICK m \in Nat :
          /\ DOMAIN whats = 1..m /\ (m > 0 => Unlocked)
          /\ events' = events \cup AuditEvents(events, whats)
          /\ \A i \in 1..m : whats[i].action = "verified"
    BY <2>2
  <2>4. \A e \in events' \ events : \E i \in 1..m : e.what = whats[i]
    BY <1>1, <2>1, <2>3, RecordsKept
  <2>5. \A e \in events' \ events : e.what.action = "verified"
    BY <2>3, <2>4
  <2> QED BY <2>1, <2>5, CheckedRowsLedger
<1>5. ASSUME NEW h \in handlers, handler_fails(h) PROVE LedgerInv'
  <2>1. UNCHANGED <<events, now, rows, holds>> /\ handlers' \subseteq handlers
    BY <1>5, Zenon DEF handler_fails, Ends, chainVars
  <2> QED BY <2>1, HandlersFewer
<1>6. CASE storage_damaged
  <2>1. UNCHANGED <<events, now, rows, holds, handlers>>
    BY <1>6, Zenon DEF storage_damaged, chainVars
  <2> QED BY <2>1, HandlersFewer
<1>7. CASE tick
  <2>1. now' = now + 1 /\ UNCHANGED <<events, rows, holds, handlers>>
    BY <1>7, Zenon DEF tick, chainVars
  <2>2. now' \in Nat /\ now <= now' /\ SameRows
    BY <1>1, <2>1 DEF LedgerInv, SameRows
  <2> DEFINE G == {}
  <2>3. /\ handlers' \subseteq handlers \cup G
        /\ \A g \in G : HandlerOK(g) /\ \A f \in handlers' : Conflict(f, g) => f = g
        /\ \A e \in events' \ events : e.what.action \notin {"placed", "deleted"}
        /\ holds' = holds
    BY <2>1
  <2> HIDE DEF G
  <2> QED BY <2>2, <2>3, LedgerKept DEF Context
<1> QED BY <1>2, <1>3, <1>4, <1>5, <1>6, <1>7, Zenon

LEMMA LedgerStep == ChainInv /\ LedgerInv /\ [Next]_vars => LedgerInv'
<1> SUFFICES ASSUME ChainInv, LedgerInv, [Next]_vars PROVE LedgerInv'
  OBVIOUS
<1>1. Context
  BY ChainStep DEF Context
<1>2. CASE ChainNext /\ UNCHANGED vaultVars
  BY <1>1, <1>2, ChainLedger
<1>3. CASE \/ export_load \/ store_evidence_load \/ sweep
           \/ \E k \in HoldIds : \/ \E scope \in RecordIds \cup {0} : place_legal_hold_load(k, scope)
                                 \/ release_legal_hold_load(k)
           \/ \E r \in RecordIds : verify_evidence_load(r)
  BY <1>1, <1>3, LoadLedger
<1>4. ASSUME NEW r \in RecordIds, download_evidence(r) PROVE LedgerInv'
  <2>1. UNCHANGED <<open, ended>>
    BY <1>4, Zenon DEF download_evidence
  <2> QED BY <1>1, <1>4, <2>1, DownloadLedger
<1>5. ASSUME NEW r \in RecordIds, dispose_evidence_load(r) PROVE LedgerInv'
  <2>1. UNCHANGED <<open, ended>>
    BY <1>5, Zenon DEF dispose_evidence_load
  <2> QED BY <1>1, <1>5, <2>1, DisposeLoadLedger
<1>6. ASSUME NEW h \in handlers, StorageCall(h) PROVE LedgerInv'
  BY <1>1, <1>6, StorageCallLedger
<1>7. ASSUME NEW h \in handlers, hold_commit(h) PROVE LedgerInv'
  <2>1. UNCHANGED <<open, ended>>
    BY <1>7, Zenon DEF hold_commit
  <2> QED BY <1>1, <1>7, <2>1, HoldLedger
<1>8. ASSUME NEW h \in handlers, store_evidence(h) PROVE LedgerInv'
  <2>1. UNCHANGED <<open, ended>>
    BY <1>8, Zenon DEF store_evidence
  <2> QED BY <1>1, <1>8, <2>1, StoreLedger
<1>9. ASSUME NEW h \in handlers, dispose_evidence(h) PROVE LedgerInv'
  <2>1. UNCHANGED <<open, ended>>
    BY <1>9, Zenon DEF dispose_evidence
  <2> QED BY <1>1, <1>9, <2>1, DisposeLedger
<1>10. CASE \/ \E h \in handlers : \/ export_evidence_bundle(h) \/ verify_evidence(h)
                                   \/ _vault_sweep_once(h) \/ handler_fails(h)
            \/ storage_damaged \/ tick
  BY <1>1, <1>10, OtherLedger
<1>11. CASE UNCHANGED vars
  <2>1. UNCHANGED <<events, now, rows, holds, handlers>>
    BY <1>11 DEF vars, chainVars, vaultVars
  <2> QED BY <1>1, <2>1, HandlersFewer
<1> QED BY <1>2, <1>3, <1>4, <1>5, <1>6, <1>7, <1>8, <1>9, <1>10, <1>11, Zenon DEF Next, Commit

LEMMA LedgerInitial == Init => LedgerInv
<1> SUFFICES ASSUME Init PROVE LedgerInv
  OBVIOUS
<1>1. /\ events = {} /\ now = 0 /\ handlers = {}
      /\ rows = [r \in RecordIds |-> EvidenceVaultRecord]
      /\ holds = [k \in HoldIds |-> EvidenceLegalHold]
  BY DEF Init, ChainInit
<1>2. DOMAIN EvidenceVaultRecord = RowColumns /\ EvidenceVaultRecord.until = 0
  BY DEF EvidenceVaultRecord, RowColumns
<1>3. /\ EvidenceLegalHold \in [status : {"absent", "active", "released"}, scope : Scopes]
      /\ EvidenceLegalHold.status = "absent"
  BY DEF EvidenceLegalHold, Scopes
<1> QED BY <1>1, <1>2, <1>3 DEF LedgerInv

LEMMA LedgerInvariant == Spec => []LedgerInv
<1>1. Init => ChainInv /\ LedgerInv
  BY ChainInitial, LedgerInitial
<1>2. ChainInv /\ LedgerInv /\ [Next]_vars => (ChainInv /\ LedgerInv)'
  BY ChainStep, LedgerStep
<1> QED BY <1>1, <1>2, PTL DEF Spec

(* Of every disposal that the chain records: the retention had ended, and each hold on
   the package or on the tenant that the chain had recorded by the time of the check
   had its release recorded too, however handlers that place, release, store and
   dispose overlap and wherever one of them dies (core/evidence_vault.py). *)
THEOREM DisposalsAccountedFor == Spec => []DisposalsExplained
<1>1. LedgerInv => DisposalsExplained
  BY DEF LedgerInv, DisposalsExplained, Disposable, Placed, ReleasedIn
<1> QED BY <1>1, LedgerInvariant, PTL

-----------------------------------------------------------------------------
(* What building a bundle is answered (core/evidence_bundles.py). *)

HashList(log, n) == [i \in 1..n |-> At(log, i).event_hash]

LEMMA RootOf ==
  ASSUME NEW log, NEW n, Numbered(log, n) PROVE Root(log) = merkle_root(HashList(log, n))
<1> DEFINE chain == InSeqOrder(log)
<1>1. chain = [i \in 1..n |-> At(log, i)]
  BY Ordered
<1>2. [i \in DOMAIN chain |-> chain[i].event_hash] = HashList(log, n)
  BY <1>1 DEF HashList
<1> QED BY <1>2, Zenon DEF Root

LEMMA PrefixHashes ==
  ASSUME NEW log, NEW n, Chain(log, n), NEW k \in 0..n
  PROVE  /\ \A i \in 1..k : At(Upto(log, k), i) = At(log, i)
         /\ HashList(Upto(log, k), k) = HashList(log, k)
<1>1. Numbered(log, n) /\ Numbered(Upto(log, k), k) /\ n \in Nat
  BY PrefixChain DEF Chain, Numbered
<1>2. ASSUME NEW i \in 1..k PROVE At(Upto(log, k), i) = At(log, i)
  <2>1. i \in 1..n
    BY <1>1
  <2>2. At(Upto(log, k), i) \in Upto(log, k) /\ At(Upto(log, k), i).seq = i
    BY <1>1, RowAt
  <2>3. \A e \in log : e.seq = i => e = At(log, i)
    BY <1>1, <2>1, RowAt
  <2> QED BY <2>2, <2>3 DEF Upto
<1> QED BY <1>2 DEF HashList

\* The records of a prefix verify, with every anchor that is true of it.
LEMMA DocumentVerifies ==
  ASSUME ChainInv, NEW through \in 1..Height, \A a \in anchors : Anchored(a)
  PROVE  verify_bundle_document(_build_document(Upto(events, through), through))
<1> DEFINE prefix == Upto(events, through)
           hashes == HashList(prefix, through)
           doc == _build_document(prefix, through)
<1>1. Chain(events, Height) /\ Height \in Nat /\ through \in Nat /\ through \in 0..Height
  BY LastOf DEF ChainInv
<1>2. Chain(prefix, through) /\ Numbered(prefix, through) /\ Linked(prefix)
  BY <1>1, PrefixChain DEF Chain
<1>3. Cardinality(prefix) = through
  BY <1>2, Counted
<1>4. /\ doc.through = through /\ doc.records.hashes = hashes
      /\ doc.records.events = selected_events(prefix)
      /\ doc.records.anchors = applicable_anchor(through)
  BY <1>3 DEF _build_document, records, HashList
<1>5. Len(hashes) = through /\ DOMAIN hashes = 1..through
      /\ \A i \in 1..through : hashes[i] = At(prefix, i).event_hash
  BY <1>1 DEF HashList
<1>6. ASSUME NEW e \in prefix
      PROVE  /\ e.seq \in DOMAIN hashes /\ hashes[e.seq] = e.event_hash
             /\ e.prev_hash = IF e.seq = 1 THEN _GENESIS ELSE hashes[e.seq - 1]
             /\ e.event_hash = _hash_event(e.prev_hash, e.seq, e.what)
  <2>1. e.seq \in 1..through
    BY <1>2 DEF Numbered
  <2>2. At(prefix, e.seq) = e
    BY <1>2, <2>1, RowAt
  <2>3. CASE e.seq # 1
    <3>1. e.seq - 1 \in 1..through /\ e.seq = (e.seq - 1) + 1
      BY <1>1, <2>1, <2>3
    <3>2. At(prefix, e.seq - 1) \in prefix /\ At(prefix, e.seq - 1).seq = e.seq - 1
      BY <1>2, <3>1, RowAt
    <3>3. e.prev_hash = At(prefix, e.seq - 1).event_hash
      BY <1>2, <3>1, <3>2 DEF Linked
    <3> HIDE DEF hashes, prefix
    <3> QED BY <1>2, <1>5, <2>1, <2>2, <2>3, <3>1, <3>3 DEF Linked
  <2>4. CASE e.seq = 1
    <3> HIDE DEF hashes, prefix
    <3> QED BY <1>2, <1>5, <2>1, <2>2, <2>4 DEF Linked
  <2> QED BY <2>3, <2>4
<1>7. ASSUME NEW a \in applicable_anchor(through)
      PROVE  /\ a.event_count \in DOMAIN hashes /\ hashes[a.event_count] = a.last
             /\ merkle_root(SubSeq(hashes, 1, a.event_count)) = a.root
  <2> DEFINE k == a.event_count
  <2>1. a \in anchors /\ k <= through /\ Anchored(a)
    BY DEF applicable_anchor
  <2>2. k \in 1..through /\ k \in 1..Height /\ k \in 0..Height /\ k \in Nat
    BY <1>1, <2>1 DEF Anchored
  <2>3. At(prefix, k) = At(events, k)
    BY <1>1, <2>2, PrefixHashes
  <2>4. a.root = Root(Upto(events, k)) /\ a.last = At(events, k).event_hash
    BY <2>1 DEF Anchored
  <2> HIDE DEF k
  <2>5. Numbered(Upto(events, k), k)
    BY <1>1, <2>2, PrefixChain DEF Chain
  <2>6. Root(Upto(events, k)) = merkle_root(HashList(events, k))
    <3>1. HashList(Upto(events, k), k) = HashList(events, k)
      BY <1>1, <2>2, PrefixHashes
    <3> QED BY <2>5, <3>1, RootOf, Zenon
  <2>7. SubSeq(hashes, 1, k) = HashList(events, k)
    <3>1. HashList(prefix, through) = HashList(events, through)
      BY <1>1, PrefixHashes
    <3>2. SubSeq(hashes, 1, k) = [i \in 1..k |-> hashes[i]]
      BY <1>1, <1>5, <2>2
    <3>3. \A i \in 1..k : hashes[i] = At(events, i).event_hash
      BY <1>1, <2>2, <3>1 DEF HashList
    <3> QED BY <3>2, <3>3 DEF HashList
  <2>8. hashes[k] = a.last /\ k \in DOMAIN hashes
    BY <1>5, <2>2, <2>3, <2>4
  <2> QED BY <2>4, <2>6, <2>7, <2>8 DEF k
<1>8. selected_events(prefix) \subseteq prefix
  BY DEF selected_events
<1> HIDE DEF hashes, prefix, doc
<1>9. verify_bundle_document(doc)
  BY <1>4, <1>5, <1>6, <1>7, <1>8 DEF verify_bundle_document
<1> QED BY <1>9 DEF doc, prefix

LEMMA BundleBuilt ==
  ASSUME ChainInv, AnchorInv, \A a \in anchors : Matched(a), NEW through \in 1..Height
  PROVE  build_bundle(through) = "ok"
<1> DEFINE prefix == Upto(events, through)
<1>1. Chain(events, Height) /\ Height \in Nat /\ through \in 0..Height
  BY LastOf DEF ChainInv
<1>2. verify_chain(prefix)
  BY <1>1, PrefixChain, ChainVerifies
<1>3. \A a \in anchors : Anchored(a)
  BY DEF AnchorInv, Known, Faithful
<1>4. \A a \in applicable_anchor(through) : a \in anchors /\ a.event_count <= through
  BY DEF applicable_anchor
<1>5. ASSUME NEW a \in applicable_anchor(through) PROVE anchor_intact(a, prefix)
  <2>1. a.event_count \in 1..Height /\ a.event_count <= through
    BY <1>3, <1>4 DEF Anchored
  <2>2. Upto(prefix, a.event_count) = Upto(events, a.event_count)
    BY <1>1, <2>1 DEF Upto, Chain, Numbered
  <2>3. verify_anchor(a)
    BY <1>3, <1>4, AnchorTrue
  <2> QED BY <2>2, <2>3 DEF verify_anchor, anchor_intact
<1>6. \A a \in applicable_anchor(through) : receipts_intact(a)
  BY <1>4 DEF Matched, receipts_intact, verify_receipt
<1>7. verify_signed_package(build_signed_package(_build_document(prefix, through)))
  BY <1>3, DocumentVerifies DEF verify_signed_package, build_signed_package
<1> HIDE DEF prefix
<1>8. build_bundle(through) =
        CASE ~verify_chain(prefix) -> "audit_chain_not_intact"
          [] \E a \in applicable_anchor(through) : ~anchor_intact(a, prefix) -> "audit_anchor_not_intact"
          [] \E a \in applicable_anchor(through) : ~receipts_intact(a) -> "anchor_receipt_not_intact"
          [] ~verify_signed_package(build_signed_package(_build_document(prefix, through))) ->
               "evidence_package_verification_failed"
          [] OTHER -> "ok"
  BY Zenon DEF build_bundle, prefix
<1> QED BY <1>2, <1>5, <1>6, <1>7, <1>8

-----------------------------------------------------------------------------
(* What a publisher that is alone has read stays what the table holds. *)

LEMMA SpendKept ==
  ASSUME budget \in Limits, NEW op \in Ops, Spend(op)
  PROVE  budget' \in Limits /\ budget'.replicas = budget.replicas
<1> DEFINE ops == [budget.ops EXCEPT ![op] = @ - 1]
<1>1. budget.ops \in [Ops -> Nat] /\ budget.ops[op] > 0
  BY DEF Spend, Limits
<1>2. ops \in [Ops -> Nat]
  BY <1>1
<1>3. budget' = [budget EXCEPT !.ops = ops]
  BY DEF Spend
<1> HIDE DEF ops
<1> QED BY <1>2, <1>3 DEF Limits

LEMMA BudgetKept ==
  ASSUME budget \in Limits, [Next]_vars
  PROVE  budget' \in Limits /\ budget'.replicas = budget.replicas
<1>1. UNCHANGED budget \/ \E op \in Ops : Spend(op)
  <2> USE DEF Ops
  <2>1. ASSUME NEW t \in Txns, record(t) \/ commit(t) \/ rollback(t)
        PROVE  UNCHANGED budget \/ \E op \in Ops : Spend(op)
    BY <2>1, Zenon DEF record, commit, rollback
  <2>2. ASSUME NEW p \in Replicas, Publishing(p) \/ publisher_crashes(p)
        PROVE  UNCHANGED budget \/ \E op \in Ops : Spend(op)
    BY <2>2, Zenon DEF Publishing, publisher_crashes, _publish_once, publish_pending, publish_commit
  <2>3. CASE create_audit_anchor_load \/ create_audit_anchor
    BY <2>3, Zenon DEF create_audit_anchor_load, create_audit_anchor
  <2>4. CASE export_load \/ store_evidence_load
    BY <2>4, Zenon DEF export_load, store_evidence_load
  <2>5. CASE \E k \in HoldIds : \/ \E scope \in RecordIds \cup {0} : place_legal_hold_load(k, scope)
                                \/ release_legal_hold_load(k)
    BY <2>5, Zenon DEF place_legal_hold_load, release_legal_hold_load
  <2>6. CASE \E r \in RecordIds : verify_evidence_load(r) \/ download_evidence(r) \/ dispose_evidence_load(r)
    BY <2>6, Zenon DEF verify_evidence_load, download_evidence, dispose_evidence_load
  <2>7. CASE sweep \/ storage_damaged \/ tick
    BY <2>7, Zenon DEF sweep, storage_damaged, tick
  <2>8. ASSUME NEW h \in handlers, StorageCall(h) \/ handler_fails(h)
        PROVE  UNCHANGED budget \/ \E op \in Ops : Spend(op)
    BY <2>8, Zenon DEF StorageCall, reconcile_hold, store_package, dispose_record, handler_fails
  <2>9. ASSUME NEW h \in handlers, Commit(h) \/ _vault_sweep_once(h) PROVE UNCHANGED budget
    BY <2>9, Zenon DEF Commit, export_evidence_bundle, hold_commit, verify_evidence, store_evidence,
                       dispose_evidence, _vault_sweep_once
  <2>10. CASE UNCHANGED vars
    BY <2>10 DEF vars
  <2> QED BY <2>1, <2>2, <2>3, <2>4, <2>5, <2>6, <2>7, <2>8, <2>9, <2>10, Zenon DEF Next, ChainNext
<1> QED BY <1>1, SpendKept

Lonely == AnchorInv /\ Solo /\ Alone /\ budget \in Limits /\ budget'.replicas = budget.replicas

LEMMA OnlyOne ==
  ASSUME Lonely, NEW p \in budget.replicas, NEW q \in budget.replicas
  PROVE  p = q /\ p \in Replicas /\ p \in Publishers /\ p # "operator"
<1>1. budget.replicas \subseteq Replicas
  BY DEF Lonely, Limits
<1>2. IsFiniteSet(budget.replicas) /\ Cardinality(budget.replicas) <= 1
  BY <1>1, EvidenceAssumption, FS_Subset DEF Lonely, Solo
<1>3. Cardinality(budget.replicas) \in Nat /\ Cardinality(budget.replicas) # 0
  BY <1>2, FS_CardinalityType, FS_EmptySet
<1>4. \E x : budget.replicas = {x}
  BY <1>2, <1>3, FS_Singleton
<1> QED BY <1>1, <1>4, EvidenceAssumption DEF Publishers

LEMMA AloneAfter ==
  ASSUME Lonely, NEW p \in Publishers, NEW tx, publishing' = [publishing EXCEPT ![p] = tx],
         Distinct(anchors'),
         \A a \in anchors' \cup tx.was \cup tx.rows \cup ToSet(tx.todo) : Matched(a),
         \A q \in budget.replicas : AsRead(publishing'[q], anchors'),
         p \in Replicas \ budget.replicas => tx = NoPublication,
         publishing'["operator"].todo = <<>>, Distinct(publishing'["operator"].rows),
         p = "operator" => \A b \in publishing'[p].rows : b.id \notin Ids(anchors'),
         \A q \in Replicas, b \in publishing'["operator"].rows :
           b.id \notin Ids(anchors') \cup Ids(publishing'[q].rows)
  PROVE  Alone'
<1>1. /\ publishing'[p] = tx
      /\ \A q \in Publishers \ {p} : publishing'[q] = publishing[q]
      /\ Known' \subseteq anchors' \cup Known \cup tx.was \cup tx.rows \cup ToSet(tx.todo)
  BY KnownAfter DEF Lonely
<1>2. \A a \in Known' : Matched(a)
  BY <1>1 DEF Lonely, Alone
<1>3. \A q \in Replicas \ budget'.replicas : publishing'[q] = NoPublication
  BY <1>1 DEF Lonely, Alone, Publishers
<1>4. \A q \in budget'.replicas : AsRead(publishing'[q], anchors')
  BY DEF Lonely
<1>5. \A a \in Known' : Matched(a)'
  BY <1>2 DEF Matched
<1>6. \A b \in publishing'["operator"].rows : b.id \notin Ids(anchors')
  BY DEF Publishers
<1> QED BY <1>3, <1>4, <1>5, <1>6 DEF Alone, Distinct

LEMMA EmptyAsRead == \A table : AsRead(NoPublication, table)
<1>1. /\ NoPublication.todo = <<>> /\ ToSet(NoPublication.todo) = {}
      /\ NoPublication.was = {} /\ NoPublication.rows = {}
  BY NoTransaction
<1> QED BY <1>1 DEF AsRead, Distinct, Ids

\* A transaction that is given up: publisher_crashes, another process' row.
LEMMA CrashAlone ==
  ASSUME Lonely, NEW p \in Replicas, publishing' = [publishing EXCEPT ![p] = NoPublication],
         UNCHANGED anchors
  PROVE  Alone'
<1>1. p \in Publishers /\ p # "operator" /\ "operator" \in Publishers
  BY EvidenceAssumption DEF Publishers
<1>2. /\ publishing'[p] = NoPublication /\ \A q \in Publishers \ {p} : publishing'[q] = publishing[q]
  BY <1>1, KnownAfter DEF Lonely
<1>3. NoPublication.was = {} /\ NoPublication.rows = {} /\ ToSet(NoPublication.todo) = {}
  BY NoTransaction
<1>4. \A a \in anchors : Matched(a)
  BY DEF Lonely, Alone, Known
<1>5. \A q \in budget.replicas : AsRead(publishing'[q], anchors')
  <2> TAKE q \in budget.replicas
  <2>1. q \in Publishers
    BY DEF Lonely, Limits, Publishers
  <2> QED BY <1>2, <2>1, EmptyAsRead DEF Lonely, Alone
<1>6. \A q \in Replicas, b \in publishing'["operator"].rows :
        b.id \notin Ids(anchors') \cup Ids(publishing'[q].rows)
  <2> TAKE q \in Replicas, b \in publishing'["operator"].rows
  <2>1. b \in publishing["operator"].rows /\ q \in Publishers
    BY <1>1, <1>2 DEF Publishers
  <2>2. Ids(publishing'[q].rows) \subseteq Ids(publishing[q].rows)
    BY <1>2, <1>3, <2>1 DEF Ids
  <2> QED BY <2>1, <2>2 DEF Lonely, Alone
<1>7. Distinct(anchors') /\ publishing'["operator"] = publishing["operator"]
  BY <1>1, <1>2 DEF Lonely, Alone
<1>8. publishing'["operator"].todo = <<>> /\ Distinct(publishing'["operator"].rows)
  BY <1>7 DEF Lonely, Alone
<1>9. \A a \in anchors' \cup NoPublication.was \cup NoPublication.rows \cup ToSet(NoPublication.todo) : Matched(a)
  BY <1>3, <1>4
<1> QED BY <1>1, <1>5, <1>6, <1>7, <1>8, <1>9, AloneAfter

\* A transaction that begins with what it has read, and a new anchor or none.
LEMMA FreshIs ==
  ASSUME ChainInv, Lonely, NEW fresh, fresh = {} \/ (fresh = {create_anchor} /\ events # {})
  PROVE  /\ Distinct(fresh) /\ \A a \in fresh : a.row # "published" /\ Matched(a)
         /\ \A a \in fresh, b \in Known : a.id # b.id
<1>1. CASE fresh = {}
  BY <1>1 DEF Distinct
<1>2. CASE fresh = {create_anchor} /\ events # {}
  <2>1. /\ create_anchor.row = "none" /\ create_anchor.receipt = None
        /\ \A a \in Known : a.id # create_anchor.id
    BY <1>2, MadeFromTheChain DEF Lonely
  <2> QED BY <1>2, <2>1 DEF Distinct, Matched
<1> QED BY <1>1, <1>2

\* _publish_once
LEMMA PublishOnceAlone ==
  ASSUME ChainInv, Lonely, NEW p \in budget.replicas, _publish_once(p)
  PROVE  Alone'
<1> DEFINE fresh == ensure_current_anchor
           todo == _unpublished_anchors \cup fresh
<1>1. PICK list \in SetToSeqs(todo) :
        publishing' = [publishing EXCEPT ![p] =
                         [on |-> TRUE, todo |-> list, was |-> fresh, rows |-> fresh]]
  BY Zenon DEF _publish_once
<1>2. fresh = {} \/ (fresh = {create_anchor} /\ events # {})
  BY AnchorIfLonger DEF Lonely
<1>3. anchors' = anchors
  BY DEF _publish_once
<1>4. todo \subseteq anchors \cup fresh /\ \A a \in todo \ fresh : a \in anchors /\ a.row # "published"
  BY DEF _unpublished_anchors
<1> HIDE DEF todo, fresh
<1>5. /\ Distinct(fresh) /\ \A a \in fresh : a.row # "published" /\ Matched(a)
      /\ \A a \in fresh, b \in Known : a.id # b.id
  BY <1>2, FreshIs
<1>6. IsFiniteSet(todo)
  <2>1. IsFiniteSet({}) /\ IsFiniteSet({create_anchor})
    BY FS_EmptySet, FS_Singleton, Zenon
  <2>2. IsFiniteSet(fresh)
    BY <1>2, <2>1, Zenon
  <2>3. IsFiniteSet(anchors \cup fresh)
    BY <2>2, FS_Union DEF Lonely, AnchorInv
  <2> QED BY <1>4, <2>3, FS_Subset
<1>7. ToSet(list) \subseteq todo /\ \A i, j \in DOMAIN list : list[i] = list[j] => i = j
  BY <1>6, ListOfAll
<1>8. /\ p \in Replicas /\ p \in Publishers /\ p # "operator" /\ "operator" \in Publishers
      /\ \A q \in budget.replicas : q = p
  BY OnlyOne DEF Publishers
<1> DEFINE tx == [on |-> TRUE, todo |-> list, was |-> fresh, rows |-> fresh]
<1>9. tx.todo = list /\ tx.was = fresh /\ tx.rows = fresh /\ publishing' = [publishing EXCEPT ![p] = tx]
  BY <1>1
<1> HIDE DEF tx
<1>10. publishing'[p] = tx /\ \A q \in Publishers \ {p} : publishing'[q] = publishing[q]
  BY <1>8, <1>9, KnownAfter DEF Lonely
<1>11. anchors \subseteq Known /\ publishing["operator"].rows \subseteq Known
  BY <1>8 DEF Known, Read
<1>12. Distinct(anchors) /\ \A a \in anchors : Matched(a)
  BY <1>11 DEF Lonely, Alone
<1>13. Distinct(anchors \cup fresh)
  BY <1>5, <1>11, <1>12 DEF Distinct
<1>14. AsRead(tx, anchors)
  <2>1. ASSUME NEW i \in DOMAIN list, NEW j \in DOMAIN list, list[i].id = list[j].id PROVE i = j
    <3>1. list[i] \in anchors \cup fresh /\ list[j] \in anchors \cup fresh
      BY <1>4, <1>7 DEF ToSet
    <3>2. list[i] = list[j]
      BY <1>13, <2>1, <3>1 DEF Distinct
    <3> QED BY <1>7, <3>2
  <2>2. \A a \in ToSet(list) : a.row # "published" /\ \A b \in fresh \cup anchors : b.id = a.id => b = a
    BY <1>4, <1>5, <1>7, <1>13 DEF Distinct
  <2>3. \A w \in fresh, a \in anchors : w.id # a.id
    BY <1>5, <1>11
  <2> QED BY <1>5, <1>9, <2>1, <2>2, <2>3 DEF AsRead
<1>15. \A q \in budget.replicas : AsRead(publishing'[q], anchors')
  BY <1>3, <1>8, <1>10, <1>14
<1>16. publishing'["operator"] = publishing["operator"]
  BY <1>8, <1>10
<1>17. publishing'["operator"].todo = <<>> /\ Distinct(publishing'["operator"].rows)
  BY <1>16 DEF Lonely, Alone
<1>18. \A q \in Replicas, b \in publishing'["operator"].rows :
         b.id \notin Ids(anchors') \cup Ids(publishing'[q].rows)
  <2> TAKE q \in Replicas, b \in publishing'["operator"].rows
  <2>1. b \in publishing["operator"].rows /\ q \in Publishers
    BY <1>16 DEF Publishers
  <2>2. b.id \notin Ids(anchors) \cup Ids(publishing[q].rows) /\ b.id \notin Ids(fresh)
    BY <1>5, <1>11, <2>1 DEF Lonely, Alone, Ids
  <2>3. publishing'[q].rows = fresh \/ publishing'[q].rows = publishing[q].rows
    BY <1>9, <1>10, <2>1
  <2> QED BY <1>3, <2>2, <2>3
<1>19. \A a \in anchors' \cup tx.was \cup tx.rows \cup ToSet(tx.todo) : Matched(a)
  BY <1>3, <1>4, <1>5, <1>7, <1>9, <1>12
<1>20. Distinct(anchors')
  BY <1>3, <1>12
<1> QED BY <1>8, <1>9, <1>15, <1>17, <1>18, <1>19, <1>20, AloneAfter

\* create_audit_anchor_load
LEMMA OperatorLoadAlone ==
  ASSUME ChainInv, Lonely, create_audit_anchor_load
  PROVE  Alone'
<1> DEFINE p == "operator"
           fresh == {create_anchor}
           tx == [on |-> TRUE, todo |-> <<>>, was |-> fresh, rows |-> fresh]
<1>1. events # {} /\ anchors' = anchors /\ publishing' = [publishing EXCEPT ![p] = tx]
  BY Zenon DEF create_audit_anchor_load
<1>2. fresh = {create_anchor}
  OBVIOUS
<1>3. tx.todo = <<>> /\ tx.was = fresh /\ tx.rows = fresh
  OBVIOUS
<1> HIDE DEF tx, fresh
<1>4. /\ Distinct(fresh) /\ \A a \in fresh : a.row # "published" /\ Matched(a)
      /\ \A a \in fresh, b \in Known : a.id # b.id
  BY <1>1, <1>2, FreshIs
<1>5. p \in Publishers /\ Replicas \subseteq Publishers /\ p \notin Replicas
  BY EvidenceAssumption DEF Publishers
<1>6. publishing'[p] = tx /\ \A q \in Publishers \ {p} : publishing'[q] = publishing[q]
  BY <1>1, <1>5, KnownAfter DEF Lonely
<1>7. anchors \subseteq Known /\ \A q \in Publishers : publishing[q].rows \subseteq Known
  BY DEF Known, Read
<1>8. \A q \in budget.replicas : AsRead(publishing'[q], anchors')
  <2> TAKE q \in budget.replicas
  <2>1. q \in Replicas
    BY OnlyOne
  <2>2. publishing'[q] = publishing[q]
    BY <1>5, <1>6, <2>1
  <2> QED BY <1>1, <2>2 DEF Lonely, Alone
<1>9. \A q \in Replicas, b \in publishing'[p].rows :
        b.id \notin Ids(anchors') \cup Ids(publishing'[q].rows)
  <2> TAKE q \in Replicas, b \in publishing'[p].rows
  <2>1. b \in fresh /\ publishing'[q].rows \subseteq Known /\ anchors' \subseteq Known
    BY <1>1, <1>3, <1>5, <1>6, <1>7
  <2> QED BY <1>4, <2>1 DEF Ids
<1>13. \A b \in publishing'[p].rows : b.id \notin Ids(anchors')
  BY <1>1, <1>3, <1>4, <1>6, <1>7 DEF Ids
<1>10. ToSet(tx.todo) = {}
  BY <1>3 DEF ToSet
<1>11. \A a \in anchors' \cup tx.was \cup tx.rows \cup ToSet(tx.todo) : Matched(a)
  BY <1>1, <1>3, <1>4, <1>7, <1>10 DEF Lonely, Alone
<1>12. Distinct(anchors') /\ publishing'[p].todo = <<>> /\ Distinct(publishing'[p].rows)
  BY <1>1, <1>3, <1>4, <1>6 DEF Lonely, Alone
<1> QED BY <1>1, <1>5, <1>8, <1>9, <1>11, <1>12, <1>13, AloneAfter

\* What the only publisher writes for an anchor: it is as it was read.
LEMMA TellAlone ==
  ASSUME Lonely, NEW p \in budget.replicas, publishing[p].todo # <<>>,
         NEW r, Copies(r, Selected(p, Head(publishing[p].todo))),
         Matched(Selected(p, Head(publishing[p].todo))) => Matched(r),
         NEW tx, tx = Told(publishing[p], Selected(p, Head(publishing[p].todo)), r),
         publishing' = [publishing EXCEPT ![p] = tx], UNCHANGED anchors
  PROVE  Alone'
<1> DEFINE was == publishing[p]
           a == Head(was.todo)
           row == Selected(p, a)
<1>1. /\ p \in Replicas /\ p \in Publishers /\ p # "operator" /\ "operator" \in Publishers
      /\ \A q \in budget.replicas : q = p
  BY OnlyOne DEF Publishers
<1>2. Transaction(p) /\ AnchorInv /\ AsRead(was, anchors)
  BY <1>1 DEF Lonely, AnchorInv, Alone
<1>3. /\ a \in ToSet(was.todo) /\ Listing(Tail(was.todo)) /\ ToSet(Tail(was.todo)) \subseteq ToSet(was.todo)
      /\ a = was.todo[1] /\ 1 \in DOMAIN was.todo
      /\ DOMAIN was.todo = 1..Len(was.todo) /\ Len(was.todo) \in Nat
      /\ DOMAIN Tail(was.todo) = 1..Len(was.todo) - 1
      /\ \A i \in DOMAIN Tail(was.todo) : i + 1 \in DOMAIN was.todo /\ Tail(was.todo)[i] = was.todo[i + 1]
  BY <1>2, HeadTailListing DEF Transaction
<1>4. row \in was.rows \cup anchors /\ row.id = a.id /\ a \in Known
  BY <1>1, <1>2, <1>3, SelectedOf
<1>5. row = a /\ a.row # "published"
  BY <1>2, <1>3, <1>4 DEF AsRead
<1>6. /\ DOMAIN was = {"on", "todo", "was", "rows"}
      /\ Ids(ToSet(was.todo)) \subseteq Ids(anchors) \cup Ids(was.rows)
  BY <1>2 DEF Transaction
<1>7. tx.todo = Tail(was.todo) /\ tx.was = With(was.was, row) /\ tx.rows = With(was.rows, r)
  BY <1>6 DEF Told
<1>8. r.id = a.id /\ Matched(r)
  BY <1>4, <1>5 DEF Copies, Lonely, Alone
<1>9. publishing'[p] = tx /\ \A q \in Publishers \ {p} : publishing'[q] = publishing[q]
  BY <1>1, KnownAfter DEF Lonely
<1>10. was.was \cup was.rows \cup ToSet(was.todo) \cup anchors \subseteq Known
  BY <1>1 DEF Known, Read
<1> HIDE DEF was, row, a
<1>11. AsRead(tx, anchors)
  <2>1. ASSUME NEW i \in DOMAIN tx.todo, NEW j \in DOMAIN tx.todo, tx.todo[i].id = tx.todo[j].id
        PROVE  i = j
    <3>1. /\ i \in 1..Len(was.todo) - 1 /\ j \in 1..Len(was.todo) - 1
          /\ was.todo[i + 1].id = was.todo[j + 1].id
          /\ i + 1 \in DOMAIN was.todo /\ j + 1 \in DOMAIN was.todo
      <4>1. \A k \in DOMAIN tx.todo :
              k \in 1..Len(was.todo) - 1 /\ k + 1 \in DOMAIN was.todo /\ tx.todo[k] = was.todo[k + 1]
        BY <1>3, <1>7, Zenon
      <4> QED BY <2>1, <4>1, Zenon
    <3>2. i + 1 = j + 1
      BY <1>2, <3>1 DEF AsRead
    <3> QED BY <1>3, <3>1, <3>2
  <2>2. \A c \in ToSet(tx.todo) : c \in ToSet(was.todo) /\ c.id # a.id
    <3> TAKE c \in ToSet(tx.todo)
    <3>1. PICK i \in DOMAIN tx.todo : c = tx.todo[i]
      BY DEF ToSet
    <3>2. i \in 1..Len(was.todo) - 1 /\ c = was.todo[i + 1] /\ i + 1 \in DOMAIN was.todo
      <4>1. \A k \in DOMAIN tx.todo :
              k \in 1..Len(was.todo) - 1 /\ k + 1 \in DOMAIN was.todo /\ tx.todo[k] = was.todo[k + 1]
        BY <1>3, <1>7, Zenon
      <4> QED BY <3>1, <4>1, Zenon
    <3>3. c.id # was.todo[1].id
      <4>1. i + 1 # 1
        BY <1>3, <3>2
      <4> QED BY <1>2, <1>3, <3>2, <4>1, Zenon DEF AsRead
    <3> QED BY <1>3, <1>7, <3>3
  <2>3. \A c \in ToSet(tx.todo) : c.row # "published" /\ \A b \in tx.rows \cup anchors : b.id = c.id => b = c
    <3> TAKE c \in ToSet(tx.todo)
    <3>1. c \in ToSet(was.todo) /\ c.id # a.id
      BY <2>2
    <3>2. \A b \in tx.rows : b.id = c.id => b \in was.rows
      BY <1>7, <1>8, <3>1 DEF With
    <3> QED BY <1>2, <3>1, <3>2 DEF AsRead
  <2>4. \A w \in tx.was, b \in anchors : w.id = b.id => w = b
    <3> TAKE w \in tx.was, b \in anchors
    <3>1. w \in was.was \/ w = a
      BY <1>5, <1>7 DEF With
    <3> QED BY <1>2, <1>3, <3>1 DEF AsRead
  <2>5. Ids(tx.rows) \subseteq Ids(tx.was)
    <3>1. Ids(tx.rows) \subseteq Ids(was.rows) \cup {a.id}
      BY <1>7, <1>8 DEF Ids, With
    <3>2. Ids(was.was) \cup {a.id} \subseteq Ids(tx.was)
      BY <1>4, <1>7 DEF Ids, With
    <3> QED BY <1>2, <3>1, <3>2 DEF AsRead
  <2>6. Distinct(tx.rows)
    BY <1>2, <1>7 DEF Distinct, With, AsRead
  <2> QED BY <2>1, <2>3, <2>4, <2>5, <2>6 DEF AsRead
<1>12. \A q \in budget.replicas : AsRead(publishing'[q], anchors')
  BY <1>1, <1>9, <1>11
<1>13. publishing'["operator"] = publishing["operator"]
  BY <1>1, <1>9
<1>14. publishing'["operator"].todo = <<>> /\ Distinct(publishing'["operator"].rows)
  BY <1>13 DEF Lonely, Alone
<1>15. \A q \in Replicas, b \in publishing'["operator"].rows :
         b.id \notin Ids(anchors') \cup Ids(publishing'[q].rows)
  <2> TAKE q \in Replicas, b \in publishing'["operator"].rows
  <2>1. b \in publishing["operator"].rows /\ q \in Publishers
    BY <1>13 DEF Publishers
  <2>2. b.id \notin Ids(anchors) \cup Ids(publishing[q].rows) /\ b.id \notin Ids(was.rows)
    BY <1>1, <2>1 DEF Lonely, Alone, was
  <2>3. Ids(tx.rows) \subseteq Ids(was.rows) \cup {a.id}
    BY <1>7, <1>8 DEF Ids, With
  <2>4. a.id \in Ids(anchors) \cup Ids(was.rows)
    BY <1>3, <1>6 DEF Ids
  <2>5. publishing'[q] = tx \/ publishing'[q] = publishing[q]
    BY <1>9, <2>1
  <2> QED BY <2>2, <2>3, <2>4, <2>5
<1>16. \A b \in anchors' \cup tx.was \cup tx.rows \cup ToSet(tx.todo) : Matched(b)
  <2>1. tx.was \cup tx.rows \cup ToSet(tx.todo) \cup anchors \subseteq Known \cup {r}
    BY <1>3, <1>4, <1>5, <1>7, <1>10 DEF With
  <2> QED BY <1>8, <2>1 DEF Lonely, Alone
<1>17. Distinct(anchors')
  BY DEF Lonely, Alone
<1> QED BY <1>1, <1>12, <1>14, <1>15, <1>16, <1>17, AloneAfter

\* publish_pending
LEMMA PendingAlone ==
  ASSUME Lonely, NEW p \in budget.replicas, publish_pending(p)
  PROVE  Alone'
<1> DEFINE a == Head(publishing[p].todo)
           row == Selected(p, a)
           Wrote(r) == publishing' = [publishing EXCEPT ![p] = Told(publishing[p], row, r)]
<1>1. publishing[p].todo # <<>> /\ UNCHANGED anchors
  BY DEF publish_pending
<1>2. p \in Replicas /\ p \in Publishers
  BY OnlyOne
<1>3. AsRead(publishing[p], anchors) /\ Transaction(p)
  BY <1>2 DEF Lonely, Alone, AnchorInv
<1>4. a \in ToSet(publishing[p].todo)
  BY <1>1, <1>3, HeadTailListing DEF Transaction
<1>5. row \in publishing[p].rows \cup anchors /\ row \in Known /\ row.id = a.id
  BY <1>2, <1>4, SelectedOf DEF Lonely
<1>6. row = a /\ a.row # "published"
  BY <1>3, <1>4, <1>5 DEF AsRead
<1>7. DOMAIN row = Columns /\ a.id \in Nat
  BY <1>5, <1>6 DEF Lonely, AnchorInv, Faithful, Anchored
<1>8. \/ Wrote([row EXCEPT !.row = "published", !.receipt = a.id])
      \/ Wrote([row EXCEPT !.row = "pending"])
      \/ publishing' = [publishing EXCEPT ![p] = NoPublication]
  BY Zenon DEF publish_pending, Told
<1>9. ASSUME Wrote([row EXCEPT !.row = "published", !.receipt = a.id]) PROVE Alone'
  <2> DEFINE r == [row EXCEPT !.row = "published", !.receipt = a.id]
             tx == Told(publishing[p], row, r)
  <2>1. Copies(r, row)
    BY <1>7 DEF Copies, Columns
  <2>2. r.row = "published" /\ r.receipt = a.id
    BY <1>7 DEF Columns
  <2>3. Matched(r)
    BY <1>7, <2>2, EvidenceAssumption DEF Matched
  <2>4. tx = Told(publishing[p], row, r) /\ publishing' = [publishing EXCEPT ![p] = tx]
    BY <1>9
  <2> HIDE DEF tx, r
  <2> QED BY <1>1, <2>1, <2>3, <2>4, TellAlone
<1>10. ASSUME Wrote([row EXCEPT !.row = "pending"]) PROVE Alone'
  <2> DEFINE r == [row EXCEPT !.row = "pending"]
             tx == Told(publishing[p], row, r)
  <2>1. Copies(r, row)
    BY <1>7 DEF Copies, Columns
  <2>2. r.row = "pending" /\ r.receipt = row.receipt
    BY <1>7 DEF Columns
  <2>3. Matched(row) => Matched(r)
    BY <1>6, <2>2 DEF Matched
  <2>4. tx = Told(publishing[p], row, r) /\ publishing' = [publishing EXCEPT ![p] = tx]
    BY <1>10
  <2> HIDE DEF tx, r
  <2> QED BY <1>1, <2>1, <2>3, <2>4, TellAlone
<1>11. ASSUME publishing' = [publishing EXCEPT ![p] = NoPublication] PROVE Alone'
  BY <1>1, <1>2, <1>11, CrashAlone
<1> HIDE DEF a, row, Wrote
<1> QED BY <1>8, <1>9, <1>10, <1>11

\* publish_commit
LEMMA CommitAlone ==
  ASSUME Lonely, NEW p \in budget.replicas, publish_commit(p)
  PROVE  Alone'
<1> DEFINE tx == publishing[p]
           saved == {Saved(p, a) : a \in anchors}
           new == {a \in tx.rows : a.id \notin Ids(anchors)}
<1>1. anchors' = saved \cup new /\ publishing' = [publishing EXCEPT ![p] = NoPublication]
  BY DEF publish_commit, Publishes
<1>2. /\ p \in Replicas /\ p \in Publishers /\ p # "operator" /\ "operator" \in Publishers
      /\ \A q \in budget.replicas : q = p
  BY OnlyOne DEF Publishers
<1>3. AsRead(tx, anchors) /\ AnchorInv /\ Distinct(anchors)
  BY DEF Lonely, Alone
<1>4. tx.rows \subseteq Known /\ anchors \subseteq Known
  BY <1>2 DEF Known, Read
<1>5. \A a \in anchors : Saved(p, a).id = a.id
  BY <1>2, <1>3, SavedOf DEF Copies
<1>6. ASSUME NEW a \in anchors PROVE Matched(Saved(p, a))
  <2>1. CASE a.id \notin Ids(tx.rows)
    <3>1. Saved(p, a) = a
      BY <2>1 DEF Saved
    <3> QED BY <1>4, <3>1 DEF Lonely, Alone
  <2>2. CASE a.id \in Ids(tx.rows)
    <3> DEFINE now_ == CHOOSE b \in tx.rows : b.id = a.id
               was == CHOOSE b \in tx.was : b.id = a.id
               to(x, y) == [a EXCEPT !.row = x, !.receipt = y]
    <3>1. now_ \in tx.rows
      BY <2>2 DEF Ids
    <3>2. was \in tx.was /\ was.id = a.id
      BY <1>3, <2>2 DEF Ids, AsRead
    <3>3. was = a
      BY <1>3, <3>2 DEF AsRead
    <3>4. Saved(p, a) = to(IF now_.row # was.row THEN now_.row ELSE a.row,
                           IF now_.receipt # was.receipt THEN now_.receipt ELSE a.receipt)
      BY <2>2 DEF Saved
    <3> HIDE DEF now_, was
    <3>5. \A x, y : to(x, y).row = x /\ to(x, y).receipt = y
      BY <1>3, <1>4 DEF AnchorInv, Faithful, Anchored, Columns
    <3> HIDE DEF to
    <3>6. Saved(p, a).row = now_.row /\ Saved(p, a).receipt = now_.receipt
      BY <3>3, <3>4, <3>5
    <3>7. Matched(now_)
      BY <1>4, <3>1 DEF Lonely, Alone
    <3> QED BY <3>6, <3>7 DEF Matched
  <2> QED BY <2>1, <2>2
<1>7. \A a \in anchors' : Matched(a)
  BY <1>1, <1>4, <1>6 DEF Lonely, Alone
<1>8. Ids(anchors') \subseteq Ids(anchors) \cup Ids(tx.rows)
  BY <1>1, <1>5 DEF Ids
<1>9. Distinct(anchors')
  <2>1. ASSUME NEW a \in saved, NEW b \in saved, a.id = b.id PROVE a = b
    <3>1. PICK c \in anchors, d \in anchors : a = Saved(p, c) /\ b = Saved(p, d)
      BY <2>1
    <3>2. c = d
      BY <1>3, <1>5, <2>1, <3>1 DEF Distinct
    <3> QED BY <3>1, <3>2
  <2>2. ASSUME NEW a \in new, NEW b \in new, a.id = b.id PROVE a = b
    BY <1>3, <2>2 DEF AsRead, Distinct
  <2>3. ASSUME NEW a \in saved, NEW b \in new PROVE a.id # b.id
    BY <1>5, <2>3 DEF Ids
  <2> HIDE DEF saved, new
  <2> QED BY <1>1, <2>1, <2>2, <2>3 DEF Distinct
<1> HIDE DEF saved, new
<1>10. publishing'[p] = NoPublication /\ \A q \in Publishers \ {p} : publishing'[q] = publishing[q]
  BY <1>1, <1>2, KnownAfter DEF Lonely
<1>11. \A q \in budget.replicas : AsRead(publishing'[q], anchors')
  BY <1>2, <1>10, EmptyAsRead
<1>12. NoPublication.was = {} /\ NoPublication.rows = {} /\ ToSet(NoPublication.todo) = {}
  BY NoTransaction
<1>13. publishing'["operator"] = publishing["operator"]
  BY <1>2, <1>10
<1>14. publishing'["operator"].todo = <<>> /\ Distinct(publishing'["operator"].rows)
  BY <1>13 DEF Lonely, Alone
<1>15. \A q \in Replicas, b \in publishing'["operator"].rows :
         b.id \notin Ids(anchors') \cup Ids(publishing'[q].rows)
  <2> TAKE q \in Replicas, b \in publishing'["operator"].rows
  <2>1. b \in publishing["operator"].rows /\ q \in Publishers
    BY <1>13 DEF Publishers
  <2>2. /\ b.id \notin Ids(anchors) \cup Ids(publishing[q].rows)
        /\ b.id \notin Ids(publishing[p].rows)
    BY <1>2, <2>1 DEF Lonely, Alone
  <2>3. Ids(publishing'[q].rows) \subseteq Ids(publishing[q].rows)
    BY <1>10, <1>12, <2>1 DEF Ids
  <2> QED BY <1>8, <2>2, <2>3
<1>16. \A a \in anchors' \cup NoPublication.was \cup NoPublication.rows \cup ToSet(NoPublication.todo) : Matched(a)
  BY <1>7, <1>12
<1> QED BY <1>1, <1>2, <1>9, <1>11, <1>14, <1>15, <1>16, AloneAfter

\* create_audit_anchor
LEMMA OperatorAlone ==
  ASSUME Lonely, create_audit_anchor
  PROVE  Alone'
<1> DEFINE p == "operator"
           mine == publishing[p].rows
<1>1. /\ anchors' = {Saved(p, a) : a \in anchors} \cup {a \in mine : a.id \notin Ids(anchors)}
      /\ publishing' = [publishing EXCEPT ![p] = NoPublication]
  BY DEF create_audit_anchor, Publishes
<1>2. p \in Publishers /\ Replicas \subseteq Publishers /\ p \notin Replicas
  BY EvidenceAssumption DEF Publishers
<1>3. AnchorInv /\ Distinct(anchors) /\ Distinct(mine)
  BY DEF Lonely, Alone
<1>4. mine \subseteq Known /\ anchors \subseteq Known
  BY <1>2 DEF Known, Read
<1>5. \A b \in mine : b.id \notin Ids(anchors)
  BY DEF Lonely, Alone
<1>6. anchors' = anchors \cup mine
  <2>1. \A a \in anchors : Saved(p, a) = a
    BY <1>5 DEF Saved, Ids
  <2> QED BY <1>1, <1>5, <2>1
<1>7. Distinct(anchors')
  BY <1>3, <1>5, <1>6 DEF Distinct, Ids
<1>8. publishing'[p] = NoPublication /\ \A q \in Publishers \ {p} : publishing'[q] = publishing[q]
  BY <1>1, <1>2, <1>3, KnownAfter
<1>9. /\ NoPublication.was = {} /\ NoPublication.rows = {} /\ ToSet(NoPublication.todo) = {}
      /\ NoPublication.todo = <<>>
  BY NoTransaction
<1>10. \A q \in budget.replicas : AsRead(publishing'[q], anchors')
  <2> TAKE q \in budget.replicas
  <2>1. q \in Replicas
    BY OnlyOne
  <2>2. q \in Publishers /\ publishing'[q] = publishing[q]
    BY <1>2, <1>8, <2>1
  <2> DEFINE tx == publishing[q]
  <2>3. Transaction(q) /\ AsRead(tx, anchors)
    BY <1>3, <2>2 DEF AnchorInv, Lonely, Alone
  <2>4. \A b \in mine : b.id \notin Ids(anchors) \cup Ids(tx.rows)
    BY <2>1 DEF Lonely, Alone
  <2>5. Ids(ToSet(tx.todo)) \cup Ids(tx.was) \subseteq Ids(anchors) \cup Ids(tx.rows)
    BY <2>3 DEF Transaction
  <2> HIDE DEF tx, mine
  <2>6. \A b \in mine, a \in ToSet(tx.todo) : b.id # a.id
    BY <2>4, <2>5 DEF Ids
  <2>7. \A b \in mine, w \in tx.was : b.id # w.id
    BY <2>4, <2>5 DEF Ids
  <2>8. AsRead(tx, anchors')
    <3>1. \A a \in ToSet(tx.todo) :
            a.row # "published" /\ \A b \in tx.rows \cup anchors' : b.id = a.id => b = a
      BY <1>6, <2>3, <2>6 DEF AsRead
    <3>2. \A w \in tx.was, a \in anchors' : w.id = a.id => w = a
      BY <1>6, <2>3, <2>7 DEF AsRead
    <3> QED BY <2>3, <3>1, <3>2 DEF AsRead
  <2> QED BY <2>2, <2>8 DEF tx
<1>11. \A q \in Replicas, b \in publishing'[p].rows : b.id \notin Ids(anchors') \cup Ids(publishing'[q].rows)
  BY <1>8, <1>9
<1>12. \A b \in publishing'[p].rows : b.id \notin Ids(anchors')
  BY <1>8, <1>9
<1>13. publishing'[p].todo = <<>> /\ Distinct(publishing'[p].rows)
  BY <1>8, <1>9 DEF Distinct
<1>14. \A a \in anchors' \cup NoPublication.was \cup NoPublication.rows \cup ToSet(NoPublication.todo) : Matched(a)
  BY <1>4, <1>6, <1>9 DEF Lonely, Alone
<1> HIDE DEF mine
<1> QED BY <1>1, <1>2, <1>7, <1>10, <1>11, <1>12, <1>13, <1>14, AloneAfter

LEMMA AloneStep == ChainInv /\ AnchorInv /\ AloneInv /\ [Next]_vars => AloneInv'
<1> SUFFICES ASSUME ChainInv, AnchorInv, AloneInv, [Next]_vars PROVE AloneInv'
  OBVIOUS
<1>1. budget \in Limits /\ budget' \in Limits /\ budget'.replicas = budget.replicas
  BY BudgetKept DEF AloneInv
<1> SUFFICES ASSUME Solo PROVE Alone'
  BY <1>1 DEF AloneInv, Solo
<1>2. Lonely
  BY <1>1 DEF AloneInv, Lonely
<1>3. ASSUME NEW p \in Replicas, Publishing(p) PROVE Alone'
  <2>1. p \in budget.replicas /\ (_publish_once(p) \/ publish_pending(p) \/ publish_commit(p))
    BY <1>3, Zenon DEF Publishing
  <2> QED BY <1>2, <2>1, PublishOnceAlone, PendingAlone, CommitAlone
<1>4. ASSUME NEW p \in Replicas, publisher_crashes(p) PROVE Alone'
  <2>1. publishing' = [publishing EXCEPT ![p] = NoPublication] /\ UNCHANGED anchors
    BY <1>4, Zenon DEF publisher_crashes
  <2> QED BY <1>2, <2>1, CrashAlone
<1>5. CASE create_audit_anchor_load
  BY <1>2, <1>5, OperatorLoadAlone
<1>6. CASE create_audit_anchor
  BY <1>2, <1>6, OperatorAlone
<1>7. CASE UNCHANGED <<anchors, publishing>>
  <2>1. Known' = Known /\ anchors' = anchors /\ publishing' = publishing
    BY <1>7 DEF Known, Read
  <2>2. \A a \in Known' : Matched(a)'
    BY <2>1 DEF AloneInv, Alone, Matched
  <2> QED BY <1>1, <2>1, <2>2 DEF AloneInv, Alone
<1>8. ASSUME NEW t \in Txns, record(t) \/ commit(t) \/ rollback(t) PROVE UNCHANGED <<anchors, publishing>>
  BY <1>8, Zenon DEF record, commit, rollback
<1> QED BY <1>3, <1>4, <1>5, <1>6, <1>7, <1>8, VaultSteps, Zenon DEF ChainNext

LEMMA AloneInitial == Init => AloneInv
<1> SUFFICES ASSUME Init PROVE AloneInv
  OBVIOUS
<1>1. anchors = {} /\ publishing = [p \in Publishers |-> NoPublication] /\ budget \in Budgets
  BY DEF Init, ChainInit, Publishers
<1>2. budget \in Limits
  BY <1>1, EvidenceAssumption DEF Limits
<1>3. Replicas \subseteq Publishers /\ "operator" \in Publishers
  BY DEF Publishers
<1>4. \A p \in Publishers : publishing[p] = NoPublication
  BY <1>1
<1>5. /\ NoPublication.todo = <<>> /\ ToSet(NoPublication.todo) = {}
      /\ NoPublication.was = {} /\ NoPublication.rows = {}
  BY NoTransaction
<1>6. Known = {}
  BY <1>1, <1>4, <1>5 DEF Known, Read
<1>7. \A p \in budget.replicas : AsRead(publishing[p], anchors)
  BY <1>2, <1>3, <1>4, EmptyAsRead DEF Limits
<1>8. publishing["operator"].todo = <<>> /\ publishing["operator"].rows = {}
  BY <1>3, <1>4, <1>5
<1> QED BY <1>1, <1>2, <1>3, <1>4, <1>6, <1>7, <1>8 DEF AloneInv, Alone, Distinct

-----------------------------------------------------------------------------
(* What bundles are asked for, and what was answered. *)

LEMMA AsksKept ==
  ASSUME Context, \A h \in handlers : Asks(h), [Next]_vars
  PROVE  \A h \in handlers' : Asks(h)'
<1>1. Height \in Nat /\ Height' \in Nat /\ Height <= Height' /\ Height = Tail_seq(events)
  BY DEF Context, Grows, Height
<1>2. SUFFICES \A h \in handlers' : Asks(h)
  BY <1>1 DEF Asks
<1>3. CASE handlers' \subseteq handlers
  BY <1>3
<1>4. ASSUME NEW g, handlers' \subseteq handlers \cup {g}, Asks(g) PROVE \A h \in handlers' : Asks(h)
  BY <1>4
<1>5. ASSUME NEW g, handlers' \subseteq handlers \cup {g}, g.op \notin {"export", "stored"}
      PROVE  \A h \in handlers' : Asks(h)
  BY <1>4, <1>5 DEF Asks
<1>6. CASE export_load
  <2>1. PICK through \in 1..Tail_seq(events) : Start([op |-> "export", through |-> through])
    BY <1>6, Zenon DEF export_load
  <2> DEFINE g == [op |-> "export", through |-> through]
  <2>2. handlers' \subseteq handlers \cup {g} /\ g.through = through
    BY <2>1 DEF Start
  <2> HIDE DEF g
  <2> QED BY <1>1, <1>4, <2>2 DEF Asks
<1>7. CASE store_evidence_load
  <2>1. PICK r \in RecordIds, through \in 1..Tail_seq(events) :
          Start([op |-> "stored", rec |-> r, through |-> through, step |-> "load",
                 package |-> <<>>, until |-> 0, held |-> FALSE])
    BY <1>7, Zenon DEF store_evidence_load
  <2> DEFINE g == [op |-> "stored", rec |-> r, through |-> through, step |-> "load",
                   package |-> <<>>, until |-> 0, held |-> FALSE]
  <2>2. handlers' \subseteq handlers \cup {g} /\ g.through = through
    BY <2>1 DEF Start
  <2> HIDE DEF g
  <2> QED BY <1>1, <1>4, <2>2 DEF Asks
<1>8. ASSUME NEW op \in {"placed", "released", "verified", "sweep"}, NEW hold, NEW todo,
             Start(Batch(op, hold, todo))
      PROVE  \A h \in handlers' : Asks(h)
  <2> DEFINE g == Batch(op, hold, todo)
  <2>1. g.op = op
    BY DEF Batch
  <2>2. handlers' \subseteq handlers \cup {g}
    BY <1>8 DEF Start
  <2> HIDE DEF g
  <2> QED BY <1>5, <2>1, <2>2
<1>9. ASSUME NEW k \in HoldIds, NEW scope, place_legal_hold_load(k, scope) PROVE \A h \in handlers' : Asks(h)
  BY <1>8, <1>9, Zenon DEF place_legal_hold_load
<1>10. ASSUME NEW k \in HoldIds, release_legal_hold_load(k) PROVE \A h \in handlers' : Asks(h)
  BY <1>8, <1>10, Zenon DEF release_legal_hold_load
<1>11. ASSUME NEW r \in RecordIds, verify_evidence_load(r) PROVE \A h \in handlers' : Asks(h)
  BY <1>8, <1>11, Zenon DEF verify_evidence_load
<1>12. CASE sweep
  BY <1>8, <1>12, Zenon DEF sweep
<1>13. ASSUME NEW r \in RecordIds, dispose_evidence_load(r) PROVE \A h \in handlers' : Asks(h)
  <2> DEFINE g == [op |-> "deleted", rec |-> r, step |-> "load", seen |-> Tail_seq(events)]
  <2>1. UNCHANGED handlers \/ Start(g)
    BY <1>13, Zenon DEF dispose_evidence_load
  <2>2. handlers' \subseteq handlers \cup {g} /\ g.op = "deleted"
    BY <2>1 DEF Start
  <2> HIDE DEF g
  <2> QED BY <1>5, <2>2
<1>14. ASSUME NEW h \in handlers, reconcile_hold(h) PROVE \A f \in handlers' : Asks(f)
  <2> DEFINE r == Head(h.todo).rec
  <2>1. PICK tail, held, found :
          Becomes(h, [h EXCEPT !.todo = tail, !.new[r].backend_legal_hold = held, !.new[r].integrity = found])
    BY <1>14, Zenon DEF reconcile_hold
  <2> DEFINE g == [h EXCEPT !.todo = tail, !.new[r].backend_legal_hold = held, !.new[r].integrity = found]
  <2>2. h.op \in {"placed", "released", "verified", "sweep"}
    BY <1>14, Zenon DEF reconcile_hold
  <2>3. DOMAIN h = {"op", "hold", "status", "scope", "todo", "verified", "was", "new"}
    BY <2>2 DEF HandlerOK, Context, LedgerInv
  <2>4. g.op = h.op
    BY <2>3
  <2>5. handlers' \subseteq handlers \cup {g}
    BY <2>1 DEF Becomes
  <2> HIDE DEF g
  <2> QED BY <1>5, <2>2, <2>4, <2>5
<1>15. ASSUME NEW h \in handlers, store_package(h) PROVE \A f \in handlers' : Asks(f)
  <2>1. h.op = "stored"
    BY <1>15, Zenon DEF store_package
  <2>2. DOMAIN h = {"op", "rec", "through", "step", "package", "until", "held"}
    BY <2>1 DEF HandlerOK, Context, LedgerInv
  <2>3. \/ Ends(h)
        \/ \E step, package, held :
             Becomes(h, [h EXCEPT !.step = step, !.package = package, !.until = now + Retention,
                                  !.held = held])
    BY <1>15, Zenon DEF store_package
  <2>4. ASSUME NEW step, NEW package, NEW held,
               Becomes(h, [h EXCEPT !.step = step, !.package = package, !.until = now + Retention,
                                    !.held = held])
        PROVE  \A f \in handlers' : Asks(f)
    <3> DEFINE g == [h EXCEPT !.step = step, !.package = package, !.until = now + Retention, !.held = held]
    <3>1. g.through = h.through
      BY <2>2
    <3>2. handlers' \subseteq handlers \cup {g}
      BY <2>4 DEF Becomes
    <3> HIDE DEF g
    <3>3. Asks(g)
      BY <2>1, <3>1 DEF Asks
    <3> QED BY <1>4, <3>2, <3>3
  <2>5. CASE Ends(h)
    BY <1>3, <2>5 DEF Ends
  <2> QED BY <2>3, <2>4, <2>5, Zenon
<1>16. ASSUME NEW h \in handlers, dispose_record(h) PROVE \A f \in handlers' : Asks(f)
  <2>1. Ends(h) \/ \E step : Becomes(h, [h EXCEPT !.step = step])
    BY <1>16, Zenon DEF dispose_record
  <2>2. CASE Ends(h)
    BY <1>3, <2>2 DEF Ends
  <2>3. ASSUME NEW step, Becomes(h, [h EXCEPT !.step = step]) PROVE \A f \in handlers' : Asks(f)
    <3> DEFINE g == [h EXCEPT !.step = step]
    <3>1. h.op = "deleted"
      BY <1>16, Zenon DEF dispose_record
    <3>2. DOMAIN h = {"op", "rec", "step", "seen"}
      BY <3>1 DEF HandlerOK, Context, LedgerInv
    <3>3. g.op = "deleted"
      BY <3>1, <3>2
    <3>4. handlers' \subseteq handlers \cup {g}
      BY <2>3 DEF Becomes
    <3> HIDE DEF g
    <3> QED BY <1>5, <3>3, <3>4
  <2> QED BY <2>1, <2>2, <2>3, Zenon
<1>17. ASSUME NEW h \in handlers, Commit(h) \/ _vault_sweep_once(h) \/ handler_fails(h)
       PROVE  \A f \in handlers' : Asks(f)
  <2>1. handlers' \subseteq handlers
    BY <1>17, Zenon DEF Commit, export_evidence_bundle, hold_commit, verify_evidence, store_evidence,
                        dispose_evidence, _vault_sweep_once, handler_fails, Ends
  <2> QED BY <1>3, <2>1
<1>18. CASE (ChainNext /\ UNCHANGED vaultVars) \/ storage_damaged \/ tick \/ UNCHANGED vars
  <2>1. UNCHANGED handlers
    BY <1>18, Zenon DEF vaultVars, vars, storage_damaged, tick
  <2> QED BY <1>3, <2>1
<1>19. ASSUME NEW r \in RecordIds, download_evidence(r) PROVE \A h \in handlers' : Asks(h)
  <2>1. UNCHANGED handlers
    BY <1>19, Zenon DEF download_evidence
  <2> QED BY <1>3, <2>1
<1> QED BY <1>6, <1>7, <1>9, <1>10, <1>11, <1>12, <1>13, <1>14, <1>15, <1>16, <1>17, <1>18, <1>19,
           Zenon DEF Next, StorageCall

\* Of every step that builds a bundle the answer is recorded, and of no other.
LEMMA AnswersAfter ==
  ASSUME [Next]_vars
  PROVE  \/ answers' = answers
         \/ \E h \in handlers : /\ h.op \in {"export", "stored"}
                                /\ answers' = answers \cup {build_bundle(h.through)}
<1>1. ASSUME NEW h \in handlers, export_evidence_bundle(h)
      PROVE  h.op \in {"export", "stored"} /\ answers' = answers \cup {build_bundle(h.through)}
  BY <1>1, Zenon DEF export_evidence_bundle
<1>2. ASSUME NEW h \in handlers, store_package(h)
      PROVE  h.op \in {"export", "stored"} /\ answers' = answers \cup {build_bundle(h.through)}
  BY <1>2, Zenon DEF store_package
<1>3. ASSUME NEW h \in handlers, reconcile_hold(h) \/ dispose_record(h) \/ handler_fails(h) PROVE answers' = answers
  BY <1>3, Zenon DEF reconcile_hold, dispose_record, handler_fails
<1>4. ASSUME NEW h \in handlers, \/ hold_commit(h) \/ verify_evidence(h) \/ store_evidence(h)
                                 \/ dispose_evidence(h) \/ _vault_sweep_once(h)
      PROVE  answers' = answers
  BY <1>4, Zenon DEF hold_commit, verify_evidence, store_evidence, dispose_evidence, _vault_sweep_once
<1>5. CASE (ChainNext /\ UNCHANGED vaultVars) \/ UNCHANGED vars
  BY <1>5 DEF vaultVars, vars
<1>6. CASE export_load \/ store_evidence_load \/ sweep \/ storage_damaged \/ tick
  BY <1>6, Zenon DEF export_load, store_evidence_load, sweep, storage_damaged, tick
<1>7. CASE \E k \in HoldIds : \/ \E scope \in RecordIds \cup {0} : place_legal_hold_load(k, scope)
                              \/ release_legal_hold_load(k)
  BY <1>7, Zenon DEF place_legal_hold_load, release_legal_hold_load
<1>8. CASE \E r \in RecordIds : verify_evidence_load(r) \/ download_evidence(r) \/ dispose_evidence_load(r)
  BY <1>8, Zenon DEF verify_evidence_load, download_evidence, dispose_evidence_load
<1> QED BY <1>1, <1>2, <1>3, <1>4, <1>5, <1>6, <1>7, <1>8, Zenon DEF Next, Commit, StorageCall

BundleInv == ChainInv /\ AnchorInv /\ LedgerInv /\ AloneInv /\ AnswerInv

LEMMA AnswerStep == BundleInv /\ [Next]_vars => AnswerInv'
<1> SUFFICES ASSUME BundleInv, [Next]_vars PROVE AnswerInv'
  OBVIOUS
<1>1. Context
  BY ChainStep DEF BundleInv, Context
<1>2. \A h \in handlers' : Asks(h)'
  BY <1>1, AsksKept DEF BundleInv, AnswerInv
<1>3. budget'.replicas = budget.replicas
  BY BudgetKept DEF BundleInv, AloneInv
<1>4. ASSUME Solo PROVE answers' \subseteq {"ok"}
  <2>1. \A a \in anchors : Matched(a)
    BY <1>4 DEF BundleInv, AloneInv, Alone, Known
  <2>2. answers \subseteq {"ok"}
    BY <1>4 DEF BundleInv, AnswerInv, NoFalseAlarm, Solo
  <2>3. ASSUME NEW h \in handlers, h.op \in {"export", "stored"} PROVE build_bundle(h.through) = "ok"
    <3>1. h.through \in 1..Height
      BY <2>3 DEF BundleInv, AnswerInv, Asks
    <3> QED BY <2>1, <3>1, BundleBuilt DEF BundleInv
  <2> QED BY <2>2, <2>3, AnswersAfter
<1> QED BY <1>2, <1>3, <1>4 DEF AnswerInv, NoFalseAlarm, Solo

LEMMA BundleInvariant == Spec => []BundleInv
<1>1. Init => BundleInv
  <2> SUFFICES ASSUME Init PROVE BundleInv
    OBVIOUS
  <2>1. ChainInv /\ AnchorInv /\ LedgerInv /\ AloneInv
    BY ChainInitial, AnchorInitial, LedgerInitial, AloneInitial
  <2>2. handlers = {} /\ answers = {}
    BY DEF Init
  <2> QED BY <2>1, <2>2 DEF BundleInv, AnswerInv, NoFalseAlarm
<1>2. BundleInv /\ [Next]_vars => BundleInv'
  BY ChainStep, AnchorStep, LedgerStep, AloneStep, AnswerStep DEF BundleInv
<1> QED BY <1>1, <1>2, PTL DEF Spec

(* With one publisher nobody is told that the audit trail was tampered with, or that a
   package does not verify: whatever is committed, anchored, published or given up
   while a bundle is built, the prefix that was read verifies, and of the anchor that
   is chosen the digests and the receipt do (core/evidence_bundles.py,
   core/anchor_publish.py). *)
THEOREM NoAlarmWithoutTampering == Spec => []NoFalseAlarm
<1>1. BundleInv => NoFalseAlarm
  BY DEF BundleInv, AnswerInv
<1> QED BY <1>1, BundleInvariant, PTL
=============================================================================
