--------------------------- MODULE PredictionProofs ---------------------------
(***************************************************************************)
(* Proofs about the predicted player, for every value of the constants: its *)
(* three counters of commands agree, and it keeps the promise that it is    *)
(* where the newest authoritative state leads under the commands that state *)
(* does not acknowledge.                                                    *)
(***************************************************************************)
EXTENDS PredictedPlayer, SequenceTheorems, TLAPS

(* An update the authority can send: a reset acknowledges nothing, and      *)
(* ordinals begin at 1.                                                    *)
Sendable ==
  {u \in Update : u.ordinal # 0 /\ (u.kind = "reset" => u.ack = 0)}

(* Each command continues the one before it, from the anchor, by the kernel. *)
Chained(h) ==
  \A i \in 1 .. Len(h.entries) :
    /\ h.entries[i].pre = IF i = 1 THEN h.anchor.pos ELSE h.entries[i - 1].post
    /\ h.entries[i].post = Kernel[<<h.entries[i].pre, h.entries[i].move>>]

GoodHistory(h) ==
  /\ h \in [anchor : Update, entries : Seq(Entry)]
  /\ Contiguous(h.entries, h.anchor.ack)
  /\ Chained(h)

(* Every update on its way is one the authority can send.                   *)
GoodQueues ==
  /\ server \in [session : Nat, pos : Positions, seq : Nat, ordinal : Nat \ {0}]
  /\ delayed \in Seq(Sendable) /\ output \in Seq(Sendable)
  /\ previous \in Sendable \cup {None} /\ late \in Sendable \cup {None}

GoodSimulation ==
  /\ GoodHistory(history)
  /\ player = [pos |-> Current(history), seq |-> Newest(history)]
  /\ next = Newest(history) + 1
  /\ pending \in BOOLEAN /\ due \in Nat \cup {None}

IInv == GoodSimulation /\ GoodQueues
------------------------------------------------------------------------------
(* The newest command and the current state of a good history.             *)
LEMMA GoodEnds ==
  ASSUME NEW h, GoodHistory(h)
  PROVE  /\ Newest(h) = h.anchor.ack + Len(h.entries)
         /\ Newest(h) \in Nat
         /\ Current(h) \in Positions
         /\ Len(h.entries) \in Nat
<1>1. h.anchor \in Update /\ h.entries \in Seq(Entry)
  BY DEF GoodHistory
<1>2. Len(h.entries) \in Nat
  BY <1>1
<1>3. CASE h.entries = <<>>
  BY <1>1, <1>3 DEF Newest, Current, Update
<1>4. CASE h.entries # <<>>
  <2>1. Len(h.entries) \in 1 .. Len(h.entries)
    BY <1>1, <1>2, <1>4, EmptySeq
  <2>2. h.entries[Len(h.entries)] \in Entry
    BY <1>1, <2>1, ElementOfSeq
  <2>3. h.entries[Len(h.entries)].seq = h.anchor.ack + Len(h.entries)
    BY <2>1 DEF GoodHistory, Contiguous
  <2> QED
    BY <1>1, <1>2, <1>4, <2>2, <2>3 DEF Newest, Current, Update, Entry
<1> QED
  BY <1>2, <1>3, <1>4

(* A batch that continues a good history makes a good one.                  *)
LEMMA ExtendedIsGood ==
  ASSUME NEW h, GoodHistory(h), NEW batch \in Seq(Entry), batch # <<>>,
         Continues(h, batch),
         \A i \in 1 .. Len(batch) :
           batch[i].post = Kernel[<<batch[i].pre, batch[i].move>>]
  PROVE  /\ GoodHistory(Extended(h, batch))
         /\ Newest(Extended(h, batch)) = Newest(h) + Len(batch)
         /\ Current(Extended(h, batch)) = batch[Len(batch)].post
<1> DEFINE es == h.entries
           all == es \o batch
           n == Len(es)
<1>1. h.anchor \in Update /\ es \in Seq(Entry)
  BY DEF GoodHistory
<1>2. n \in Nat /\ Len(batch) \in Nat /\ Len(batch) > 0
  BY <1>1, EmptySeq
<1>3. /\ all \in Seq(Entry) /\ Len(all) = n + Len(batch)
      /\ \A i \in 1 .. n + Len(batch) : all[i] = IF i <= n THEN es[i] ELSE batch[i - n]
  BY <1>1, ConcatProperties
<1>4. Extended(h, batch) = [anchor |-> h.anchor, entries |-> all]
  BY DEF Extended
<1>5. h.anchor.ack \in Nat
  BY <1>1 DEF Update
<1>6. Newest(h) = h.anchor.ack + n
  BY GoodEnds
<1>7. Current(h) = IF n = 0 THEN h.anchor.pos ELSE es[n].post
  BY <1>1, <1>2, EmptySeq DEF Current
<1>8. Contiguous(all, h.anchor.ack)
  <2> SUFFICES ASSUME NEW i \in 1 .. Len(all) PROVE all[i].seq = h.anchor.ack + i
    BY DEF Contiguous
  <2>1. CASE i <= n
    BY <1>2, <1>3, <2>1 DEF GoodHistory, Contiguous
  <2>2. CASE ~ (i <= n)
    <3>1. i - n \in 1 .. Len(batch)
      BY <1>2, <1>3, <2>2
    <3>2. batch[i - n].seq = Newest(h) + (i - n)
      BY <3>1 DEF Continues
    <3> QED
      BY <1>2, <1>3, <1>5, <1>6, <2>2, <3>2
  <2> QED
    BY <2>1, <2>2
<1>9. Chained([anchor |-> h.anchor, entries |-> all])
  <2> SUFFICES ASSUME NEW i \in 1 .. Len(all)
               PROVE  /\ all[i].pre = IF i = 1 THEN h.anchor.pos ELSE all[i - 1].post
                      /\ all[i].post = Kernel[<<all[i].pre, all[i].move>>]
    BY DEF Chained
  <2>1. CASE i <= n
    BY <1>2, <1>3, <2>1 DEF GoodHistory, Chained
  <2>2. CASE ~ (i <= n)
    <3>1. i - n \in 1 .. Len(batch) /\ all[i] = batch[i - n]
      BY <1>2, <1>3, <2>2
    <3>2. batch[i - n].pre = IF i - n = 1 THEN Current(h) ELSE batch[i - n - 1].post
      BY <3>1 DEF Continues
    <3>3. all[i].post = Kernel[<<all[i].pre, all[i].move>>]
      BY <3>1
    <3>4. CASE i - n = 1
      <4>1. i = n + 1 /\ i \in Int
        BY <1>2, <2>2, <3>4
      <4>2. CASE n = 0
        BY <1>7, <3>1, <3>2, <3>3, <3>4, <4>1, <4>2
      <4>3. CASE n # 0
        <5>1. n \in 1 .. n + Len(batch) /\ n <= n /\ i - 1 = n /\ i # 1
          BY <1>2, <4>1, <4>3
        <5>2. all[i - 1] = es[n]
          BY <1>3, <5>1
        <5> QED
          BY <1>7, <3>1, <3>2, <3>3, <3>4, <4>3, <5>1, <5>2
      <4> QED
        BY <4>2, <4>3
    <3>5. CASE i - n # 1
      <4>1. i \in Int /\ i > n + 1 /\ i # 1
        BY <1>2, <1>3, <2>2, <3>5
      <4>2. i - 1 \in 1 .. n + Len(batch) /\ ~ (i - 1 <= n) /\ (i - 1) - n = (i - n) - 1
        BY <1>2, <1>3, <4>1
      <4>3. all[i - 1] = batch[(i - 1) - n]
        BY <1>3, <4>2
      <4>4. all[i].pre = all[i - 1].post
        BY <3>1, <3>2, <3>5, <4>2, <4>3
      <4> QED
        BY <3>3, <4>1, <4>4
    <3> QED
      BY <3>4, <3>5
  <2> QED
    BY <2>1, <2>2
<1>10. GoodHistory([anchor |-> h.anchor, entries |-> all])
  BY <1>1, <1>3, <1>8, <1>9 DEF GoodHistory
<1>11. all # <<>> /\ all[Len(all)] = batch[Len(batch)]
  BY <1>2, <1>3, EmptySeq
<1>12. Newest([anchor |-> h.anchor, entries |-> all]) = h.anchor.ack + Len(all)
  <2>1. PICK g : g = [anchor |-> h.anchor, entries |-> all]
    OBVIOUS
  <2>2. Newest(g) = g.anchor.ack + Len(g.entries)
    BY <1>10, <2>1, GoodEnds
  <2> QED
    BY <2>1, <2>2
<1>13. Current([anchor |-> h.anchor, entries |-> all]) = batch[Len(batch)].post
  BY <1>11 DEF Current
<1> QED
  BY <1>2, <1>3, <1>4, <1>5, <1>6, <1>10, <1>12, <1>13

(* The commands of a replay keep their numbers and movements, and their     *)
(* states follow each other by the kernel.                                  *)
LEMMA ReplayedIsChained ==
  ASSUME NEW commands, Len(commands) \in Nat,
         \A i \in 1 .. Len(commands) :
           commands[i].seq \in Nat \ {0} /\ commands[i].move \in Moves /\ commands[i].jump \in BOOLEAN,
         NEW base \in Positions, NEW states \in Replays(base, commands),
         NEW es, es = Replayed(commands, states)
  PROVE  /\ es \in Seq(Entry) /\ Len(es) = Len(commands)
         /\ \A i \in 1 .. Len(commands) :
              /\ es[i].seq = commands[i].seq /\ es[i].move = commands[i].move
              /\ es[i].pre = IF i = 1 THEN base ELSE es[i - 1].post
              /\ es[i].post = Kernel[<<es[i].pre, es[i].move>>]
              /\ es[i].post = states[i]
<1> DEFINE n == Len(commands)
<1>1. /\ states \in [0 .. n -> Positions] /\ states[0] = base
      /\ \A i \in 1 .. n : states[i] = Kernel[<<states[i - 1], commands[i].move>>]
  BY DEF Replays
<1>2. \A i \in 1 .. n : i \in 0 .. n /\ i - 1 \in 0 .. n
  OBVIOUS
<1>3. \A i \in 1 .. n :
        [seq |-> commands[i].seq, move |-> commands[i].move, jump |-> commands[i].jump,
         pre |-> states[i - 1], post |-> states[i]] \in Entry
  BY <1>1, <1>2 DEF Entry
<1>4. es = [i \in 1 .. n |->
              [seq |-> commands[i].seq, move |-> commands[i].move, jump |-> commands[i].jump,
               pre |-> states[i - 1], post |-> states[i]]]
  BY DEF Replayed
<1>5. es \in [1 .. n -> Entry]
  BY <1>3, <1>4
<1>6. es \in Seq(Entry) /\ Len(es) = n
  BY <1>5
<1>7. \A i \in 1 .. n : /\ es[i].seq = commands[i].seq /\ es[i].move = commands[i].move
                       /\ es[i].pre = states[i - 1] /\ es[i].post = states[i]
  BY <1>4
<1>8. ASSUME NEW i \in 1 .. n
      PROVE  /\ es[i].pre = IF i = 1 THEN base ELSE es[i - 1].post
             /\ es[i].post = Kernel[<<es[i].pre, es[i].move>>]
  <2>1. i # 1 => i - 1 \in 1 .. n
    OBVIOUS
  <2> QED
    BY <1>1, <1>7, <2>1
<1>9. \A i \in 1 .. n :
         /\ es[i].seq = commands[i].seq /\ es[i].move = commands[i].move
         /\ es[i].pre = IF i = 1 THEN base ELSE es[i - 1].post
         /\ es[i].post = Kernel[<<es[i].pre, es[i].move>>]
         /\ es[i].post = states[i]
  BY <1>7, <1>8
<1> QED
  BY <1>6, <1>9

(* In a good history, what follows the k-th command after the anchor's.     *)
LEMMA UnacknowledgedIsRest ==
  ASSUME NEW h, GoodHistory(h), NEW k \in 0 .. Len(h.entries)
  PROVE  LET es == Unacknowledged(h, h.anchor.ack + k) IN
         /\ es = SubSeq(h.entries, k + 1, Len(h.entries))
         /\ es \in Seq(Entry) /\ Len(es) = Len(h.entries) - k
         /\ \A i \in 1 .. Len(h.entries) - k : es[i] = h.entries[k + i]
         /\ Contiguous(es, h.anchor.ack + k)
<1> DEFINE n == Len(h.entries)
           a == h.anchor.ack
<1>1. h.entries \in Seq(Entry) /\ h.anchor \in Update
  BY DEF GoodHistory
<1>2. n \in Nat /\ a \in Nat /\ k \in Nat /\ k <= n
  BY <1>1 DEF Update
<1>3. \A i \in 1 .. n : h.entries[i].seq = a + i
  BY DEF GoodHistory, Contiguous
<1> DEFINE After(i) == /\ \A j \in 1 .. i - 1 : h.entries[j].seq <= a + k
                       /\ i <= n => h.entries[i].seq > a + k
<1>4. k + 1 \in 1 .. n + 1 /\ After(k + 1)
  <2>1. \A j \in 1 .. (k + 1) - 1 : j \in 1 .. n /\ j <= k
    BY <1>2
  <2>2. \A j \in 1 .. (k + 1) - 1 : h.entries[j].seq <= a + k
    BY <1>2, <1>3, <2>1
  <2>3. k + 1 <= n => k + 1 \in 1 .. n
    BY <1>2
  <2>4. k + 1 <= n => h.entries[k + 1].seq > a + k
    BY <1>2, <1>3, <2>3
  <2> QED
    BY <1>2, <2>2, <2>4
<1>5. ASSUME NEW i \in 1 .. n + 1, After(i) PROVE i = k + 1
  <2>1. CASE i < k + 1
    <3>1. i <= n /\ i \in 1 .. n
      BY <1>2, <2>1
    <3>2. h.entries[i].seq > a + k
      BY <1>5, <3>1
    <3> QED
      BY <1>2, <1>3, <2>1, <3>1, <3>2
  <2>2. CASE i > k + 1
    <3>1. k + 1 \in 1 .. i - 1 /\ k + 1 \in 1 .. n
      BY <1>2, <2>2
    <3>2. h.entries[k + 1].seq <= a + k
      BY <1>5, <3>1
    <3> QED
      BY <1>2, <1>3, <3>1, <3>2
  <2> QED
    BY <1>2, <2>1, <2>2
<1>6. FirstAfter(h.entries, a + k) = CHOOSE i \in 1 .. n + 1 : After(i)
  BY DEF FirstAfter
<1>7. FirstAfter(h.entries, a + k) = k + 1
  <2> HIDE DEF After
  <2> QED
    BY <1>4, <1>5, <1>6
<1> DEFINE es == SubSeq(h.entries, k + 1, n)
<1>8. Unacknowledged(h, a + k) = es
  BY <1>7 DEF Unacknowledged
<1>9. \A i \in k + 1 .. n : h.entries[i] \in Entry
  BY <1>1, <1>2, ElementOfSeq
<1>10. /\ es \in Seq(Entry)
       /\ Len(es) = IF k + 1 <= n THEN n - (k + 1) + 1 ELSE 0
       /\ \A i \in 1 .. n - (k + 1) + 1 : es[i] = h.entries[(k + 1) + i - 1]
  BY <1>2, <1>9, SubSeqProperties
<1> HIDE DEF es
<1>11. Len(es) = n - k /\ \A i \in 1 .. n - k : es[i] = h.entries[k + i]
  BY <1>2, <1>10
<1>12. Contiguous(es, a + k)
  <2>1. \A i \in 1 .. n - k : k + i \in 1 .. n
    BY <1>2
  <2>2. \A i \in 1 .. n - k : es[i].seq = a + (k + i)
    BY <1>3, <1>11, <2>1
  <2>3. \A i \in 1 .. n - k : es[i].seq = (a + k) + i
    BY <1>2, <2>2
  <2>4. Len(es) = n - k
    BY <1>11
  <2> QED
    BY <2>3, <2>4 DEF Contiguous
<1> QED
  BY <1>8, <1>10, <1>11, <1>12 DEF es

(* A command that a good history knows is the k-th after the anchor's.      *)
LEMMA KnownIndex ==
  ASSUME NEW h, GoodHistory(h), NEW u, Known(h, u)
  PROVE  \E k \in 0 .. Len(h.entries) : u.ack = h.anchor.ack + k
<1>1. h.anchor.ack \in Nat /\ Len(h.entries) \in Nat
  BY GoodEnds DEF GoodHistory, Update
<1>2. CASE u.ack = h.anchor.ack
  <2>1. 0 \in 0 .. Len(h.entries) /\ u.ack = h.anchor.ack + 0
    BY <1>1, <1>2
  <2> QED
    BY <2>1
<1>3. CASE \E i \in 1 .. Len(h.entries) : h.entries[i].seq = u.ack
  <2>1. PICK i \in 1 .. Len(h.entries) : h.entries[i].seq = u.ack
    BY <1>3
  <2>2. u.ack = h.anchor.ack + i
    BY <2>1 DEF GoodHistory, Contiguous
  <2>3. i \in 0 .. Len(h.entries)
    BY <1>1
  <2> QED
    BY <2>2, <2>3
<1> QED
  BY <1>2, <1>3 DEF Known

(* A state of its own session that a good history accepts acknowledges the  *)
(* k-th command after the anchor's, and what is predicted on top of it is   *)
(* good: the same commands after that one, from the state's position.       *)
LEMMA AcceptedIsGood ==
  ASSUME NEW h, GoodHistory(h), NEW u \in Sendable, ~ IsReset(u), Accepts(h, u),
         NEW new \in Reconciled(h, u)
  PROVE  /\ GoodHistory(new) /\ new.anchor = u
         /\ u.session = h.anchor.session /\ u.ordinal > h.anchor.ordinal
         /\ \E k \in 0 .. Len(h.entries) :
              /\ u.ack = h.anchor.ack + k
              /\ Len(new.entries) = Len(h.entries) - k
              /\ \A i \in 1 .. Len(h.entries) - k :
                   /\ new.entries[i].seq = h.entries[k + i].seq
                   /\ new.entries[i].move = h.entries[k + i].move
<1> DEFINE n == Len(h.entries)
<1>1. /\ ~ Foreign(h, u) /\ ~ Duplicate(h, u) /\ ~ Older(h, u) /\ ~ Conflicting(h, u)
      /\ Known(h, u) /\ Acceptable(h, u)
  BY DEF Accepts, Verdict
<1>2. /\ h.anchor \in Update /\ u \in Update /\ u.ordinal # 0 /\ n \in Nat
      /\ h.entries \in Seq(Entry)
  BY GoodEnds DEF GoodHistory, Sendable
<1>3. u.session = h.anchor.session
  BY <1>1 DEF Foreign
<1>4. u.ordinal > h.anchor.ordinal
  BY <1>1, <1>2 DEF Older, Conflicting, Accepted, Update
<1>5. PICK k \in 0 .. n : u.ack = h.anchor.ack + k
  BY <1>1, KnownIndex
<1> DEFINE es == Unacknowledged(h, u.ack)
<1>6. /\ es \in Seq(Entry) /\ Len(es) = n - k
      /\ \A i \in 1 .. n - k : es[i] = h.entries[k + i]
      /\ Contiguous(es, u.ack)
  BY <1>5, UnacknowledgedIsRest
<1>7. \A i \in 1 .. n - k : k + i \in 1 .. n
  BY <1>2
<1>8. \A i \in 1 .. n - k : es[i] \in Entry
  BY <1>2, <1>6, <1>7, ElementOfSeq
<1>9. n - k \in Nat
  BY <1>2
<1>10. CASE Exact(h, u)
  <2>1. \A i \in 1 .. Len(es) : es[i].pre = IF i = 1 THEN u.pos ELSE es[i - 1].post
    BY <1>1, <1>10 DEF Acceptable
  <2>2. \A i \in 1 .. n - k : es[i].post = Kernel[<<es[i].pre, es[i].move>>]
    BY <1>6, <1>7 DEF GoodHistory, Chained
  <2>3. new = [anchor |-> u, entries |-> es]
    BY <1>10 DEF Reconciled
  <2> HIDE DEF es
  <2>4. new.anchor = u /\ new.entries = es /\ new \in [anchor : Update, entries : Seq(Entry)]
    BY <1>2, <1>6, <2>3
  <2>5. GoodHistory(new)
    BY <1>6, <2>1, <2>2, <2>4 DEF GoodHistory, Chained
  <2> QED
    BY <1>3, <1>4, <1>5, <1>6, <2>4, <2>5
<1>11. CASE ~ Exact(h, u)
  <2>1. PICK states \in Replays(u.pos, es) : new = [anchor |-> u, entries |-> Replayed(es, states)]
    BY <1>11 DEF Reconciled
  <2>2. \A i \in 1 .. Len(es) :
          es[i].seq \in Nat \ {0} /\ es[i].move \in Moves /\ es[i].jump \in BOOLEAN
    BY <1>6, <1>8 DEF Entry
  <2>3. u.pos \in Positions
    BY <1>2 DEF Update
  <2> DEFINE rs == Replayed(es, states)
  <2> HIDE DEF es
  <2>9. Len(es) \in Nat
    BY <1>6, <1>9
  <2>4. /\ rs \in Seq(Entry) /\ Len(rs) = Len(es)
        /\ \A i \in 1 .. Len(es) :
             /\ rs[i].seq = es[i].seq /\ rs[i].move = es[i].move
             /\ rs[i].pre = IF i = 1 THEN u.pos ELSE rs[i - 1].post
             /\ rs[i].post = Kernel[<<rs[i].pre, rs[i].move>>]
    <3>1. PICK r : r = Replayed(es, states)
      OBVIOUS
    <3>2. rs = r
      BY <3>1 DEF rs
    <3> HIDE DEF rs
    <3> QED
      BY <2>1, <2>2, <2>3, <2>9, <3>1, <3>2, ReplayedIsChained
  <2> HIDE DEF rs
  <2>5. new.anchor = u /\ new.entries = rs /\ new \in [anchor : Update, entries : Seq(Entry)]
    BY <1>2, <2>1, <2>4 DEF rs
  <2>6. Contiguous(rs, u.ack)
    BY <1>6, <2>4 DEF Contiguous
  <2>7. GoodHistory(new)
    BY <2>4, <2>5, <2>6 DEF GoodHistory, Chained
  <2>8. \A i \in 1 .. n - k : rs[i].seq = h.entries[k + i].seq /\ rs[i].move = h.entries[k + i].move
    BY <1>6, <2>4
  <2>10. /\ Len(new.entries) = n - k
         /\ \A i \in 1 .. n - k :
              new.entries[i].seq = h.entries[k + i].seq /\ new.entries[i].move = h.entries[k + i].move
    BY <1>6, <2>4, <2>5, <2>8
  <2> QED
    BY <1>3, <1>4, <1>5, <2>5, <2>7, <2>10
<1> QED
  BY <1>10, <1>11

(* A reset that is accepted forgets everything.                             *)
LEMMA ResetIsGood ==
  ASSUME NEW h, GoodHistory(h), NEW u \in Sendable, IsReset(u), Accepts(h, u),
         NEW new \in Reconciled(h, u)
  PROVE  /\ GoodHistory(new) /\ new = [anchor |-> u, entries |-> <<>>]
         /\ u.session > h.anchor.session /\ u.ordinal > 0 /\ u.ack = 0 /\ u.pos = Spawn
<1>1. new = [anchor |-> u, entries |-> <<>>]
  BY DEF Reconciled
<1>2. /\ u \in Update /\ u.ack = 0 /\ u.ordinal # 0
  BY DEF Sendable, IsReset
<1>3. new.anchor = u /\ new.entries = <<>> /\ new \in [anchor : Update, entries : Seq(Entry)]
  BY <1>1, <1>2
<1>4. GoodHistory(new)
  BY <1>3 DEF GoodHistory, Contiguous, Chained
<1>5. NewGeneration(h, u)
  BY DEF Accepts, Verdict
<1> QED
  BY <1>1, <1>2, <1>4, <1>5 DEF NewGeneration, Update
------------------------------------------------------------------------------
(* What each operation does to a good simulation.                          *)
LEMMA PreparedContinues ==
  ASSUME GoodSimulation, NEW intent \in Intents, NEW elapsed \in Nat,
         NEW batch \in Prepared(intent, elapsed)
  PROVE  /\ batch \in Seq(Entry)
         /\ \A i \in 1 .. Len(batch) :
              batch[i].post = Kernel[<<batch[i].pre, batch[i].move>>]
<1> DEFINE n == Due(elapsed)
           commands == Commands(intent, n)
<1>1. n \in Nat
  BY DEF GoodSimulation, Due
<1>2. next \in Nat \ {0} /\ player.pos \in Positions
  BY GoodEnds DEF GoodSimulation
<1>3. intent.move \in Moves /\ Still \in Moves /\ intent.focused \in BOOLEAN /\ intent.pressed \in BOOLEAN
  BY ControllerAssumption
<1>4. Captured(intent) \in BOOLEAN
  BY <1>3 DEF Captured, GoodSimulation
<1>5. PICK states \in Replays(player.pos, commands) : batch = Replayed(commands, states)
  BY DEF Prepared
<1>6. Len(commands) = n
  BY <1>1 DEF Commands
<1>7. ASSUME NEW i \in 1 .. n
      PROVE  /\ commands[i].seq \in Nat \ {0} /\ commands[i].move \in Moves
             /\ commands[i].jump \in BOOLEAN
  <2>1. commands[i] = [seq |-> next + i - 1,
                       move |-> IF intent.focused THEN intent.move ELSE Still,
                       jump |-> i = 1 /\ Captured(intent)]
    BY DEF Commands
  <2>2. next + i - 1 \in Nat \ {0}
    BY <1>1, <1>2
  <2>3. (i = 1 /\ Captured(intent)) \in BOOLEAN
    BY <1>4
  <2>4. (IF intent.focused THEN intent.move ELSE Still) \in Moves
    BY <1>3
  <2>5. commands[i].seq \in Nat \ {0}
    BY <2>1, <2>2
  <2>6. commands[i].move \in Moves
    BY <2>1, <2>4
  <2>7. commands[i].jump \in BOOLEAN
    BY <2>1, <2>3
  <2> QED
    BY <2>5, <2>6, <2>7
<1> HIDE DEF n, commands
<1>8. /\ batch \in Seq(Entry) /\ Len(batch) = Len(commands)
      /\ \A i \in 1 .. Len(commands) :
           batch[i].post = Kernel[<<batch[i].pre, batch[i].move>>]
  BY <1>1, <1>2, <1>5, <1>6, <1>7, ReplayedIsChained
<1> QED
  BY <1>8

LEMMA UpdateKeepsGood ==
  ASSUME GoodSimulation, NEW intent \in Intents, NEW elapsed \in Nat,
         UpdateLocalInput(intent, elapsed)
  PROVE  GoodSimulation'
<1>1. Captured(intent) \in BOOLEAN
  BY ControllerAssumption DEF Captured, GoodSimulation
<1>2. ASSUME NEW reported, UpdateFails(intent, elapsed, reported)
      PROVE  GoodSimulation'
  <2>1. due' \in Nat \cup {None}
    BY <1>2, ControllerAssumption DEF UpdateFails, GoodSimulation, Least
  <2>2. pending' \in BOOLEAN
    BY <1>1, <1>2 DEF UpdateFails
  <2> QED
    BY <1>2, <2>1, <2>2 DEF UpdateFails, GoodSimulation
<1>3. ASSUME NEW batch \in Prepared(intent, elapsed), Predicts(intent, elapsed, batch)
      PROVE  GoodSimulation'
  <2>1. /\ batch \in Seq(Entry)
        /\ \A i \in 1 .. Len(batch) :
             batch[i].post = Kernel[<<batch[i].pre, batch[i].move>>]
    BY PreparedContinues
  <2>2. /\ batch # <<>> => Continues(history, batch)
        /\ history' = Extended(history, batch)
        /\ player' = [pos |-> Final(batch), seq |-> player.seq + Len(batch)]
        /\ pending' = (Captured(intent) /\ batch = <<>>)
        /\ due' = 0 /\ next' = next + Len(batch)
    BY <1>3 DEF Predicts
  <2>3. pending' \in BOOLEAN /\ due' \in Nat \cup {None}
    BY <1>1, <2>2
  <2>4. CASE batch = <<>>
    <3>1. history \in [anchor : Update, entries : Seq(Entry)]
      BY DEF GoodSimulation, GoodHistory
    <3>2. history.entries \o batch = history.entries
      BY <2>4, <3>1, ConcatEmptySeq
    <3>3. history' = history
      BY <2>2, <3>1, <3>2 DEF Extended
    <3>4. player.seq = Newest(history) /\ player.pos = Current(history) /\ Newest(history) \in Nat
      BY GoodEnds DEF GoodSimulation
    <3>5. Len(batch) = 0 /\ Final(batch) = player.pos
      BY <2>4 DEF Final
    <3>6. player' = [pos |-> Current(history), seq |-> Newest(history)]
      BY <2>2, <3>4, <3>5
    <3>7. next' = Newest(history) + 1
      BY <2>2, <3>4, <3>5 DEF GoodSimulation
    <3> QED
      BY <2>3, <3>3, <3>6, <3>7 DEF GoodSimulation
  <2>5. CASE batch # <<>>
    <3>1. GoodHistory(history)
      BY DEF GoodSimulation
    <3>2. /\ GoodHistory(history')
          /\ Newest(history') = Newest(history) + Len(batch)
          /\ Current(history') = batch[Len(batch)].post
      BY <2>1, <2>2, <2>5, <3>1, ExtendedIsGood
    <3>3. player' = [pos |-> Current(history'), seq |-> Newest(history')]
      BY <2>2, <2>5, <3>2 DEF Final, GoodSimulation
    <3>4. Newest(history) \in Nat /\ Len(batch) \in Nat
      BY <2>1, <3>1, GoodEnds
    <3>5. next' = Newest(history') + 1
      BY <2>2, <3>2, <3>4 DEF GoodSimulation
    <3> QED
      BY <2>3, <3>2, <3>3, <3>5 DEF GoodSimulation
  <2> QED
    BY <2>4, <2>5
<1> QED
  BY <1>2, <1>3 DEF UpdateLocalInput, UpdateRefused

LEMMA AuthorityKeepsGood ==
  ASSUME GoodSimulation, NEW u \in Sendable, ApplyAuthoritativeState(u)
  PROVE  GoodSimulation'
<1>1. CASE UNCHANGED <<simulation, pending>>
  BY <1>1 DEF simulation, GoodSimulation
<1>2. ASSUME Accepts(history, u), NEW new \in Reconciled(history, u), Reconciles(u, new)
      PROVE  GoodSimulation'
  <2>1. GoodHistory(history) /\ history.anchor.ack \in Nat
    BY DEF GoodSimulation, GoodHistory, Update
  <2>2. /\ history' = new
        /\ player' = [pos |-> Current(new), seq |-> Newest(new)]
        /\ CommandStream(u)
    BY <1>2 DEF Reconciles
  <2>3. CASE IsReset(u)
    <3>1. GoodHistory(new) /\ new = [anchor |-> u, entries |-> <<>>] /\ u.ack = 0
      BY <1>2, <2>1, <2>3, ResetIsGood
    <3>2. Newest(new) = 0
      BY <3>1 DEF Newest
    <3>3. pending' = FALSE /\ due' = None /\ next' = 1
      BY <2>2, <2>3 DEF CommandStream
    <3>4. next' = Newest(history') + 1
      BY <2>2, <3>2, <3>3
    <3>6. pending' \in BOOLEAN
      BY <3>3
    <3>7. due' \in Nat \cup {None}
      BY <3>3
    <3>5. GoodHistory(history') /\ player' = [pos |-> Current(history'), seq |-> Newest(history')]
      BY <2>2, <3>1
    <3> QED
      BY <3>4, <3>5, <3>6, <3>7 DEF GoodSimulation
  <2>4. CASE ~ IsReset(u)
    <3>1. /\ GoodHistory(new) /\ new.anchor = u
          /\ \E k \in 0 .. Len(history.entries) :
               /\ u.ack = history.anchor.ack + k
               /\ Len(new.entries) = Len(history.entries) - k
      BY <1>2, <2>1, <2>4, AcceptedIsGood
    <3>2. Newest(new) = u.ack + Len(new.entries)
      BY <3>1, GoodEnds
    <3>3. Newest(history) = history.anchor.ack + Len(history.entries) /\ Len(history.entries) \in Nat
      BY <2>1, GoodEnds
    <3>4. Newest(new) = Newest(history)
      BY <2>1, <3>1, <3>2, <3>3
    <3>5. UNCHANGED <<pending, due, next>>
      BY <2>2, <2>4 DEF CommandStream
    <3> QED
      BY <2>2, <3>1, <3>4, <3>5 DEF GoodSimulation
  <2> QED
    BY <2>3, <2>4
<1> QED
  BY <1>1, <1>2 DEF ApplyAuthoritativeState, AuthorityIgnored, AuthorityRefused

LEMMA CallsKeepGood ==
  ASSUME GoodSimulation, AfterCancel \/ SampleCamera \/ Cancel
  PROVE  GoodSimulation'
<1>1. UNCHANGED <<history, player, due, next>> /\ pending' \in {pending, FALSE}
  BY DEF AfterCancel, SampleCamera, Samples, SampleRefused, Cancel, simulation
<1> QED
  BY <1>1 DEF GoodSimulation
------------------------------------------------------------------------------
(* The authority's queues.                                                 *)
LEMMA ReleaseKeepsGood ==
  ASSUME GoodQueues, NEW u \in Sendable, Releases(u)
  PROVE  output' \in Seq(Sendable) /\ previous' \in Sendable \cup {None}
<1>1. Queued(u) \in Seq(Sendable)
  BY DEF Queued, RepeatDue, GoodQueues
<1> QED
  BY <1>1, ConcatProperties DEF Releases, GoodQueues

LEMMA SubmitKeepsGood ==
  ASSUME IInv, Submit
  PROVE  IInv'
<1>1. UNCHANGED <<controllerVars, scenario, late>>
  BY DEF Submit
<1>2. GoodSimulation'
  BY <1>1 DEF IInv, GoodSimulation, controllerVars
<1>3. PICK i \in 1 .. Len(history.entries) :
        LET seq == server.seq + 1
            simulated == Kernel[<<server.pos, history.entries[i].move>>]
            made == [session |-> server.session, ordinal |-> server.ordinal, ack |-> seq,
                     pos |-> Outcome(simulated, seq),
                     kind |-> IF Correction(seq) = "teleport" THEN "teleport" ELSE "normal"]
            line == Append(delayed, made)
        IN  /\ made.pos \in Positions
            /\ server' = [server EXCEPT !.pos = made.pos, !.seq = seq, !.ordinal = @ + 1]
            /\ IF Len(delayed) = AuthorityDelay
               THEN HasRoom(Head(line)) /\ Releases(Head(line)) /\ delayed' = Tail(line)
               ELSE delayed' = line /\ UNCHANGED <<output, previous, repeated>>
  BY DEF Submit
<1> DEFINE seq == server.seq + 1
           simulated == Kernel[<<server.pos, history.entries[i].move>>]
           made == [session |-> server.session, ordinal |-> server.ordinal, ack |-> seq,
                    pos |-> Outcome(simulated, seq),
                    kind |-> IF Correction(seq) = "teleport" THEN "teleport" ELSE "normal"]
           line == Append(delayed, made)
<1>4. /\ made.pos \in Positions
      /\ server' = [server EXCEPT !.pos = made.pos, !.seq = seq, !.ordinal = @ + 1]
      /\ IF Len(delayed) = AuthorityDelay
         THEN HasRoom(Head(line)) /\ Releases(Head(line)) /\ delayed' = Tail(line)
         ELSE delayed' = line /\ UNCHANGED <<output, previous, repeated>>
  BY <1>3
<1>5. server \in [session : Nat, pos : Positions, seq : Nat, ordinal : Nat \ {0}]
  BY DEF IInv, GoodQueues
<1>6. made \in Sendable
  <2>1. seq \in Nat /\ server.session \in Nat /\ server.ordinal \in Nat \ {0}
    BY <1>5
  <2>2. Outcome(simulated, seq) \in Positions
    BY <1>4
  <2>3. (IF Correction(seq) = "teleport" THEN "teleport" ELSE "normal") \in {"teleport", "normal"}
    OBVIOUS
  <2> HIDE DEF seq, simulated
  <2>4. made \in Update /\ made.ordinal # 0 /\ made.kind # "reset"
    BY <2>1, <2>2, <2>3 DEF Update
  <2> QED
    BY <2>4 DEF Sendable
<1>7. server' \in [session : Nat, pos : Positions, seq : Nat, ordinal : Nat \ {0}]
  <2>1. seq \in Nat /\ server.ordinal + 1 \in Nat \ {0}
    BY <1>5
  <2>2. made.pos \in Positions
    BY <1>4
  <2> HIDE DEF seq, made
  <2> QED
    BY <1>4, <1>5, <2>1, <2>2
<1> HIDE DEF made
<1>8. line \in Seq(Sendable) /\ line # <<>>
  BY <1>6 DEF IInv, GoodQueues
<1>9. Head(line) \in Sendable /\ Tail(line) \in Seq(Sendable)
  BY <1>8, HeadTailProperties
<1> HIDE DEF line
<1>10. CASE Len(delayed) = AuthorityDelay
  <2>1. Releases(Head(line)) /\ delayed' = Tail(line)
    BY <1>4, <1>10
  <2>2. output' \in Seq(Sendable) /\ previous' \in Sendable \cup {None}
    BY <1>9, <2>1, ReleaseKeepsGood DEF IInv
  <2> QED
    BY <1>1, <1>2, <1>7, <1>9, <2>1, <2>2 DEF IInv, GoodQueues
<1>11. CASE Len(delayed) # AuthorityDelay
  BY <1>1, <1>2, <1>4, <1>7, <1>8, <1>11 DEF IInv, GoodQueues
<1> QED
  BY <1>10, <1>11

LEMMA OwnerKeepsGood ==
  ASSUME IInv, Flush \/ Poll \/ Reset \/ ArrivesLate
  PROVE  IInv'
<1>1. CASE Flush
  <2>1. delayed # <<>> /\ Releases(Head(delayed)) /\ delayed' = Tail(delayed)
    BY <1>1 DEF Flush
  <2>2. Head(delayed) \in Sendable /\ delayed' \in Seq(Sendable)
    BY <2>1, HeadTailProperties DEF IInv, GoodQueues
  <2>3. output' \in Seq(Sendable) /\ previous' \in Sendable \cup {None}
    BY <2>1, <2>2, ReleaseKeepsGood DEF IInv
  <2> QED
    BY <1>1, <2>2, <2>3 DEF Flush, IInv, GoodSimulation, GoodQueues, controllerVars
<1>2. CASE Poll
  <2>1. Head(output) \in Sendable /\ output' \in Seq(Sendable)
    BY <1>2, HeadTailProperties DEF Poll, IInv, GoodQueues
  <2>2. GoodSimulation'
    BY <1>2, <2>1, AuthorityKeepsGood, CallsKeepGood DEF Poll, IInv
  <2> QED
    BY <1>2, <2>1, <2>2 DEF Poll, IInv, GoodQueues
<1>3. CASE Reset
  <2>1. server \in [session : Nat, pos : Positions, seq : Nat, ordinal : Nat \ {0}]
    BY DEF IInv, GoodQueues
  <2>2. server.session + 1 \in Nat
    BY <2>1
  <2>3. ResetUpdate \in Sendable
    BY <2>2, PredictionAssumption DEF ResetUpdate, Sendable, Update
  <2>4. GoodSimulation'
    BY <1>3, <2>3, AuthorityKeepsGood DEF Reset, IInv
  <2>5. CASE UNCHANGED authorityVars
    BY <2>4, <2>5 DEF IInv, GoodQueues, authorityVars
  <2>6. CASE history'.anchor = ResetUpdate
    <3>1. /\ server' = Authority(server.session + 1)
          /\ delayed' = <<>> /\ output' = <<>> /\ previous' = None
          /\ late' \in {None} \cup {output[i] : i \in 1 .. Len(output)} \cup {previous}
      BY <1>3, <2>6 DEF Reset
    <3>2. server' \in [session : Nat, pos : Positions, seq : Nat, ordinal : Nat \ {0}]
      BY <2>2, <3>1, PredictionAssumption DEF Authority
    <3>3. \A i \in 1 .. Len(output) : output[i] \in Sendable
      BY ElementOfSeq DEF IInv, GoodQueues
    <3>4. late' \in Sendable \cup {None}
      BY <3>1, <3>3 DEF IInv, GoodQueues
    <3>5. delayed' \in Seq(Sendable) /\ output' \in Seq(Sendable)
      BY <3>1
    <3> QED
      BY <2>4, <3>1, <3>2, <3>4, <3>5 DEF IInv, GoodQueues
  <2> QED
    BY <1>3, <2>5, <2>6 DEF Reset
<1>4. CASE ArrivesLate
  <2>1. late \in Sendable
    BY <1>4 DEF ArrivesLate, IInv, GoodQueues
  <2>2. GoodSimulation'
    BY <1>4, <2>1, AuthorityKeepsGood DEF ArrivesLate, IInv
  <2> QED
    BY <1>4, <2>2 DEF ArrivesLate, IInv, GoodQueues
<1> QED
  BY <1>1, <1>2, <1>3, <1>4

(* The invariant the theorems rest on.                                     *)
LEMMA InitIsGood == Init => IInv
<1> SUFFICES ASSUME Init PROVE IInv
  OBVIOUS
<1>1. InitialHistory.anchor \in Update
  BY PredictionAssumption DEF InitialHistory, Update
<1>2. InitialHistory \in [anchor : Update, entries : Seq(Entry)] /\ InitialHistory.entries = <<>>
  BY <1>1 DEF InitialHistory
<1>3. GoodHistory(InitialHistory)
  BY <1>2 DEF GoodHistory, Contiguous, Chained
<1>4. Current(InitialHistory) = Spawn /\ Newest(InitialHistory) = 0
  BY DEF InitialHistory, Current, Newest
<1>5. GoodSimulation
  <2>1. history = InitialHistory /\ player = [pos |-> Spawn, seq |-> 0]
        /\ due = None /\ next = 1
    BY DEF Init, ControllerInit
  <2>2. pending \in BOOLEAN
    BY DEF Init, ControllerInit
  <2>3. GoodHistory(history) /\ Current(history) = Spawn /\ Newest(history) = 0
    BY <1>3, <1>4, <2>1
  <2>4. player = [pos |-> Current(history), seq |-> Newest(history)] /\ next = Newest(history) + 1
    BY <2>1, <2>3
  <2>5. due \in Nat \cup {None}
    BY <2>1
  <2> QED
    BY <2>2, <2>3, <2>4, <2>5 DEF GoodSimulation
<1>6. GoodQueues
  BY PredictionAssumption DEF Init, Authority, GoodQueues
<1> QED
  BY <1>5, <1>6 DEF IInv

LEMMA StepsKeepGood == IInv /\ [Next]_vars => IInv'
<1> SUFFICES ASSUME IInv, [Next]_vars PROVE IInv'
  OBVIOUS
<1>1. ASSUME NEW intent \in Intents, NEW elapsed \in {0, 1, MaxBatch + 1}, Play(intent, elapsed)
      PROVE  IInv'
  <2>1. elapsed \in Nat
    BY ControllerAssumption
  <2>2. GoodSimulation'
    BY <1>1, <2>1, UpdateKeepsGood, CallsKeepGood DEF Play, IInv
  <2> QED
    BY <1>1, <2>2 DEF Play, IInv, GoodQueues, authorityVars
<1>2. CASE Submit
  BY <1>2, SubmitKeepsGood
<1>3. CASE Flush \/ Poll \/ Reset \/ ArrivesLate
  BY <1>3, OwnerKeepsGood
<1>4. CASE Show \/ Stop
  <2>1. GoodSimulation'
    BY <1>4, CallsKeepGood DEF Show, Stop, IInv
  <2> QED
    BY <1>4, <2>1 DEF Show, Stop, IInv, GoodQueues, authorityVars
<1>5. CASE UNCHANGED vars
  BY <1>5 DEF vars, controllerVars, authorityVars, IInv, GoodSimulation, GoodQueues
<1> QED
  BY <1>1, <1>2, <1>3, <1>4, <1>5 DEF Next

LEMMA AlwaysGood == Spec => []IInv
  BY InitIsGood, StepsKeepGood, PTL DEF Spec

(* The simulation, the scheduler and the history, three objects that keep   *)
(* the number of the newest command apart, agree after every call.         *)
THEOREM PredictionInStep == Spec => []InStep
<1>1. IInv => InStep
  BY DEF IInv, GoodSimulation, GoodHistory, InStep
<1> QED
  BY <1>1, AlwaysGood, PTL
------------------------------------------------------------------------------
(* The refinement.                                                         *)

Commanded(h) ==
  [i \in 1 .. Len(h.entries) |-> [seq |-> h.entries[i].seq, move |-> h.entries[i].move]]

(* The commands of a good history lead from its anchor to its current state. *)
LEMMA GoodLeads ==
  ASSUME NEW h, GoodHistory(h)
  PROVE  Promise!Leads(h.anchor.pos, Commanded(h), Current(h))
<1> DEFINE n == Len(h.entries)
           states == [i \in 0 .. n |-> IF i = 0 THEN h.anchor.pos ELSE h.entries[i].post]
<1>1. h.anchor \in Update /\ h.entries \in Seq(Entry) /\ n \in Nat
  BY GoodEnds DEF GoodHistory
<1>2. h.anchor.pos \in Positions
  BY <1>1 DEF Update
<1>3. \A i \in 1 .. n : h.entries[i].post \in Positions
  <2>1. \A i \in 1 .. n : h.entries[i] \in Entry
    BY <1>1, ElementOfSeq
  <2> QED
    BY <2>1 DEF Entry
<1>4. Len(Commanded(h)) = n
  BY <1>1 DEF Commanded
<1>5. states \in [0 .. n -> Positions]
  BY <1>2, <1>3
<1>6. states[0] = h.anchor.pos
  BY <1>1
<1>7. states[n] = Current(h)
  BY <1>1, EmptySeq DEF Current
<1>8. ASSUME NEW i \in 1 .. n
      PROVE  states[i] = Kernel[<<states[i - 1], Commanded(h)[i].move>>]
  <2>1. h.entries[i].pre = IF i = 1 THEN h.anchor.pos ELSE h.entries[i - 1].post
    BY DEF GoodHistory, Chained
  <2>2. h.entries[i].post = Kernel[<<h.entries[i].pre, h.entries[i].move>>]
    BY DEF GoodHistory, Chained
  <2>3. i \in 0 .. n /\ i - 1 \in 0 .. n /\ i # 0 /\ (i - 1 = 0 <=> i = 1)
    BY <1>1
  <2>4. Commanded(h)[i].move = h.entries[i].move
    BY DEF Commanded
  <2> QED
    BY <2>1, <2>2, <2>3, <2>4
<1> HIDE DEF states
<1> QED
  BY <1>4, <1>5, <1>6, <1>7, <1>8 DEF Promise!Leads

(* A step that leaves the history and the player's position is a stutter.   *)
LEMMA UnchangedStutters ==
  ASSUME UNCHANGED <<history, player>>
  PROVE  UNCHANGED Promise!vars
BY DEF Promise!vars

(* A batch of commands extends what the authority has not acknowledged.     *)
LEMMA ExtensionPredicts ==
  ASSUME GoodSimulation, NEW intent \in Intents, NEW elapsed \in Nat,
         NEW batch \in Prepared(intent, elapsed), Predicts(intent, elapsed, batch),
         GoodSimulation'
  PROVE  [Promise!Next]_Promise!vars
<1> DEFINE n == Len(history.entries)
           b == Len(batch)
<1>1. /\ batch # <<>> => ~ Backpressure(history, batch)
      /\ history' = Extended(history, batch)
      /\ player' = [pos |-> Final(batch), seq |-> player.seq + Len(batch)]
  BY DEF Predicts
<1>2. batch \in Seq(Entry) /\ history.entries \in Seq(Entry) /\ n \in Nat /\ b \in Nat
  BY PreparedContinues, GoodEnds DEF GoodSimulation, GoodHistory
<1>3. CASE batch = <<>>
  <2>1. history \in [anchor : Update, entries : Seq(Entry)]
    BY DEF GoodSimulation, GoodHistory
  <2>2. history.entries \o batch = history.entries
    BY <1>2, <1>3, ConcatEmptySeq
  <2>3. history' = history
    BY <1>1, <2>1, <2>2 DEF Extended
  <2>4. player'.pos = player.pos
    BY <1>1, <1>3 DEF Final
  <2> QED
    BY <2>3, <2>4 DEF Promise!vars
<1>4. CASE batch # <<>>
  <2>1. history'.anchor = history.anchor /\ history'.entries = history.entries \o batch
    BY <1>1 DEF Extended
  <2>2. /\ Len(history'.entries) = n + b
        /\ \A i \in 1 .. n : history'.entries[i] = history.entries[i]
    BY <1>2, <2>1, ConcatProperties
  <2>3. b > 0
    BY <1>2, <1>4, EmptySeq
  <2>4. n + b <= MaxDelay
    BY <1>1, <1>2, <1>4, PredictionAssumption DEF Backpressure
  <2>5. Len(Commanded(history)) = n /\ Len(Commanded(history)') = n + b
    BY <1>2, <2>2 DEF Commanded
  <2>6. SubSeq(Commanded(history)', 1, n) = Commanded(history)
    <3>1. \A i \in 1 .. n : i \in 1 .. n + b
      BY <1>2
    <3>2. \A i \in 1 .. n : Commanded(history)'[i] = Commanded(history)[i]
      BY <2>2, <3>1 DEF Commanded
    <3>3. SubSeq(Commanded(history)', 1, n) = [i \in 1 .. n |-> Commanded(history)'[i]]
      BY <1>2
    <3>4. Commanded(history) = [i \in 1 .. n |-> Commanded(history)[i]]
      BY DEF Commanded
    <3> QED
      BY <3>2, <3>3, <3>4
  <2>7. \A i \in 1 .. n + b : Commanded(history)'[i].seq = history.anchor.ack + i
    BY <2>1, <2>2 DEF Commanded, GoodSimulation, GoodHistory, Contiguous
  <2>8. Promise!Leads(history.anchor.pos, Commanded(history)', player'.pos)
    <3>1. PICK g : g = history'
      OBVIOUS
    <3>2. GoodHistory(g) /\ player'.pos = Current(g)
      BY <3>1 DEF GoodSimulation
    <3>3. Promise!Leads(g.anchor.pos, Commanded(g), Current(g))
      BY <3>2, GoodLeads
    <3>4. Commanded(history)' = Commanded(g)
      BY <3>1 DEF Commanded
    <3> QED
      BY <2>1, <3>1, <3>2, <3>3, <3>4
  <2>9. Promise!Predict
    <3>1. n + b > n
      BY <1>2, <2>3
    <3> QED
      BY <2>1, <2>4, <2>5, <2>6, <2>7, <2>8, <3>1 DEF Promise!Predict, Commanded
  <2> QED
    BY <2>9 DEF Promise!Next
<1> QED
  BY <1>3, <1>4

(* A state that is accepted is newer and takes the place of the commands it  *)
(* acknowledges; a reset starts over.                                      *)
LEMMA AuthorityRebases ==
  ASSUME GoodSimulation, NEW u \in Sendable, ApplyAuthoritativeState(u), GoodSimulation'
  PROVE  [Promise!Next]_Promise!vars
<1> DEFINE n == Len(history.entries)
<1>1. CASE UNCHANGED simulation
  BY <1>1, UnchangedStutters DEF simulation
<1>2. ASSUME Accepts(history, u), NEW new \in Reconciled(history, u), Reconciles(u, new)
      PROVE  Promise!Next
  <2>1. GoodHistory(history) /\ history.anchor.ack \in Nat /\ n \in Nat
    BY GoodEnds DEF GoodSimulation, GoodHistory, Update
  <2>2. history' = new /\ player' = [pos |-> Current(new), seq |-> Newest(new)]
    BY <1>2 DEF Reconciles
  <2>3. CASE IsReset(u)
    <3>1. /\ new.anchor = u /\ new.entries = <<>>
          /\ u.session > history.anchor.session /\ u.ordinal > 0 /\ u.ack = 0 /\ u.pos = Spawn
      BY <1>2, <2>1, <2>3, ResetIsGood
    <3>2. Current(new) = Spawn /\ Commanded(new) = <<>>
      BY <3>1 DEF Current, Commanded
    <3>3. Promise!Restart
      BY <2>2, <3>1, <3>2 DEF Promise!Restart, Commanded
    <3> QED
      BY <3>3 DEF Promise!Next
  <2>4. CASE ~ IsReset(u)
    <3>1. /\ GoodHistory(new) /\ new.anchor = u
          /\ u.session = history.anchor.session /\ u.ordinal > history.anchor.ordinal
      BY <1>2, <2>1, <2>4, AcceptedIsGood
    <3>2. PICK k \in 0 .. n :
            /\ u.ack = history.anchor.ack + k
            /\ Len(new.entries) = n - k
            /\ \A i \in 1 .. n - k :
                 /\ new.entries[i].seq = history.entries[k + i].seq
                 /\ new.entries[i].move = history.entries[k + i].move
      <4>1. PICK h : h = history
        OBVIOUS
      <4>2. GoodHistory(h) /\ Accepts(h, u) /\ new \in Reconciled(h, u) /\ n = Len(h.entries)
        BY <1>2, <2>1, <4>1
      <4> HIDE DEF n
      <4>3. \E k \in 0 .. n :
              /\ u.ack = h.anchor.ack + k
              /\ Len(new.entries) = n - k
              /\ \A i \in 1 .. n - k :
                   /\ new.entries[i].seq = h.entries[k + i].seq
                   /\ new.entries[i].move = h.entries[k + i].move
        BY <2>4, <4>2, AcceptedIsGood
      <4> QED
        BY <4>1, <4>3
    <3>3. u.ack \in history.anchor.ack .. history.anchor.ack + n
      BY <2>1, <3>2
    <3>4. u.pos \in Positions
      BY DEF Sendable, Update
    <3>5. Commanded(new) = SubSeq(Commanded(history), k + 1, n)
      <4>1. n - k \in Nat /\ k \in Nat /\ Len(Commanded(history)) = n
        BY <2>1 DEF Commanded
      <4>2. SubSeq(Commanded(history), k + 1, n)
              = [i \in 1 .. n - (k + 1) + 1 |-> Commanded(history)[(k + 1) + i - 1]]
        OBVIOUS
      <4>3. \A i \in 1 .. n - k : (k + 1) + i - 1 = k + i /\ k + i \in 1 .. n
        BY <2>1, <4>1
      <4>4. \A i \in 1 .. n - k :
              Commanded(history)[k + i] = [seq |-> new.entries[i].seq, move |-> new.entries[i].move]
        BY <3>2, <4>3 DEF Commanded
      <4>5. n - (k + 1) + 1 = n - k
        BY <2>1, <4>1
      <4>6. SubSeq(Commanded(history), k + 1, n)
              = [i \in 1 .. n - k |-> [seq |-> new.entries[i].seq, move |-> new.entries[i].move]]
        BY <4>2, <4>3, <4>4, <4>5
      <4> QED
        BY <3>2, <4>6 DEF Commanded
    <3>6. Promise!Leads(u.pos, Commanded(new), Current(new))
      BY <3>1, GoodLeads
    <3>7. (u.ack - history.anchor.ack) + 1 = k + 1 /\ Len(Commanded(history)) = n
      BY <2>1, <3>2 DEF Commanded
    <3>8. Promise!Rebase
      BY <2>2, <3>1, <3>3, <3>4, <3>5, <3>6, <3>7 DEF Promise!Rebase, Commanded
    <3> QED
      BY <3>8 DEF Promise!Next
  <2> QED
    BY <2>3, <2>4
<1> QED
  BY <1>1, <1>2 DEF ApplyAuthoritativeState, AuthorityIgnored, AuthorityRefused

LEMMA InitialPromise == Init => Promise!Init
<1> SUFFICES ASSUME Init PROVE Promise!Init
  OBVIOUS
<1>1. history = InitialHistory /\ player.pos = Spawn
  BY DEF Init, ControllerInit
<1>2. /\ history.anchor.session = 0 /\ history.anchor.ordinal = 0 /\ history.anchor.ack = 0
      /\ history.anchor.pos = Spawn /\ history.entries = <<>>
  BY <1>1 DEF InitialHistory
<1> QED
  BY <1>1, <1>2 DEF Promise!Init

LEMMA StepsKeepPromise == IInv /\ IInv' /\ [Next]_vars => [Promise!Next]_Promise!vars
<1> SUFFICES ASSUME IInv, IInv', [Next]_vars PROVE [Promise!Next]_Promise!vars
  OBVIOUS
<1>1. ASSUME NEW intent \in Intents, NEW elapsed \in {0, 1, MaxBatch + 1}, Play(intent, elapsed)
      PROVE  [Promise!Next]_Promise!vars
  <2>1. elapsed \in Nat
    BY ControllerAssumption
  <2>2. CASE UNCHANGED <<history, player>>
    BY <2>2, UnchangedStutters
  <2>3. ASSUME NEW batch \in Prepared(intent, elapsed), Predicts(intent, elapsed, batch)
        PROVE  [Promise!Next]_Promise!vars
    BY <2>1, <2>3, ExtensionPredicts DEF IInv
  <2> QED
    BY <1>1, <2>2, <2>3
    DEF Play, AfterCancel, UpdateLocalInput, UpdateRefused, UpdateFails, simulation
<1>2. CASE UNCHANGED <<history, player>>
  BY <1>2, UnchangedStutters
<1>3. ASSUME NEW u \in Sendable, ApplyAuthoritativeState(u)
      PROVE  [Promise!Next]_Promise!vars
  BY <1>3, AuthorityRebases DEF IInv
<1>4. CASE Poll
  <2>1. Head(output) \in Sendable
    BY <1>4, HeadTailProperties DEF Poll, IInv, GoodQueues
  <2> QED
    BY <1>2, <1>3, <1>4, <2>1 DEF Poll, AfterCancel, simulation
<1>5. CASE Reset
  <2>1. ResetUpdate \in Sendable
    <3>1. server.session + 1 \in Nat
      BY DEF IInv, GoodQueues
    <3> QED
      BY <3>1, PredictionAssumption DEF ResetUpdate, Sendable, Update
  <2> QED
    BY <1>3, <1>5, <2>1 DEF Reset
<1>6. CASE ArrivesLate
  BY <1>3, <1>6 DEF ArrivesLate, IInv, GoodQueues
<1>7. CASE Submit \/ Flush \/ Show \/ Stop \/ UNCHANGED vars
  <2>1. UNCHANGED <<history, player>>
    BY <1>7 DEF Submit, Flush, Show, Stop, SampleCamera, Samples, SampleRefused, Cancel,
                simulation, vars, controllerVars
  <2> QED
    BY <2>1, UnchangedStutters
<1> QED
  BY <1>1, <1>4, <1>5, <1>6, <1>7 DEF Next

(* The player is always where the newest authoritative state accepted leads *)
(* under the commands it does not acknowledge: no command is lost, applied  *)
(* twice or out of order by a delayed, repeated, stale or foreign state, by *)
(* a correction, a refused update or a reset.                              *)
THEOREM PredictionKeepsPromise == Spec => KeepsPromise
<1>1. IInv /\ IInv' /\ [Next]_vars => [Promise!Next]_Promise!vars
  BY StepsKeepPromise
<1> QED
  BY <1>1, InitialPromise, AlwaysGood, PTL DEF Spec, KeepsPromise, Promise!Spec
------------------------------------------------------------------------------
(* The states the authority has made in this session are told apart by the  *)
(* command they acknowledge, and count it with their ordinal.               *)

Elements(s) == {s[i] : i \in 1 .. Len(s)}

Made == Elements(output) \cup Elements(delayed) \cup ({previous} \ {None})

\* The anchor, once the authority made it.
Anchored == IF history.anchor.kind = "reset" \/ ~ Accepted(history) THEN {} ELSE {history.anchor}

Offset == IF server.session = 0 THEN 0 ELSE 1

GoodStream ==
  /\ history.anchor.session = server.session
  /\ Anchored = {} => history.anchor.ack = 0 /\ history.anchor.ordinal = Offset
  /\ \A u \in Made \cup Anchored :
       /\ u \in Sendable /\ u.kind # "reset" /\ u.session = server.session
       /\ u.ordinal = u.ack + Offset /\ u.ack \in 1 .. server.seq
  /\ \A u, v \in Made \cup Anchored : u.ack = v.ack => u = v
  /\ server.ordinal = server.seq + Offset + 1 /\ server.seq <= Newest(history)
  /\ late # None => late.kind # "reset" /\ late.session # server.session

LEMMA ElementsOfSequences ==
  ASSUME NEW S, NEW s \in Seq(S), NEW t \in Seq(S), NEW x \in S
  PROVE  /\ Elements(s \o t) = Elements(s) \cup Elements(t)
         /\ Elements(Append(s, x)) = Elements(s) \cup {x}
         /\ s # <<>> => Head(s) \in Elements(s) /\ Elements(Tail(s)) \subseteq Elements(s)
         /\ Elements(s) \subseteq S
<1>1. Len(s) \in Nat /\ Len(t) \in Nat
  OBVIOUS
<1>2. Elements(s \o t) = Elements(s) \cup Elements(t)
  <2>1. /\ Len(s \o t) = Len(s) + Len(t)
        /\ \A i \in 1 .. Len(s) + Len(t) : (s \o t)[i] = IF i <= Len(s) THEN s[i] ELSE t[i - Len(s)]
    BY ConcatProperties
  <2>2. ASSUME NEW y \in Elements(s \o t) PROVE y \in Elements(s) \cup Elements(t)
    <3>1. PICK i \in 1 .. Len(s) + Len(t) : y = (s \o t)[i]
      BY <2>1 DEF Elements
    <3>2. CASE i <= Len(s)
      BY <1>1, <2>1, <3>1, <3>2 DEF Elements
    <3>3. CASE ~ (i <= Len(s))
      <4>1. i - Len(s) \in 1 .. Len(t)
        BY <1>1, <3>3
      <4> QED
        BY <2>1, <3>1, <3>3, <4>1 DEF Elements
    <3> QED
      BY <3>2, <3>3
  <2>3. ASSUME NEW i \in 1 .. Len(s) PROVE s[i] \in Elements(s \o t)
    <3>1. i \in 1 .. Len(s) + Len(t) /\ i <= Len(s)
      BY <1>1
    <3>2. (s \o t)[i] = s[i]
      BY <2>1, <3>1
    <3> QED
      BY <2>1, <3>1, <3>2 DEF Elements
  <2>4. ASSUME NEW i \in 1 .. Len(t) PROVE t[i] \in Elements(s \o t)
    <3>1. Len(s) + i \in 1 .. Len(s) + Len(t) /\ ~ (Len(s) + i <= Len(s)) /\ (Len(s) + i) - Len(s) = i
      BY <1>1
    <3>2. (s \o t)[Len(s) + i] = t[i]
      BY <2>1, <3>1
    <3> QED
      BY <2>1, <3>1, <3>2 DEF Elements
  <2> QED
    BY <2>2, <2>3, <2>4 DEF Elements
<1>3. Elements(Append(s, x)) = Elements(s) \cup {x}
  <2>1. /\ Len(Append(s, x)) = Len(s) + 1
        /\ \A i \in 1 .. Len(s) : Append(s, x)[i] = s[i]
        /\ Append(s, x)[Len(s) + 1] = x
    BY AppendProperties
  <2>2. \A i : i \in 1 .. Len(s) + 1 <=> i \in 1 .. Len(s) \/ i = Len(s) + 1
    BY <1>1
  <2> QED
    BY <2>1, <2>2 DEF Elements
<1>4. ASSUME s # <<>> PROVE Head(s) \in Elements(s) /\ Elements(Tail(s)) \subseteq Elements(s)
  <2>1. /\ Head(s) = s[1] /\ Len(Tail(s)) = Len(s) - 1
        /\ \A i \in 1 .. Len(Tail(s)) : Tail(s)[i] = s[i + 1]
    BY <1>4, HeadTailProperties
  <2>2. 1 \in 1 .. Len(s)
    BY <1>1, <1>4, EmptySeq
  <2>3. \A i \in 1 .. Len(s) - 1 : i + 1 \in 1 .. Len(s)
    BY <1>1
  <2> QED
    BY <2>1, <2>2, <2>3 DEF Elements
<1>5. Elements(s) \subseteq S
  BY ElementOfSeq DEF Elements
<1> QED
  BY <1>2, <1>3, <1>4, <1>5

(* What the calls of the controller do to the anchor.                       *)
LEMMA UpdateKeepsAnchor ==
  ASSUME GoodSimulation, NEW intent \in Intents, NEW elapsed \in Nat,
         UpdateLocalInput(intent, elapsed)
  PROVE  history'.anchor = history.anchor /\ Newest(history') >= Newest(history)
<1>1. GoodHistory(history) /\ Newest(history) \in Nat
  BY GoodEnds DEF GoodSimulation
<1>2. CASE history' = history
  BY <1>1, <1>2
<1>3. ASSUME NEW batch \in Prepared(intent, elapsed), Predicts(intent, elapsed, batch)
      PROVE  history'.anchor = history.anchor /\ Newest(history') >= Newest(history)
  <2>1. /\ batch \in Seq(Entry)
        /\ \A i \in 1 .. Len(batch) :
             batch[i].post = Kernel[<<batch[i].pre, batch[i].move>>]
    BY PreparedContinues
  <2>2. history' = Extended(history, batch) /\ (batch # <<>> => Continues(history, batch))
    BY <1>3 DEF Predicts
  <2>3. history'.anchor = history.anchor /\ history'.entries = history.entries \o batch
    BY <2>2 DEF Extended
  <2>4. CASE batch = <<>>
    <3>1. history'.entries = history.entries
      BY <2>3, <2>4, <1>1, ConcatEmptySeq DEF GoodHistory
    <3> QED
      BY <1>1, <2>3, <3>1 DEF Newest
  <2>5. CASE batch # <<>>
    <3>1. Newest(history') = Newest(history) + Len(batch)
      BY <1>1, <2>1, <2>2, <2>5, ExtendedIsGood
    <3>2. Len(batch) \in Nat
      BY <2>1
    <3> QED
      BY <1>1, <2>3, <3>1, <3>2
  <2> QED
    BY <2>4, <2>5
<1> QED
  BY <1>2, <1>3 DEF UpdateLocalInput, UpdateRefused, UpdateFails

LEMMA AuthorityMovesAnchor ==
  ASSUME GoodSimulation, NEW u \in Sendable, ApplyAuthoritativeState(u)
  PROVE  \/ history' = history
         \/ /\ ~ IsReset(u) /\ history'.anchor = u
            /\ u.session = history.anchor.session /\ Newest(history') = Newest(history)
         \/ /\ IsReset(u) /\ history'.anchor = u /\ Newest(history') \in Nat
            /\ u.session > history.anchor.session /\ Verdict(history, u) # "foreign"
<1>1. CASE UNCHANGED simulation
  BY <1>1 DEF simulation
<1>2. ASSUME Accepts(history, u), NEW new \in Reconciled(history, u), Reconciles(u, new)
      PROVE  \/ /\ ~ IsReset(u) /\ history'.anchor = u
                /\ u.session = history.anchor.session /\ Newest(history') = Newest(history)
             \/ /\ IsReset(u) /\ history'.anchor = u /\ Newest(history') \in Nat
                /\ u.session > history.anchor.session
  <2>1. GoodHistory(history) /\ history' = new /\ player.seq = Newest(history)
    BY <1>2 DEF Reconciles, GoodSimulation
  <2>2. CASE IsReset(u)
    <3>1. GoodHistory(new) /\ new.anchor = u /\ u.session > history.anchor.session
      BY <1>2, <2>1, <2>2, ResetIsGood
    <3> QED
      BY <2>1, <2>2, <3>1, GoodEnds
  <2>3. CASE ~ IsReset(u)
    <3>1. new.anchor = u /\ u.session = history.anchor.session
      BY <1>2, <2>1, <2>3, AcceptedIsGood
    <3>2. Newest(new) = player.seq
      BY <1>2, <2>3 DEF Reconciles, Replaceable
    <3> QED
      BY <2>1, <2>3, <3>1, <3>2
  <2> QED
    BY <2>2, <2>3
<1>3. Accepts(history, u) => Verdict(history, u) # "foreign"
  BY DEF Accepts
<1> QED
  BY <1>1, <1>2, <1>3 DEF ApplyAuthoritativeState, AuthorityIgnored, AuthorityRefused

(* Nothing new in the stream.                                              *)
LEMMA StreamNarrows ==
  ASSUME GoodStream, server' = server, history'.anchor.session = history.anchor.session,
         (Made \cup Anchored)' \subseteq Made \cup Anchored,
         Anchored' # {} \/ history'.anchor = history.anchor,
         server.seq <= Newest(history'),
         late' \in {late, None}
  PROVE  GoodStream'
<1>1. Anchored' = {} => history'.anchor.ack = 0 /\ history'.anchor.ordinal = Offset'
  BY DEF GoodStream, Anchored, Offset, Accepted
<1>2. Offset' = Offset
  BY DEF Offset
<1> QED
  BY <1>1, <1>2 DEF GoodStream

(* One state more, of the next command.                                    *)
LEMMA StreamGrows ==
  ASSUME GoodStream, GoodQueues, NEW made \in Sendable, made.kind # "reset",
         made.session = server.session, made.ordinal = server.ordinal, made.ack = server.seq + 1,
         server'.session = server.session, server'.seq = server.seq + 1,
         server'.ordinal = server.ordinal + 1,
         history' = history, late' = late, Made' \subseteq Made \cup {made},
         server.seq + 1 <= Newest(history)
  PROVE  GoodStream'
<1>1. Anchored' = Anchored /\ Offset' = Offset
  BY DEF Anchored, Offset, Accepted
<1>2. server.seq \in Nat /\ server.ordinal \in Nat /\ Offset \in Nat
  BY DEF GoodQueues, Offset
<1>3. ASSUME NEW u \in (Made \cup Anchored)'
      PROVE  /\ u \in Sendable /\ u.kind # "reset" /\ u.session = server'.session
             /\ u.ordinal = u.ack + Offset /\ u.ack \in 1 .. server'.seq
  <2>1. CASE u = made
    BY <1>2, <2>1 DEF GoodStream
  <2>2. CASE u \in Made \cup Anchored
    BY <1>2, <2>2 DEF GoodStream
  <2> QED
    BY <1>1, <2>1, <2>2
<1>4. ASSUME NEW u \in (Made \cup Anchored)', NEW v \in (Made \cup Anchored)', u.ack = v.ack
      PROVE  u = v
  <2>1. \A w \in Made \cup Anchored : w.ack # made.ack
    BY <1>2 DEF GoodStream
  <2>2. u \in (Made \cup Anchored) \cup {made} /\ v \in (Made \cup Anchored) \cup {made}
    BY <1>1
  <2> QED
    BY <1>4, <2>1, <2>2 DEF GoodStream
<1>5. server'.ordinal = server'.seq + Offset + 1 /\ server'.seq <= Newest(history')
  BY <1>2 DEF GoodStream
<1> QED
  BY <1>1, <1>3, <1>4, <1>5 DEF GoodStream

LEMMA ReleaseNarrows ==
  ASSUME GoodQueues, NEW u \in Sendable, Releases(u)
  PROVE  Elements(output') \cup ({previous'} \ {None})
           \subseteq Elements(output) \cup {u} \cup ({previous} \ {None})
<1>1. CASE ~ RepeatDue(u)
  <2>1. Queued(u) = <<u>> /\ <<u>> \in Seq(Sendable)
    BY <1>1 DEF Queued
  <2>2. Elements(<<u>>) = {u}
    BY DEF Elements
  <2>3. Elements(output') = Elements(output) \cup {u}
    <3>1. PICK q : q = <<u>>
      OBVIOUS
    <3>2. output' = output \o q /\ output \in Seq(Sendable) /\ q \in Seq(Sendable)
      BY <2>1, <2>2, <3>1 DEF Releases, GoodQueues
    <3>3. Elements(output \o q) = Elements(output) \cup Elements(q)
      BY <3>2, ElementsOfSequences
    <3> QED
      BY <2>1, <2>2, <3>1, <3>2, <3>3
  <2> QED
    BY <2>3 DEF Releases
<1>2. CASE RepeatDue(u)
  <2>1. previous \in Sendable /\ previous # None
    BY <1>2 DEF RepeatDue, GoodQueues
  <2>2. Queued(u) = <<u, u, previous>> /\ <<u, u, previous>> \in Seq(Sendable)
    BY <1>2, <2>1 DEF Queued
  <2>3. Elements(<<u, u, previous>>) = {u, previous}
    BY DEF Elements
  <2>4. Elements(output') = Elements(output) \cup {u, previous}
    <3>1. PICK q : q = <<u, u, previous>>
      OBVIOUS
    <3>2. output' = output \o q /\ output \in Seq(Sendable) /\ q \in Seq(Sendable)
      BY <2>2, <2>3, <3>1 DEF Releases, GoodQueues
    <3>3. Elements(output \o q) = Elements(output) \cup Elements(q)
      BY <3>2, ElementsOfSequences
    <3> QED
      BY <2>2, <2>3, <3>1, <3>2, <3>3
  <2> QED
    BY <2>1, <2>4 DEF Releases
<1> QED
  BY <1>1, <1>2

LEMMA InitialStream == Init => GoodStream
<1> SUFFICES ASSUME Init PROVE GoodStream
  OBVIOUS
<1>1. /\ history = InitialHistory /\ server = Authority(0)
      /\ output = <<>> /\ delayed = <<>> /\ previous = None /\ late = None
  BY DEF Init, ControllerInit
<1>2. Made = {}
  BY <1>1 DEF Made, Elements
<1>3. Anchored = {} /\ history.anchor.ack = 0 /\ history.anchor.ordinal = 0 /\ history.anchor.session = 0
  BY <1>1 DEF InitialHistory, Anchored, Accepted
<1>4. server.session = 0 /\ server.seq = 0 /\ server.ordinal = 1
  BY <1>1 DEF Authority
<1>5. Newest(history) = 0
  BY <1>1 DEF InitialHistory, Newest
<1> QED
  BY <1>1, <1>2, <1>3, <1>4, <1>5 DEF GoodStream, Offset

LEMMA SubmitKeepsStream ==
  ASSUME IInv, GoodStream, Submit
  PROVE  GoodStream'
<1>1. history' = history /\ late' = late
  BY DEF Submit, controllerVars
<1>2. PICK i \in 1 .. Len(history.entries) :
        LET seq == server.seq + 1
            simulated == Kernel[<<server.pos, history.entries[i].move>>]
            made == [session |-> server.session, ordinal |-> server.ordinal, ack |-> seq,
                     pos |-> Outcome(simulated, seq),
                     kind |-> IF Correction(seq) = "teleport" THEN "teleport" ELSE "normal"]
            line == Append(delayed, made)
        IN  /\ history.entries[i].seq = seq
            /\ made.pos \in Positions
            /\ server' = [server EXCEPT !.pos = made.pos, !.seq = seq, !.ordinal = @ + 1]
            /\ IF Len(delayed) = AuthorityDelay
               THEN HasRoom(Head(line)) /\ Releases(Head(line)) /\ delayed' = Tail(line)
               ELSE delayed' = line /\ UNCHANGED <<output, previous, repeated>>
  BY DEF Submit
<1> DEFINE seq == server.seq + 1
           simulated == Kernel[<<server.pos, history.entries[i].move>>]
           made == [session |-> server.session, ordinal |-> server.ordinal, ack |-> seq,
                    pos |-> Outcome(simulated, seq),
                    kind |-> IF Correction(seq) = "teleport" THEN "teleport" ELSE "normal"]
           line == Append(delayed, made)
<1>3. /\ history.entries[i].seq = seq /\ made.pos \in Positions
      /\ server' = [server EXCEPT !.pos = made.pos, !.seq = seq, !.ordinal = @ + 1]
      /\ IF Len(delayed) = AuthorityDelay
         THEN HasRoom(Head(line)) /\ Releases(Head(line)) /\ delayed' = Tail(line)
         ELSE delayed' = line /\ UNCHANGED <<output, previous, repeated>>
  BY <1>2
<1>4. /\ server \in [session : Nat, pos : Positions, seq : Nat, ordinal : Nat \ {0}]
      /\ delayed \in Seq(Sendable) /\ output \in Seq(Sendable) /\ GoodQueues
  BY DEF IInv, GoodQueues
<1>5. /\ server'.session = server.session /\ server'.seq = server.seq + 1
      /\ server'.ordinal = server.ordinal + 1
  BY <1>3, <1>4
<1>6. /\ made.session = server.session /\ made.ordinal = server.ordinal
      /\ made.ack = server.seq + 1 /\ made.kind \in {"teleport", "normal"}
  OBVIOUS
<1>7. made \in Sendable
  <2>1. seq \in Nat /\ server.session \in Nat /\ server.ordinal \in Nat \ {0}
    BY <1>4
  <2>2. Outcome(simulated, seq) \in Positions
    BY <1>3
  <2> HIDE DEF seq, simulated
  <2>4. made \in Update /\ made.ordinal # 0 /\ made.kind # "reset"
    BY <2>1, <2>2 DEF Update
  <2> QED
    BY <2>4 DEF Sendable
<1>8. server.seq + 1 <= Newest(history)
  <2>1. GoodHistory(history)
    BY DEF IInv, GoodSimulation
  <2>2. history.entries[i].seq = history.anchor.ack + i
    BY <2>1 DEF GoodHistory, Contiguous
  <2>3. history.anchor.ack \in Nat /\ Len(history.entries) \in Nat
    BY <2>1, GoodEnds DEF GoodHistory, Update
  <2>4. Newest(history) = history.anchor.ack + Len(history.entries)
    BY <2>1, GoodEnds
  <2> QED
    BY <1>3, <2>2, <2>3, <2>4
<1> HIDE DEF made
<1>9. /\ line \in Seq(Sendable) /\ line # <<>> /\ Elements(line) = Elements(delayed) \cup {made}
  BY <1>4, <1>7, ElementsOfSequences
<1> HIDE DEF line
<1>10. Head(line) \in Elements(line) /\ Elements(Tail(line)) \subseteq Elements(line)
       /\ Head(line) \in Sendable
  BY <1>7, <1>9, ElementsOfSequences
<1>11. Made' \subseteq Made \cup {made}
  <2>1. CASE Len(delayed) = AuthorityDelay
    <3>1. Releases(Head(line)) /\ delayed' = Tail(line)
      BY <1>3, <2>1
    <3>2. Elements(output') \cup ({previous'} \ {None})
            \subseteq Elements(output) \cup {Head(line)} \cup ({previous} \ {None})
      BY <1>4, <1>10, <3>1, ReleaseNarrows
    <3>3. Elements(delayed') \subseteq Elements(line)
      BY <1>10, <3>1
    <3> QED
      BY <1>9, <1>10, <3>2, <3>3 DEF Made
  <2>2. CASE Len(delayed) # AuthorityDelay
    <3>1. delayed' = line /\ UNCHANGED <<output, previous>>
      BY <1>3, <2>2
    <3> QED
      BY <1>9, <3>1 DEF Made
  <2> QED
    BY <2>1, <2>2
<1>12. made.kind # "reset"
  BY <1>6
<1> QED
  BY <1>1, <1>4, <1>5, <1>6, <1>7, <1>8, <1>11, <1>12, StreamGrows

LEMMA StepsKeepStream == IInv /\ IInv' /\ GoodStream /\ [Next]_vars => GoodStream'
<1> SUFFICES ASSUME IInv, IInv', GoodStream, [Next]_vars PROVE GoodStream'
  OBVIOUS
<1>1. /\ GoodSimulation /\ GoodQueues /\ Newest(history) \in Nat /\ Newest(history') \in Nat
      /\ server.seq \in Nat /\ output \in Seq(Sendable) /\ delayed \in Seq(Sendable)
      /\ server.seq <= Newest(history)
  BY GoodEnds DEF IInv, GoodSimulation, GoodQueues, GoodStream
<1>2. ASSUME history'.anchor = history.anchor, Newest(history') >= Newest(history),
             server' = server, Made' \subseteq Made, late' = late
      PROVE  GoodStream'
  <2>1. Anchored' = Anchored
    BY <1>2 DEF Anchored, Accepted
  <2>2. server.seq <= Newest(history')
    BY <1>1, <1>2
  <2> QED
    BY <1>2, <2>1, <2>2, StreamNarrows
<1>3. ASSUME history' = history, server' = server, Made' \subseteq Made, late' = late
      PROVE  GoodStream'
  BY <1>1, <1>2, <1>3
<1>4. ASSUME NEW intent \in Intents, NEW elapsed \in {0, 1, MaxBatch + 1}, Play(intent, elapsed)
      PROVE  GoodStream'
  <2>1. elapsed \in Nat
    BY ControllerAssumption
  <2>2. server' = server /\ late' = late /\ Made' = Made
    BY <1>4 DEF Play, authorityVars, Made
  <2>3. CASE UpdateLocalInput(intent, elapsed)
    BY <1>1, <1>2, <2>1, <2>2, <2>3, UpdateKeepsAnchor
  <2>4. CASE AfterCancel
    BY <1>3, <2>2, <2>4 DEF AfterCancel, simulation
  <2> QED
    BY <1>4, <2>3, <2>4 DEF Play
<1>5. CASE Submit
  BY <1>5, SubmitKeepsStream
<1>6. CASE Flush
  <2>1. /\ delayed # <<>> /\ Releases(Head(delayed)) /\ delayed' = Tail(delayed)
        /\ history' = history /\ server' = server /\ late' = late
    BY <1>6 DEF Flush, controllerVars
  <2>2. Head(delayed) \in Sendable
    BY <1>1, <2>1, HeadTailProperties
  <2>3. Head(delayed) \in Elements(delayed) /\ Elements(delayed') \subseteq Elements(delayed)
    BY <1>1, <2>1, <2>2, ElementsOfSequences
  <2>4. Elements(output') \cup ({previous'} \ {None})
          \subseteq Elements(output) \cup {Head(delayed)} \cup ({previous} \ {None})
    BY <1>1, <2>1, <2>2, ReleaseNarrows
  <2>5. Made' \subseteq Made
    BY <2>3, <2>4 DEF Made
  <2> QED
    BY <1>3, <2>1, <2>5
<1>7. CASE Poll
  <2>1. /\ output # <<>> /\ output' = Tail(output)
        /\ server' = server /\ late' = late /\ delayed' = delayed /\ previous' = previous
    BY <1>7 DEF Poll
  <2> DEFINE u == Head(output)
  <2>2. u \in Sendable
    BY <1>1, <2>1, HeadTailProperties
  <2>3. u \in Elements(output) /\ Elements(output') \subseteq Elements(output)
    BY <1>1, <2>1, <2>2, ElementsOfSequences
  <2>4. u \in Made /\ Made' \subseteq Made
    BY <2>1, <2>3 DEF Made, Elements
  <2>5. ~ IsReset(u)
    BY <2>4 DEF GoodStream, IsReset
  <2>6. CASE history' = history
    BY <1>3, <2>1, <2>4, <2>6
  <2>7. CASE /\ history'.anchor = u /\ u.session = history.anchor.session
             /\ Newest(history') = Newest(history)
    <3>1. Anchored' = {u}
      BY <2>2, <2>5, <2>7 DEF Anchored, Accepted, Sendable, IsReset
    <3>2. (Made \cup Anchored)' \subseteq Made \cup Anchored
      BY <2>4, <3>1
    <3>3. server.seq <= Newest(history')
      BY <1>1, <2>7
    <3>4. history'.anchor.session = history.anchor.session
      BY <2>7
    <3>5. Anchored' # {}
      BY <3>1
    <3> QED
      BY <2>1, <3>2, <3>3, <3>4, <3>5, StreamNarrows
  <2>8. AfterCancel \/ ApplyAuthoritativeState(u)
    BY <1>7 DEF Poll
  <2>9. AfterCancel => history' = history
    BY DEF AfterCancel, simulation
  <2> HIDE DEF u
  <2> QED
    BY <1>1, <2>2, <2>5, <2>6, <2>7, <2>8, <2>9, AuthorityMovesAnchor
<1>8. CASE Reset
  <2>1. ResetUpdate \in Sendable /\ IsReset(ResetUpdate)
    <3>1. server.session + 1 \in Nat
      BY DEF IInv, GoodQueues
    <3> QED
      BY <3>1, PredictionAssumption DEF ResetUpdate, Sendable, Update, IsReset
  <2>2. ApplyAuthoritativeState(ResetUpdate)
    BY <1>8 DEF Reset
  <2>3. server.session \in Nat /\ history.anchor.session = server.session
    BY DEF IInv, GoodQueues, GoodStream
  <2>4. ResetUpdate.session = server.session + 1 /\ ResetUpdate.ack = 0
        /\ ResetUpdate.ordinal = 1 /\ ResetUpdate.kind = "reset"
    BY DEF ResetUpdate
  <2>5. CASE history'.anchor # ResetUpdate
    <3>1. UNCHANGED authorityVars
      BY <1>8, <2>5 DEF Reset
    <3>2. history' = history
      BY <1>1, <2>1, <2>2, <2>5, AuthorityMovesAnchor
    <3> QED
      BY <1>3, <3>1, <3>2 DEF authorityVars, Made
  <2>6. CASE history'.anchor = ResetUpdate
    <3>1. /\ server' = Authority(server.session + 1)
          /\ delayed' = <<>> /\ output' = <<>> /\ previous' = None
          /\ late' \in {None} \cup {output[i] : i \in 1 .. Len(output)} \cup {previous}
      BY <1>8, <2>6 DEF Reset
    <3>2. server'.session = server.session + 1 /\ server'.seq = 0 /\ server'.ordinal = 2
      BY <2>3, <3>1 DEF Authority
    <3>3. Made' = {} /\ Anchored' = {}
      BY <2>4, <2>6, <3>1 DEF Made, Elements, Anchored
    <3>4. late' # None => late' \in Made
      BY <3>1 DEF Made, Elements
    <3>5. late' # None => late'.kind # "reset" /\ late'.session # server'.session
      BY <2>3, <3>2, <3>4 DEF GoodStream
    <3>6. Offset' = 1
      BY <2>3, <3>2 DEF Offset
    <3>7. history'.anchor.session = server'.session /\ history'.anchor.ack = 0
          /\ history'.anchor.ordinal = 1
      BY <2>4, <2>6, <3>2
    <3>8. server'.seq <= Newest(history')
      BY <1>1, <3>2
    <3> QED
      BY <3>2, <3>3, <3>5, <3>6, <3>7, <3>8 DEF GoodStream
  <2> QED
    BY <2>5, <2>6
<1>9. CASE ArrivesLate
  <2>1. /\ late # None /\ ApplyAuthoritativeState(late) /\ late' = None
        /\ server' = server /\ Made' = Made
    BY <1>9 DEF ArrivesLate, Made
  <2>2. late \in Sendable /\ ~ IsReset(late) /\ late.session # history.anchor.session
    BY <1>1, <2>1 DEF GoodQueues, GoodStream, IsReset
  <2>3. history' = history
    BY <1>1, <2>1, <2>2, AuthorityMovesAnchor
  <2>4. Anchored' = Anchored
    BY <2>3 DEF Anchored, Accepted
  <2> QED
    BY <1>1, <2>1, <2>3, <2>4, StreamNarrows
<1>10. CASE Show \/ Stop \/ UNCHANGED vars
  <2>1. history' = history /\ server' = server /\ late' = late /\ Made' = Made
    BY <1>10 DEF Show, Stop, SampleCamera, Samples, SampleRefused, Cancel, simulation,
                 vars, controllerVars, authorityVars, Made
  <2> QED
    BY <1>3, <2>1
<1> QED
  BY <1>4, <1>5, <1>6, <1>7, <1>8, <1>9, <1>10 DEF Next

(* A state the authority sends in this session is never taken for a conflict *)
(* or for one that acknowledges a command the player never made.            *)
THEOREM AuthorityAlwaysUnderstood == Spec => []AuthorityIsUnderstood
<1>1. IInv /\ GoodStream => AuthorityIsUnderstood
  <2> SUFFICES ASSUME IInv, GoodStream, output # <<>>,
                      Head(output).session = history.anchor.session
               PROVE  Verdict(history, Head(output)) \notin {"conflict", "unknown_command"}
    BY DEF AuthorityIsUnderstood
  <2>1. PICK u : u = Head(output)
    OBVIOUS
  <2>2. u \in Made
    <3>1. output \in Seq(Sendable)
      BY DEF IInv, GoodQueues
    <3>2. u \in Sendable
      BY <2>1, <3>1, HeadTailProperties
    <3> QED
      BY <2>1, <3>1, <3>2, ElementsOfSequences DEF Made
  <2>3. /\ u \in Sendable /\ u \in Update /\ ~ IsReset(u) /\ u.ordinal = u.ack + Offset
        /\ u.ack \in 1 .. server.seq /\ server.seq \in Nat
    BY <2>2 DEF GoodStream, IsReset, IInv, GoodQueues, Sendable
  <2>4. GoodHistory(history) /\ history.anchor \in Update /\ Len(history.entries) \in Nat
        /\ Newest(history) = history.anchor.ack + Len(history.entries)
    BY GoodEnds DEF IInv, GoodSimulation, GoodHistory
  <2>5. u.ack <= history.anchor.ack + Len(history.entries)
    BY <2>3, <2>4 DEF GoodStream, Update
  <2>6. CASE Anchored = {}
    <3>1. history.anchor.ack = 0 /\ history.anchor.ordinal = Offset
      BY <2>6 DEF GoodStream
    <3>2. ~ Conflicting(history, u)
      BY <2>3, <3>1 DEF Conflicting, Update, Offset
    <3>3. u.ack \in 1 .. Len(history.entries)
      BY <2>3, <2>4, <2>5, <3>1
    <3>4. history.entries[u.ack].seq = 0 + u.ack
      BY <2>4, <3>1, <3>3 DEF GoodHistory, Contiguous
    <3>5. Known(history, u)
      BY <2>3, <3>3, <3>4 DEF Known
    <3> QED
      BY <2>1, <2>3, <3>2, <3>5 DEF Verdict
  <2>7. CASE Anchored # {}
    <3>1. Anchored = {history.anchor} /\ Accepted(history)
      BY <2>7 DEF Anchored
    <3>2. history.anchor.ordinal = history.anchor.ack + Offset /\ history.anchor.ack \in 1 .. server.seq
      BY <3>1 DEF GoodStream
    <3>3. Offset \in Nat
      BY DEF Offset
    <3>4. CASE u.ack = history.anchor.ack
      <4>1. u = history.anchor
        BY <2>2, <3>1, <3>4 DEF GoodStream
      <4>2. Duplicate(history, u)
        BY <3>1, <4>1 DEF Duplicate
      <4> QED
        BY <2>1, <4>2 DEF Verdict
    <3>5. CASE u.ack < history.anchor.ack
      <4>1. u.ordinal < history.anchor.ordinal
        BY <2>3, <3>2, <3>3, <3>5
      <4>2. Older(history, u)
        BY <3>1, <4>1 DEF Older
      <4> QED
        BY <2>1, <2>3, <4>2 DEF Verdict
    <3>6. CASE u.ack > history.anchor.ack
      <4>1. ~ Conflicting(history, u)
        BY <2>3, <3>2, <3>3, <3>6 DEF Conflicting
      <4>2. u.ack - history.anchor.ack \in 1 .. Len(history.entries)
        BY <2>3, <2>4, <2>5, <3>2, <3>6
      <4>3. history.entries[u.ack - history.anchor.ack].seq
              = history.anchor.ack + (u.ack - history.anchor.ack)
        BY <2>4, <4>2 DEF GoodHistory, Contiguous
      <4>4. history.anchor.ack + (u.ack - history.anchor.ack) = u.ack
        BY <2>3, <3>2
      <4>5. Known(history, u)
        BY <4>2, <4>3, <4>4 DEF Known
      <4> QED
        BY <2>1, <2>3, <4>1, <4>5 DEF Verdict
    <3> QED
      BY <2>3, <3>2, <3>4, <3>5, <3>6
  <2> QED
    BY <2>6, <2>7
<1>2. Spec => []GoodStream
  BY InitIsGood, StepsKeepGood, InitialStream, StepsKeepStream, PTL DEF Spec
<1> QED
  BY <1>1, <1>2, AlwaysGood, PTL
------------------------------------------------------------------------------
(* The cameras: what the caller was given last is what the correction has   *)
(* published, or the player's own camera before it has published anything.  *)

Picture == [eye : Int, look : Looks, revision : Nat]

Smoothing == [residual : Int, left : Nat, published : Picture \cup {None}]

Given(c, physical) == IF c.published = None THEN physical ELSE c.published

CameraInv ==
  /\ camera \in Picture /\ shown \in Picture /\ unsampled \in Int
  /\ visual \in Smoothing
  /\ cancelled \/ shown = Given(visual, camera)

\* What may follow the picture old.
Follows(old, new) ==
  IF Content(new) = Content(old) THEN new = old ELSE new.revision > old.revision

LEMMA FollowsItself ==
  ASSUME NEW p PROVE Follows(p, p)
  BY DEF Follows

LEMMA FollowsWithMore ==
  ASSUME NEW p, NEW q, Content(q) # Content(p), q.revision > p.revision
  PROVE  Follows(p, q)
  BY DEF Follows

LEMMA NoneIsNoPicture == None \notin Picture
  BY CameraAssumption DEF Picture

(* Two pictures with one content and one revision are the same.             *)
LEMMA PicturesAreTold ==
  ASSUME NEW p \in Picture, NEW q \in Picture,
         Content(p) = Content(q), p.revision = q.revision
  PROVE  p = q
<1>1. p.eye = q.eye /\ p.look = q.look
  BY DEF Content
<1> QED
  BY <1>1 DEF Picture

LEMMA PlayerCameraFollows ==
  ASSUME NEW old \in Picture, NEW pos \in Positions, NEW look \in Looks
  PROVE  PlayerCamera(old, pos, look) \in Picture /\ Follows(old, PlayerCamera(old, pos, look))
<1> DEFINE new == PlayerCamera(old, pos, look)
<1>1. EyeScale * pos \in Int
  BY PredictionAssumption, CameraAssumption
<1>2. old.revision \in Nat
  BY DEF Picture
<1>3. /\ new.eye = EyeScale * pos /\ new.look = look
      /\ new.revision = IF <<EyeScale * pos, look>> = Content(old)
                        THEN old.revision ELSE old.revision + 1
      /\ new = [eye |-> new.eye, look |-> new.look, revision |-> new.revision]
  BY DEF PlayerCamera
<1>4. new.revision \in Nat
  BY <1>2, <1>3
<1>5. new \in Picture
  BY <1>1, <1>3, <1>4 DEF Picture
<1>6. Content(new) = <<EyeScale * pos, look>>
  BY <1>3 DEF Content
<1> HIDE DEF new
<1>7. Follows(old, new)
  <2>1. CASE Content(new) = Content(old)
    BY <1>3, <1>5, <1>6, <2>1, PicturesAreTold, FollowsItself
  <2>2. CASE Content(new) # Content(old)
    <3>1. new.revision = old.revision + 1
      BY <1>3, <1>6, <2>2
    <3>2. new.revision > old.revision
      BY <1>2, <3>1
    <3> QED
      BY <2>2, <3>2, FollowsWithMore
  <2> QED
    BY <2>1, <2>2
<1> QED
  BY <1>5, <1>7 DEF new

(* A residual decays to an integer, and the time it has left to none.       *)
LEMMA ResidualIsInteger ==
  ASSUME NEW c \in Smoothing, NEW elapsed \in Int
  PROVE  ResidualAt(c, elapsed) \in Int /\ Left(c, elapsed) \in Nat
<1>1. PICK residual \in Int, left \in Nat : c.residual = residual /\ c.left = left
  BY DEF Smoothing
<1>2. Left(c, elapsed) \in Nat
  BY <1>1 DEF Left
<1> DEFINE rest == Left(c, elapsed)
<1> HIDE DEF rest
<1>3. Magnitude(residual) \in Nat
  BY DEF Magnitude
<1>4. Magnitude(residual) * rest \in Int
  BY <1>2, <1>3 DEF rest
<1>5. left # 0 => (Magnitude(residual) * rest) \div left \in Int
  BY <1>4
<1>6. CASE ~ Active(c) \/ left = 0
  BY <1>1, <1>2, <1>6 DEF ResidualAt
<1>7. CASE Active(c) /\ left # 0
  <2>1. PICK decayed \in Int : (Magnitude(residual) * rest) \div left = decayed
    BY <1>5, <1>7
  <2>2. ResidualAt(c, elapsed) = IF residual < 0 THEN - decayed ELSE decayed
    BY <1>1, <1>7, <2>1 DEF ResidualAt, rest
  <2> QED
    BY <1>2, <2>2
<1> QED
  BY <1>6, <1>7

LEMMA DisplacedIsSmoothing ==
  ASSUME NEW c \in Smoothing, NEW residual \in Int, NEW left \in Nat
  PROVE  /\ Displaced(c, residual, left) \in Smoothing
         /\ Displaced(c, residual, left).published = c.published
         /\ Displaced(c, residual, left).residual = residual
<1>1. PICK r0 \in Int, l0 \in Nat, published \in Picture \cup {None} :
        c = [residual |-> r0, left |-> l0, published |-> published]
  BY DEF Smoothing
<1>2. c.published = published
  BY <1>1
<1>3. ASSUME NEW r1 \in Int, NEW l1 \in Nat
      PROVE  [c EXCEPT !.residual = r1, !.left = l1]
               = [residual |-> r1, left |-> l1, published |-> published]
  <2>1. PICK d : d = [c EXCEPT !.residual = r1]
    OBVIOUS
  <2>2. d = [residual |-> r1, left |-> l0, published |-> published]
    BY <1>1, <2>1
  <2>3. [d EXCEPT !.left = l1] = [residual |-> r1, left |-> l1, published |-> published]
    BY <2>2
  <2> QED
    BY <2>1, <2>3
<1>4. [c EXCEPT !.residual = residual, !.left = left]
        = [residual |-> residual, left |-> left, published |-> published]
  BY <1>3, Zenon
<1>5. Settled(c) = [residual |-> 0, left |-> 0, published |-> published]
  <2>1. 0 \in Int /\ 0 \in Nat
    OBVIOUS
  <2> QED
    BY <1>3, <2>1, Zenon DEF Settled
<1> QED
  BY <1>1, <1>2, <1>4, <1>5 DEF Displaced, Smoothing

(* A correction begun keeps what was published.                             *)
LEMMA BegunIsSmoothing ==
  ASSUME NEW c \in Smoothing, NEW oldEye \in Int, NEW newEye \in Int, NEW class,
         NEW elapsed \in Int
  PROVE  /\ Begun(c, oldEye, newEye, class, elapsed) \in Smoothing
         /\ Begun(c, oldEye, newEye, class, elapsed).published = c.published
<1>1. ResidualAt(c, elapsed) \in Int /\ Left(c, elapsed) \in Nat
  BY ResidualIsInteger
<1>2. oldEye - newEye + ResidualAt(c, elapsed) \in Int
  BY <1>1
<1>3. Duration \in Nat
  BY CameraAssumption
<1>4. Settled(c) \in Smoothing /\ Settled(c).published = c.published
  <2>1. Displaced(c, 0, 0) = Settled(c)
    BY DEF Displaced
  <2> QED
    BY <2>1, DisplacedIsSmoothing
<1>5. /\ Displaced(c, ResidualAt(c, elapsed), Left(c, elapsed)) \in Smoothing
      /\ Displaced(c, ResidualAt(c, elapsed), Left(c, elapsed)).published = c.published
  BY <1>1, DisplacedIsSmoothing
<1>6. /\ Displaced(c, oldEye - newEye + ResidualAt(c, elapsed), Duration) \in Smoothing
      /\ Displaced(c, oldEye - newEye + ResidualAt(c, elapsed), Duration).published = c.published
  BY <1>2, <1>3, DisplacedIsSmoothing
<1> QED
  BY <1>4, <1>5, <1>6, Zenon DEF Begun

(* A sample publishes the camera displaced by what is left, in a picture    *)
(* that follows both the one before and a camera given since.               *)
LEMMA SampledFollows ==
  ASSUME NEW c \in Smoothing, NEW physical \in Picture, NEW r \in Int, NEW elapsed \in Int,
         NEW old \in Picture,
         c.published = None => IF r = 0 THEN Follows(old, physical) ELSE old = physical,
         c.published # None => old = c.published
  PROVE  /\ Sampled(c, physical, r, elapsed) \in Smoothing
         /\ Sampled(c, physical, r, elapsed).published \in Picture
         /\ Sampled(c, physical, r, elapsed).residual = r
         /\ Follows(old, Sampled(c, physical, r, elapsed).published)
         /\ r = 0 => Content(Sampled(c, physical, r, elapsed).published) = Content(physical)
<1> DEFINE d == Displaced(c, r, Left(c, elapsed))
           new == [eye |-> physical.eye + r, look |-> physical.look,
                   revision |-> NextRevision(c, physical, r)]
<1>1. PICK eye \in Int, look \in Looks, n \in Nat :
        /\ physical.eye = eye /\ physical.look = look /\ physical.revision = n
        /\ physical = [eye |-> eye, look |-> look, revision |-> n]
  BY DEF Picture
<1>2. c.published # None => c.published \in Picture
  BY DEF Smoothing
<1>3. PICK m \in Nat : PublishedRevision(c) = m
  BY <1>2 DEF PublishedRevision, Picture
<1>4. PublicationBase(c, physical) = IF n < m THEN m ELSE n
  BY <1>1, <1>3 DEF PublicationBase
<1>5. PICK next0 \in Nat : NextRevision(c, physical, r) = next0
  <2>1. c.published # None => c.published.revision \in Nat
    BY <1>2 DEF Picture
  <2>2. PublicationBase(c, physical) + 1 \in Nat
    BY <1>4
  <2> QED
    BY <1>1, <2>1, <2>2 DEF NextRevision
<1>6. new \in Picture
  BY <1>1, <1>5 DEF Picture
<1>7. new.eye = eye + r /\ new.look = look /\ new.revision = NextRevision(c, physical, r)
  BY <1>1
<1>8. d \in Smoothing /\ d.residual = r
  BY ResidualIsInteger, DisplacedIsSmoothing
<1>9. Sampled(c, physical, r, elapsed) = [d EXCEPT !.published = new]
  BY DEF Sampled
<1>10. /\ Sampled(c, physical, r, elapsed) \in Smoothing
       /\ Sampled(c, physical, r, elapsed).published = new
       /\ Sampled(c, physical, r, elapsed).residual = r
  BY <1>6, <1>8, <1>9 DEF Smoothing
<1> HIDE DEF new
<1>11. Content(new) = <<eye + r, look>>
  BY <1>7 DEF Content
<1>12. r = 0 => Content(new) = Content(physical)
  BY <1>1, <1>11 DEF Content
<1>13. Follows(old, new)
  <2>1. CASE c.published = None
    <3>1. m = 0
      BY <1>3, <2>1 DEF PublishedRevision
    <3>2. CASE r = 0
      <4>1. new.revision = n
        BY <1>1, <2>1, <1>7, <3>2 DEF NextRevision, ContentChanged
      <4>2. new = physical
        BY <1>1, <1>6, <1>12, <3>2, <4>1, PicturesAreTold
      <4>3. Follows(old, physical)
        BY <2>1, <3>2
      <4> QED
        BY <4>2, <4>3
    <3>3. CASE r # 0
      <4>1. new.revision = n + 1
        BY <1>4, <2>1, <1>7, <3>1, <3>3 DEF NextRevision, ContentChanged
      <4>2. old = physical
        BY <2>1, <3>3
      <4>3. new.revision > old.revision
        BY <1>1, <4>1, <4>2
      <4>4. eye + r # eye
        BY <3>3
      <4>5. Content(new) # Content(old)
        BY <1>1, <1>11, <4>2, <4>4 DEF Content
      <4> QED
        BY <4>3, <4>5, FollowsWithMore
    <3> QED
      BY <3>2, <3>3
  <2>2. CASE c.published # None
    <3>1. old = c.published /\ old.revision = m
      BY <1>3, <2>2 DEF PublishedRevision
    <3>2. CASE Content(new) = Content(old)
      <4>1. ~ ContentChanged(c, physical, r)
        BY <1>1, <1>11, <2>2, <3>1, <3>2 DEF ContentChanged
      <4>2. new.revision = m
        BY <2>2, <1>7, <3>1, <4>1 DEF NextRevision
      <4> QED
        BY <1>6, <3>1, <3>2, <4>2, PicturesAreTold, FollowsItself
    <3>3. CASE Content(new) # Content(old)
      <4>1. ContentChanged(c, physical, r)
        BY <1>1, <1>11, <2>2, <3>1, <3>3 DEF ContentChanged
      <4>2. new.revision = IF r = 0 /\ n > m THEN n ELSE PublicationBase(c, physical) + 1
        BY <1>1, <1>3, <1>7, <4>1 DEF NextRevision
      <4>3. new.revision > m
        BY <1>4, <4>2
      <4> QED
        BY <3>1, <3>3, <4>3, FollowsWithMore
    <3> QED
      BY <3>2, <3>3
  <2> QED
    BY <2>1, <2>2
<1> QED
  BY <1>6, <1>10, <1>12, <1>13

(* A call ends with the player's camera published, or with what was          *)
(* published before while a correction is active.                           *)
LEMMA ReturnedFollows ==
  ASSUME NEW c \in Smoothing, NEW physical \in Picture, NEW reported, NEW old \in Picture,
         c.published = None => Follows(old, physical),
         c.published # None => old = c.published,
         Returned(c, physical, reported)
  PROVE  /\ visual' \in Smoothing /\ shown' \in Picture
         /\ shown' = Given(visual', physical)
         /\ Follows(old, shown')
         /\ Active(visual') \/ status' = "failed" \/ Content(shown') = Content(physical)
<1> DEFINE after == Sampled(c, physical, 0, 0)
<1>1. /\ after \in Smoothing /\ after.published \in Picture
      /\ Follows(old, after.published)
      /\ Content(after.published) = Content(physical)
  BY SampledFollows
<1>2. CASE ~ Active(c) /\ ~ SampleFails(c, physical, 0)
  <2>1. visual' = after
    BY <1>2 DEF Returned
  <2>2. after.published # None
    BY <1>1, NoneIsNoPicture
  <2>3. shown' = after.published
    BY <1>2, <2>1, <2>2 DEF Returned
  <2> QED
    BY <1>1, <2>1, <2>2, <2>3 DEF Given
<1>3. CASE Active(c) \/ SampleFails(c, physical, 0)
  <2>1. /\ visual' = c
        /\ shown' = IF c.published = None THEN physical ELSE c.published
        /\ Active(c) \/ status' = "failed"
    BY <1>3 DEF Returned
  <2>2. c.published # None => c.published \in Picture
    BY DEF Smoothing
  <2>3. c.published # None => Follows(old, c.published)
    BY DEF Follows
  <2> QED
    BY <2>1, <2>2, <2>3 DEF Given
<1> QED
  BY <1>2, <1>3

\* Nothing was shown amiss: what the theorems say, of one step.
StepShows ==
  /\ CameraInv'
  /\ cancelled \/ Follows(shown, shown')
  /\ ShowsThePlayer'

(* A call that ends with Returned, and gives the player a camera that        *)
(* follows its own.                                                         *)
LEMMA CallShows ==
  ASSUME CameraInv, NEW c \in Smoothing, c.published = visual.published, NEW reported,
         camera' \in Picture, Follows(camera, camera'), unsampled' \in Int,
         cancelled' = cancelled,
         Returned(c, camera', reported)
  PROVE  StepShows
<1> DEFINE old == IF c.published = None THEN camera ELSE c.published
<1>1. old \in Picture
  BY DEF CameraInv, Smoothing
<1>2. /\ c.published = None => Follows(old, camera')
      /\ c.published # None => old = c.published
  OBVIOUS
<1> HIDE DEF old
<1>3. /\ visual' \in Smoothing /\ shown' \in Picture
      /\ shown' = Given(visual', camera')
      /\ Follows(old, shown')
      /\ Active(visual') \/ status' = "failed" \/ Content(shown') = Content(camera')
  BY <1>1, <1>2, ReturnedFollows
<1>4. cancelled \/ shown = old
  BY DEF CameraInv, Given, old
<1>5. CameraInv'
  BY <1>3 DEF CameraInv, Given
<1> QED
  BY <1>3, <1>4, <1>5 DEF StepShows, ShowsThePlayer

LEMMA SamplesShow ==
  ASSUME CameraInv, Samples
  PROVE  StepShows
<1>1. ResidualAt(visual, unsampled) \in Int
  BY ResidualIsInteger DEF CameraInv
<1>2. PICK r \in Traced(ResidualAt(visual, unsampled)) :
        visual' = Sampled(visual, camera, r, unsampled)
  BY DEF Samples
<1>3. r \in Int
  BY <1>1, <1>2 DEF Traced
<1>4. shown' = visual'.published /\ unsampled' = 0 /\ UNCHANGED <<camera, cancelled>>
  BY DEF Samples
<1> DEFINE old == IF visual.published = None THEN camera ELSE visual.published
<1>5. old \in Picture
  BY DEF CameraInv, Smoothing
<1>6. /\ visual.published = None =>
           IF r = 0 THEN Follows(old, camera) ELSE old = camera
      /\ visual.published # None => old = visual.published
  BY DEF Follows
<1> HIDE DEF old
<1>7. /\ visual' \in Smoothing /\ visual'.published \in Picture
      /\ visual'.residual = r
      /\ Follows(old, visual'.published)
      /\ r = 0 => Content(visual'.published) = Content(camera)
  <2>1. visual \in Smoothing /\ camera \in Picture /\ unsampled \in Int
    BY DEF CameraInv
  <2> QED
    BY <1>2, <1>3, <1>5, <1>6, <2>1, SampledFollows
<1>8. cancelled \/ shown = old
  BY DEF CameraInv, Given, old
<1>9. visual'.published # None
  BY <1>7, NoneIsNoPicture
<1>10. CameraInv'
  BY <1>4, <1>7, <1>9 DEF CameraInv, Given
<1>11. ShowsThePlayer'
  BY <1>4, <1>7 DEF ShowsThePlayer, Active
<1> QED
  BY <1>4, <1>7, <1>8, <1>10, <1>11 DEF StepShows

(* Every call of the controller.                                            *)
LEMMA UpdateShows ==
  ASSUME IInv, IInv', CameraInv, NEW intent \in Intents, NEW elapsed \in Nat,
         UpdateLocalInput(intent, elapsed)
  PROVE  StepShows
<1>1. visual \in Smoothing /\ camera \in Picture /\ unsampled \in Int
  BY DEF CameraInv
<1>2. Elapses(elapsed) => unsampled' \in Int
  <2>1. PICK left \in Nat : visual.left = left
    BY <1>1 DEF Smoothing
  <2>2. unsampled + elapsed \in Int
    BY <1>1
  <2> QED
    BY <2>1, <2>2 DEF Elapses, Least
<1>3. ASSUME NEW reported, UpdateFails(intent, elapsed, reported)
      PROVE  StepShows
  BY <1>1, <1>2, <1>3, FollowsItself, CallShows DEF UpdateFails
<1>4. ASSUME NEW batch, Predicts(intent, elapsed, batch)
      PROVE  StepShows
  <2>1. LookOf(intent) \in Looks
    BY <1>1, ControllerAssumption DEF LookOf, Picture
  <2>2. player'.pos \in Positions
    BY GoodEnds DEF IInv, GoodSimulation
  <2>3. player'.pos = Final(batch)
    BY <1>4 DEF Predicts
  <2>4. camera' = PlayerCamera(camera, Final(batch), LookOf(intent))
    BY <1>4 DEF Predicts
  <2>5. camera' \in Picture /\ Follows(camera, camera')
    BY <1>1, <2>1, <2>2, <2>3, <2>4, PlayerCameraFollows
  <2> QED
    BY <1>1, <1>2, <1>4, <2>5, CallShows DEF Predicts
<1> QED
  BY <1>3, <1>4 DEF UpdateLocalInput, UpdateRefused

LEMMA AuthorityShows ==
  ASSUME IInv, IInv', CameraInv, NEW u, ApplyAuthoritativeState(u)
  PROVE  StepShows
<1>1. visual \in Smoothing /\ camera \in Picture /\ unsampled \in Int
  BY DEF CameraInv
<1>2. ASSUME NEW reported, Returned(visual, camera, reported),
             UNCHANGED <<camera, unsampled, cancelled>>
      PROVE  StepShows
  BY <1>1, <1>2, FollowsItself, CallShows
<1>3. ASSUME NEW new, Reconciles(u, new)
      PROVE  StepShows
  <2>1. player'.pos \in Positions /\ player'.pos = Current(new)
    BY <1>3, GoodEnds DEF Reconciles, IInv, GoodSimulation
  <2>2. camera.look \in Looks /\ camera.eye \in Int
    BY <1>1 DEF Picture
  <2>3. camera' = PlayerCamera(camera, Current(new), camera.look)
    BY <1>3 DEF Reconciles
  <2>4. camera' \in Picture /\ Follows(camera, camera')
    BY <1>1, <2>1, <2>2, <2>3, PlayerCameraFollows
  <2>5. EyeScale * Current(new) \in Int
    <3>1. Current(new) \in Int
      BY <2>1, Zenon, PredictionAssumption
    <3>2. EyeScale \in Int
      BY CameraAssumption
    <3> QED
      BY <3>1, <3>2
  <2>6. PICK begun : begun = Begun(visual, camera.eye, EyeScale * Current(new),
                                   CorrectionClass(history, u, new), unsampled)
    OBVIOUS
  <2>7. begun \in Smoothing /\ begun.published = visual.published
    BY <1>1, <2>2, <2>5, <2>6, BegunIsSmoothing
  <2>8. PICK reported : Returned(begun, camera', reported)
    BY <1>3, <2>6 DEF Reconciles
  <2>9. unsampled' = 0 /\ cancelled' = cancelled
    BY <1>3 DEF Reconciles
  <2> QED
    BY <2>4, <2>7, <2>8, <2>9, CallShows
<1> QED
  BY <1>2, <1>3 DEF ApplyAuthoritativeState, AuthorityIgnored, AuthorityRefused, simulation

LEMMA OtherCallsShow ==
  ASSUME CameraInv, AfterCancel \/ SampleCamera \/ Cancel
  PROVE  StepShows
<1>1. visual \in Smoothing /\ camera \in Picture /\ unsampled \in Int
  BY DEF CameraInv
<1>2. CASE AfterCancel \/ SampleRefused
  BY <1>1, <1>2, FollowsItself, CallShows DEF AfterCancel, SampleRefused, simulation
<1>3. CASE Samples
  BY <1>3, SamplesShow
<1>4. CASE Cancel
  <2>1. UNCHANGED <<camera, shown, unsampled>> /\ cancelled' = TRUE
        /\ visual' = Inactive /\ status' = "cancelled"
    BY <1>4 DEF Cancel, simulation
  <2>2. Inactive \in Smoothing
    BY DEF Inactive, Smoothing
  <2>3. CameraInv'
    BY <2>1, <2>2 DEF CameraInv
  <2> QED
    BY <2>1, <2>3, FollowsItself DEF StepShows, ShowsThePlayer
<1> QED
  BY <1>2, <1>3, <1>4 DEF SampleCamera

LEMMA StepsShow ==
  ASSUME IInv, IInv', CameraInv, ShowsThePlayer, [Next]_vars
  PROVE  StepShows
<1>1. CASE UNCHANGED controllerVars
  <2>1. UNCHANGED <<camera, visual, unsampled, shown, status, cancelled>>
    BY <1>1 DEF controllerVars
  <2> QED
    BY <2>1, FollowsItself DEF CameraInv, ShowsThePlayer, StepShows
<1>2. CASE Submit \/ Flush \/ UNCHANGED vars
  <2>1. CASE Submit
    BY <1>1, <2>1, Zenon DEF Submit
  <2>2. CASE Flush
    BY <1>1, <2>2, Zenon DEF Flush
  <2>3. CASE UNCHANGED vars
    BY <1>1, <2>3, Zenon DEF vars
  <2> QED
    BY <1>2, <2>1, <2>2, <2>3
<1>3. ASSUME NEW intent \in Intents, NEW elapsed \in {0, 1, MaxBatch + 1}, Play(intent, elapsed)
      PROVE  StepShows
  <2>1. elapsed \in Nat
    BY ControllerAssumption
  <2> QED
    BY <1>3, <2>1, UpdateShows, OtherCallsShow DEF Play
<1>4. CASE Poll \/ Reset \/ ArrivesLate
  BY <1>4, AuthorityShows, OtherCallsShow DEF Poll, Reset, ArrivesLate
<1>5. CASE Show \/ Stop
  BY <1>5, OtherCallsShow DEF Show, Stop
<1> QED
  BY <1>2, <1>3, <1>4, <1>5 DEF Next

LEMMA InitialCameraShows == Init => CameraInv /\ ShowsThePlayer
<1> SUFFICES ASSUME Init PROVE CameraInv /\ ShowsThePlayer
  OBVIOUS
<1>1. PICK look \in Looks : camera = InitialCamera(look)
  BY DEF Init, ControllerInit
<1>2. visual = Inactive /\ unsampled = 0 /\ shown = camera
  BY DEF Init, ControllerInit
<1>3. camera \in Picture
  BY <1>1, PredictionAssumption, CameraAssumption DEF InitialCamera, Picture
<1>4. Inactive \in Smoothing
  BY DEF Inactive, Smoothing
<1>5. shown = Given(visual, camera) /\ unsampled \in Int
  BY <1>2 DEF Given, Inactive
<1>6. CameraInv
  BY <1>2, <1>3, <1>4, <1>5, Zenon DEF CameraInv
<1> QED
  BY <1>2, <1>6 DEF ShowsThePlayer

LEMMA CameraAlways == Spec => [](CameraInv /\ ShowsThePlayer)
<1>1. IInv /\ IInv' /\ (CameraInv /\ ShowsThePlayer) /\ [Next]_vars
        => (CameraInv /\ ShowsThePlayer)'
  BY StepsShow DEF StepShows
<1> QED
  BY <1>1, InitialCameraShows, AlwaysGood, PTL DEF Spec

(* Once no correction is left to smooth and no call has failed, the camera  *)
(* the caller was given is the player's: a correction that ends, or is      *)
(* dropped by a reset, a snap or a failure, leaves no displacement behind.  *)
THEOREM TheCameraShowsThePlayer == Spec => []ShowsThePlayer
  BY CameraAlways, PTL

(* Until the controller is cancelled, the revision of the camera the caller *)
(* is given grows exactly when its content changes, whatever corrections    *)
(* begin, end or are refused a revision in between.                         *)
THEOREM TheCameraGoesForward == Spec => CameraNeverGoesBack
<1>1. IInv /\ IInv' /\ (CameraInv /\ ShowsThePlayer) /\ [Next]_vars
        => [cancelled \/ IF Content(shown') = Content(shown) THEN shown' = shown
                         ELSE shown'.revision > shown.revision]_shown
  BY StepsShow DEF StepShows, Follows
<1> QED
  BY <1>1, CameraAlways, AlwaysGood, PTL DEF Spec, CameraNeverGoesBack
=============================================================================
