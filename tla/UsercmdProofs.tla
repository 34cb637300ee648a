------------------------------ MODULE UsercmdProofs ------------------------------
(***************************************************************************)
(* Proofs about UsercmdTransmission, for every value of its constants: the   *)
(* history stays a run of commands of which the first have been sent, and   *)
(* from this, that what was sent is accounted and what is prepared current.  *)
(***************************************************************************)
EXTENDS UsercmdTransmission, SequenceTheorems, WellFoundedInduction, TLAPS

-----------------------------------------------------------------------------
(* Induction over data, by the least counterexample.                        *)

LEMMA LeastNumber == \A T \in SUBSET Nat : T # {} => \E x \in T : \A y \in T : x <= y
<1> DEFINE Less == {p \in Nat \X Nat : p[1] < p[2]}
<1>1. IsWellFoundedOn(Less, Nat)
  BY NatLessThanWellFounded DEF OpToRel
<1> SUFFICES ASSUME NEW T \in SUBSET Nat, T # {} PROVE \E x \in T : \A y \in T : x <= y
  OBVIOUS
<1> HIDE DEF Less
<1>2. PICK x \in T : \A y \in T : ~ (<<y, x>> \in Less)
  BY <1>1, WFMin
<1>3. x \in Nat
  OBVIOUS
<1>4. ASSUME NEW y \in T PROVE x <= y
  <2>1. y \in Nat
    OBVIOUS
  <2>2. <<y, x>> \in Less <=> y < x
    BY <1>3, <2>1 DEF Less
  <2> QED
    BY <1>2, <1>3, <2>1, <2>2
<1> QED
  BY <1>4

LEMMA SetInduction ==
  ASSUME NEW T \in SUBSET Nat, 0 \in T, \A m \in T : m + 1 \in T
  PROVE  T = Nat
<1> DEFINE Missing == Nat \ T
<1>1. Missing = {}
  <2> SUFFICES ASSUME Missing # {} PROVE FALSE
    OBVIOUS
  <2>1. Missing \in SUBSET Nat
    OBVIOUS
  <2>2. PICK m \in Missing : \A k \in Missing : m <= k
    BY <2>1, LeastNumber
  <2>3. m \in Nat /\ m # 0
    OBVIOUS
  <2>4. m - 1 \in Nat /\ m - 1 + 1 = m /\ m - 1 < m
    BY <2>3
  <2>5. m - 1 \notin Missing
    <3> HIDE DEF Missing
    <3> QED
      BY <2>2, <2>3, <2>4
  <2>6. m - 1 \in T
    BY <2>4, <2>5
  <2> QED
    BY <2>4, <2>6
<1> QED
  BY <1>1

\* A recursive function on an initial part of the numbers is what its clauses say.
IsStaged(f, h, ids, len) ==
  f = [n \in 0 .. len |-> IF n = 0 THEN [history |-> h, evicted |-> 0]
                                   ELSE InsertNext(f[n - 1], ids[n])]

LEMMA StagedExists ==
  ASSUME NEW h, NEW ids, NEW len \in Nat PROVE \E f : IsStaged(f, h, ids, len)
<1> DEFINE Is(f, m) == f = [n \in 0 .. m |->
                              IF n = 0 THEN [history |-> h, evicted |-> 0]
                                       ELSE InsertNext(f[n - 1], ids[n])]
           T == {m \in Nat : \E f : Is(f, m)}
<1>1. 0 \in T
  <2> DEFINE f == [n \in 0 .. 0 |-> [history |-> h, evicted |-> 0]]
  <2>1. Is(f, 0)
    OBVIOUS
  <2> QED
    BY <2>1
<1>2. ASSUME NEW m \in T PROVE m + 1 \in T
  <2>1. m \in Nat
    OBVIOUS
  <2>2. PICK f : Is(f, m)
    OBVIOUS
  <2> DEFINE g == [n \in 0 .. m + 1 |->
                     IF n = m + 1 THEN InsertNext(f[m], ids[m + 1]) ELSE f[n]]
  <2>3. \A n \in 0 .. m : g[n] = f[n]
    BY <2>1
  <2>4. \A n \in 0 .. m : f[n] = IF n = 0 THEN [history |-> h, evicted |-> 0]
                                 ELSE InsertNext(f[n - 1], ids[n])
    BY <2>2
  <2>5. \A n \in 0 .. m : n # 0 => n - 1 \in 0 .. m
    BY <2>1
  <2>6. g[m + 1] = InsertNext(g[m], ids[m + 1])
    BY <2>1, <2>3
  <2>7. g = [n \in 0 .. m + 1 |-> g[n]]
    OBVIOUS
  <2> HIDE DEF g
  <2>8. \A n \in 0 .. m : g[n] = IF n = 0 THEN [history |-> h, evicted |-> 0]
                                 ELSE InsertNext(g[n - 1], ids[n])
    BY <2>3, <2>4, <2>5, Zenon
  <2>9. /\ m + 1 # 0 /\ m + 1 - 1 = m
        /\ \A n \in 0 .. m + 1 : n = m + 1 \/ n \in 0 .. m
    BY <2>1
  <2>10. \A n \in 0 .. m + 1 : g[n] = IF n = 0 THEN [history |-> h, evicted |-> 0]
                                      ELSE InsertNext(g[n - 1], ids[n])
    <3> TAKE n \in 0 .. m + 1
    <3>1. CASE n = m + 1
      BY <2>6, <2>9, <3>1
    <3>2. CASE n \in 0 .. m
      BY <2>8, <3>2, Zenon
    <3> QED
      BY <2>9, <3>1, <3>2, Zenon
  <2>11. Is(g, m + 1)
    BY <2>7, <2>10
  <2> QED
    BY <2>1, <2>11
<1>3. T \in SUBSET Nat
  OBVIOUS
<1>4. len \in T
  <2> HIDE DEF T
  <2> QED
    BY <1>1, <1>2, <1>3, SetInduction
<1> QED
  BY <1>4 DEF IsStaged

-----------------------------------------------------------------------------
(***************************************************************************)
(* The inductive invariant                                                 *)
(***************************************************************************)

\* The first u entries were sent and the others were not.
SentUpTo(h, u) ==
  /\ u \in 0 .. Len(h)
  /\ \A i \in 1 .. Len(h) : h[i].sent # 0 <=> i <= u
\* The entries are the last commands before n, in order.
RunBefore(h, n) ==
  /\ h \in Seq(Entry) /\ Len(h) <= MaxEntries /\ Len(h) <= n - 1
  /\ \A i \in 1 .. Len(h) : h[i].id = n - Len(h) + i - 1
Sent(h) == IF HasUnsent(h) THEN FirstUnsent(h) - 1 ELSE Len(h)

Types ==
  /\ config \in Configurations
  /\ next \in Nat \ {0} /\ due \in Nat
  /\ events \in 0 .. MaxEvents /\ revision \in Nat
  /\ asked \in Nat /\ issued \in Nat
  /\ prepared \in Packet \cup {None} /\ wire \in Seq(Nat)
Flags == bound \in BOOLEAN /\ receipt \in BOOLEAN

\* A call works for a running stage, and at each of its steps it is known
\* whether there is a packet and whose it is.
Course ==
  /\ pc \in {"outside", "sample", "transmit", "drain", "drain_unplanned", "commit", "pump",
             "account"}
  /\ stage \in {"running"} \cup Reasons
  /\ stage # "running" => pc = "outside"
  /\ pc \in {"sample", "transmit", "drain", "drain_unplanned"} => prepared = None
  /\ pc \in {"commit", "pump", "account"} => prepared # None
  /\ pc \in {"pump", "account"} => prepared.owned
\* The driver owns, or has sent, exactly the packet the stage holds.
Owned ==
  /\ bound \/ receipt => prepared # None /\ prepared.owned
  /\ prepared # None /\ prepared.owned /\ active => bound # receipt

HistoryIsARun == RunBefore(history, next) /\ SentUpTo(history, Sent(history))

\* A packet is of this revision: the last backups that were sent, then new
\* commands from the first that was not.
News(packet) == Len(packet.ids) - packet.backups
Packed ==
  prepared # None =>
    /\ prepared.revision = revision
    /\ prepared.backups <= Sent(history)
    /\ News(prepared) \in 1 .. Len(history) - Sent(history)
    /\ \A i \in 1 .. Len(prepared.ids) :
         prepared.ids[i] = next - Len(history) + Sent(history) - prepared.backups + i - 1

\* What has left is every command before the first unsent one, and the
\* packet's new ones when the driver has sent it.
Counted == stage = "running" \/ (config.reference /\ stage \notin {"cancelled", "closed"})
Covered ==
  Counted =>
    /\ \A i \in 1 .. Len(wire) : wire[i] = i
    /\ Len(wire) = (next - 1) - (Len(history) - Sent(history))
                     + (IF receipt THEN News(prepared) ELSE 0)

\* Before a packet there is room for all its events, and beside one for the rest
\* and for the end of the stage.
Room ==
  /\ ~lost
  /\ pc = "transmit" /\ HasUnsent(history) => events + PacketEvents <= MaxEvents
  /\ prepared # None => events + SentEvents + 1 <= MaxEvents

UsercmdInv ==
  /\ Types /\ Flags /\ Course /\ Owned /\ HistoryIsARun /\ Packed /\ Covered /\ Room
  /\ OneShotOnce

USE DEF MaxEvents

\* The ring has room for a packet's events, whatever the kind of the stage.
LEMMA RingSize == Types => MaxEvents \in Nat /\ MaxEvents >= PacketEvents
<1> SUFFICES ASSUME Types PROVE MaxEvents \in Nat /\ MaxEvents >= PacketEvents
  OBVIOUS
<1>1. config \in Configurations /\ config.ring \in Nat
  BY StageAssumption DEF Types
<1>2. SufficientEventCapacity(config) /\ 3 * MaxPerUpdate \in Nat
  BY <1>1, StageAssumption
<1> QED
  BY <1>1, <1>2 DEF SufficientEventCapacity, PacketEvents

-----------------------------------------------------------------------------
(***************************************************************************)
(* The history's operators on a run whose first u entries were sent        *)
(***************************************************************************)

LEMMA LeastIsMin ==
  ASSUME NEW I \in SUBSET Nat, NEW x \in I, \A y \in I : x <= y
  PROVE  Min(I) = x
<1>1. \A z \in I : (\A y \in I : z <= y) => z = x
  <2> TAKE z \in I
  <2> HAVE \A y \in I : z <= y
  <2>1. x \in Nat /\ z \in Nat /\ z <= x /\ x <= z
    OBVIOUS
  <2> QED
    BY <2>1
<1> QED
  BY <1>1 DEF Min

LEMMA FirstUnsentIs ==
  ASSUME NEW h \in Seq(Entry), NEW u, SentUpTo(h, u)
  PROVE  /\ FirstUnsent(h) = IF u < Len(h) THEN u + 1 ELSE 0
         /\ HasUnsent(h) <=> u < Len(h)
         /\ Sent(h) = u
<1> DEFINE I == {i \in 1 .. Len(h) : IsUnsent(h[i])}
<1>1. u \in Nat /\ Len(h) \in Nat /\ u <= Len(h)
  BY DEF SentUpTo
<1>2. \A i \in 1 .. Len(h) : i \in I <=> i > u
  <2> TAKE i \in 1 .. Len(h)
  <2>1. h[i].sent # 0 <=> i <= u
    BY DEF SentUpTo
  <2> QED
    BY <1>1, <2>1 DEF IsUnsent
<1>3. FirstUnsent(h) = IF I # {} THEN Min(I) ELSE 0
  BY DEF FirstUnsent, SelectInSeq
<1>4. I \in SUBSET (1 .. Len(h))
  OBVIOUS
<1> HIDE DEF I
<1>5. CASE u < Len(h)
  <2>1. u + 1 \in I
    BY <1>1, <1>2, <1>5
  <2>2. \A y \in I : u + 1 <= y
    BY <1>1, <1>2, <1>4
  <2>3. I \in SUBSET Nat
    BY <1>1, <1>4
  <2>4. Min(I) = u + 1
    BY <2>1, <2>2, <2>3, LeastIsMin
  <2> QED
    BY <1>1, <1>3, <1>5, <2>1, <2>4 DEF HasUnsent, Sent
<1>6. CASE ~ (u < Len(h))
  <2>1. I = {}
    BY <1>1, <1>2, <1>4, <1>6
  <2> QED
    BY <1>1, <1>3, <1>6, <2>1 DEF HasUnsent, Sent
<1> QED
  BY <1>5, <1>6

LEMMA VictimIs ==
  ASSUME NEW h \in Seq(Entry), NEW u, SentUpTo(h, u)
  PROVE  Victim(h) = IF u > 0 /\ Len(h) > Protected THEN 1 ELSE 0
<1> DEFINE I == {i \in 1 .. Len(h) - Protected : h[i].sent # 0}
<1>1. u \in Nat /\ Len(h) \in Nat /\ u <= Len(h) /\ Protected \in Nat
  BY StageAssumption DEF SentUpTo
<1>2. \A i \in 1 .. Len(h) - Protected : i \in I <=> i <= u
  <2> TAKE i \in 1 .. Len(h) - Protected
  <2>1. i \in 1 .. Len(h)
    BY <1>1
  <2>2. h[i].sent # 0 <=> i <= u
    BY <2>1 DEF SentUpTo
  <2> QED
    BY <2>2
<1>3. Victim(h) = IF I # {} THEN Min(I) ELSE 0
  BY DEF Victim, SelectInSubSeq
<1>4. I \in SUBSET (1 .. Len(h) - Protected)
  OBVIOUS
<1> HIDE DEF I
<1>5. CASE u > 0 /\ Len(h) > Protected
  <2>1. 1 \in I
    BY <1>1, <1>2, <1>5
  <2>2. I \in SUBSET Nat /\ \A y \in I : 1 <= y
    BY <1>1, <1>4
  <2>3. Min(I) = 1
    BY <2>1, <2>2, LeastIsMin
  <2> QED
    BY <1>3, <1>5, <2>1, <2>3
<1>6. CASE ~ (u > 0 /\ Len(h) > Protected)
  <2>1. \A i \in I : FALSE
    <3> TAKE i \in I
    <3>1. i \in 1 .. Len(h) - Protected /\ i \in Int /\ i <= u
      BY <1>1, <1>2, <1>4
    <3> QED
      BY <1>1, <1>6, <3>1
  <2> QED
    BY <1>3, <1>6, <2>1
<1> QED
  BY <1>5, <1>6

LEMMA WithoutTheFirst ==
  ASSUME NEW h \in Seq(Entry), Len(h) > 0
  PROVE  /\ RemoveAt(h, 1) \in Seq(Entry) /\ Len(RemoveAt(h, 1)) = Len(h) - 1
         /\ \A i \in 1 .. Len(h) - 1 : RemoveAt(h, 1)[i] = h[i + 1]
<1>1. h # <<>>
  OBVIOUS
<1>2. /\ Tail(h) \in Seq(Entry) /\ Len(Tail(h)) = Len(h) - 1
      /\ \A i \in 1 .. Len(Tail(h)) : Tail(h)[i] = h[i + 1]
  BY <1>1, HeadTailProperties
<1>3. SubSeq(h, 1, 0) = <<>>
  OBVIOUS
<1>4. Tail(h) = SubSeq(h, 2, Len(h))
  BY <1>1, TailIsSubSeq
<1>5. RemoveAt(h, 1) = <<>> \o Tail(h)
  BY <1>3, <1>4 DEF RemoveAt
<1>6. <<>> \o Tail(h) = Tail(h)
  BY <1>2, ConcatEmptySeq
<1> QED
  BY <1>2, <1>5, <1>6

LEMMA InsertedIs ==
  ASSUME NEW h, NEW n \in Nat \ {0}, NEW u,
         RunBefore(h, n), SentUpTo(h, u), Accepting(h),
         NEW e, e = IF IsFull(h) THEN 1 ELSE 0
  PROVE  /\ e <= u
         /\ RunBefore(Inserted(h, n), n + 1)
         /\ SentUpTo(Inserted(h, n), u - e)
         /\ Len(Inserted(h, n)) = Len(h) + 1 - e
<1> DEFINE r == IF IsFull(h) THEN RemoveAt(h, Victim(h)) ELSE h
           new == [id |-> n, sent |-> 0]
<1>1. /\ h \in Seq(Entry) /\ Len(h) \in Nat /\ Len(h) <= MaxEntries /\ Len(h) <= n - 1
      /\ \A i \in 1 .. Len(h) : h[i].id = n - Len(h) + i - 1
      /\ u \in Nat /\ u <= Len(h)
      /\ \A i \in 1 .. Len(h) : h[i].sent # 0 <=> i <= u
      /\ MaxEntries \in Nat
  BY StageAssumption DEF RunBefore, SentUpTo
<1>2. /\ e <= u
      /\ r \in Seq(Entry) /\ Len(r) = Len(h) - e
      /\ \A i \in 1 .. Len(r) : r[i] = h[i + e]
  <2>1. CASE ~ IsFull(h)
    BY <1>1, <2>1
  <2>2. CASE IsFull(h)
    <3>1. Victim(h) = 1 /\ u > 0
      BY <1>1, <2>2, VictimIs DEF Accepting
    <3>2. r = RemoveAt(h, 1) /\ e = 1
      BY <2>2, <3>1
    <3> QED
      BY <1>1, <3>1, <3>2, WithoutTheFirst
  <2> QED
    BY <2>1, <2>2
<1>3. Inserted(h, n) = Append(r, new)
  BY DEF Inserted
<1>4. e \in {0, 1} /\ (e = 0 => Len(h) # MaxEntries)
  BY DEF IsFull
<1> HIDE DEF r
<1>5. new \in Entry /\ new.id = n /\ new.sent = 0
  BY DEF Entry
<1> HIDE DEF new
<1>6. /\ Inserted(h, n) \in Seq(Entry) /\ Len(Inserted(h, n)) = Len(h) + 1 - e
      /\ Inserted(h, n)[Len(h) + 1 - e] = new
      /\ \A i \in 1 .. Len(h) - e : Inserted(h, n)[i] = h[i + e]
  BY <1>1, <1>2, <1>3, <1>4, <1>5
<1>7. \A i \in 1 .. Len(h) + 1 - e :
         i = Len(h) + 1 - e \/ (i \in 1 .. Len(h) - e /\ i + e \in 1 .. Len(h))
  BY <1>1, <1>4
<1>8. \A i \in 1 .. Len(Inserted(h, n)) :
         Inserted(h, n)[i].id = (n + 1) - Len(Inserted(h, n)) + i - 1
  <2> TAKE i \in 1 .. Len(Inserted(h, n))
  <2>1. CASE i = Len(h) + 1 - e
    <3>1. Inserted(h, n)[i].id = n
      BY <1>5, <1>6, <2>1
    <3>2. i = Len(Inserted(h, n)) /\ i \in Int
      BY <1>6, <2>1
    <3>3. (n + 1) - i + i - 1 = n
      BY <3>2
    <3> QED
      BY <3>1, <3>2, <3>3, Zenon
  <2>2. CASE i \in 1 .. Len(h) - e
    <3>1. i \in Nat /\ i + e \in 1 .. Len(h) /\ Inserted(h, n)[i] = h[i + e]
      <4>1. Inserted(h, n)[i] = h[i + e]
        BY <1>6, <2>2
      <4>2. i \in Nat /\ i + e \in 1 .. Len(h)
        BY <1>1, <1>4, <2>2
      <4> QED
        BY <4>1, <4>2
    <3>2. h[i + e].id = n - Len(h) + (i + e) - 1
      BY <1>1, <3>1
    <3> QED
      BY <1>1, <1>4, <1>6, <3>1, <3>2
  <2> QED
    BY <1>6, <1>7, <2>1, <2>2
<1>9. \A i \in 1 .. Len(Inserted(h, n)) : Inserted(h, n)[i].sent # 0 <=> i <= u - e
  <2> TAKE i \in 1 .. Len(Inserted(h, n))
  <2>1. CASE i = Len(h) + 1 - e
    BY <1>1, <1>2, <1>4, <1>5, <1>6, <2>1
  <2>2. CASE i \in 1 .. Len(h) - e
    <3>1. i + e \in 1 .. Len(h) /\ Inserted(h, n)[i] = h[i + e]
      <4>1. Inserted(h, n)[i] = h[i + e]
        BY <1>6, <2>2
      <4>2. i + e \in 1 .. Len(h)
        BY <1>1, <1>4, <2>2
      <4> QED
        BY <4>1, <4>2
    <3>2. h[i + e].sent # 0 <=> i + e <= u
      BY <1>1, <3>1
    <3>3. i + e <= u <=> i <= u - e
      BY <1>1, <1>4, <2>2
    <3> QED
      BY <3>1, <3>2, <3>3
  <2> QED
    BY <1>6, <1>7, <2>1, <2>2
<1> QED
  BY <1>1, <1>2, <1>4, <1>6, <1>8, <1>9 DEF RunBefore, SentUpTo

\* A batch of k commands taken into a history of len, of which u were sent: as
\* many were evicted as there was no room for.
Extends(s, evicted, len, n, u, k) ==
  /\ evicted \in 0 .. k /\ evicted <= u
  /\ RunBefore(s, n + k) /\ SentUpTo(s, u - evicted)
  /\ Len(s) = len + k - evicted

LEMMA InsertedExtends ==
  ASSUME NEW s, NEW evicted \in Nat, NEW len \in Nat, NEW n \in Nat \ {0}, NEW u \in Nat,
         NEW k \in Nat, Extends(s, evicted, len, n, u, k), Accepting(s),
         NEW e, e = IF IsFull(s) THEN 1 ELSE 0
  PROVE  Extends(Inserted(s, n + k), evicted + e, len, n, u, k + 1)
<1>1. /\ evicted <= k /\ evicted <= u
      /\ RunBefore(s, n + k) /\ SentUpTo(s, u - evicted)
      /\ Len(s) = len + k - evicted
  BY DEF Extends
<1>2. e \in {0, 1}
  OBVIOUS
<1>3. /\ e <= u - evicted
      /\ RunBefore(Inserted(s, n + k), n + k + 1)
      /\ SentUpTo(Inserted(s, n + k), u - evicted - e)
      /\ Len(Inserted(s, n + k)) = Len(s) + 1 - e
  BY <1>1, n + k \in Nat \ {0}, InsertedIs
<1>4. n + k + 1 = n + (k + 1) /\ u - evicted - e = u - (evicted + e)
  BY <1>2
<1>5. evicted + e \in 0 .. k + 1 /\ evicted + e <= u
  BY <1>1, <1>2, <1>3
<1>6. Len(Inserted(s, n + k)) = len + (k + 1) - (evicted + e)
  BY <1>1, <1>2, <1>3
<1> QED
  BY <1>3, <1>4, <1>5, <1>6 DEF Extends

LEMMA InsertAllExtends ==
  ASSUME NEW h, NEW n \in Nat \ {0}, NEW u, RunBefore(h, n), SentUpTo(h, u),
         NEW ids, NEW k \in Nat, Len(ids) = k, \A i \in 1 .. k : ids[i] = n + i - 1,
         InsertAll(h, ids) # None
  PROVE  LET all == InsertAll(h, ids)
         IN all.evicted \in Nat /\ Extends(all.history, all.evicted, Len(h), n, u, k)
<1> DEFINE staged[m \in 0 .. k] ==
             IF m = 0 THEN [history |-> h, evicted |-> 0] ELSE InsertNext(staged[m - 1], ids[m])
           Good(s, m) == s = None \/ (/\ s.evicted \in Nat
                                     /\ Extends(s.history, s.evicted, Len(h), n, u, m))
           T == {m \in Nat : m <= k => Good(staged[m], m)}
<1>1. InsertAll(h, ids) = staged[k]
  BY DEF InsertAll
<1>2. staged = [m \in 0 .. k |-> IF m = 0 THEN [history |-> h, evicted |-> 0]
                                           ELSE InsertNext(staged[m - 1], ids[m])]
  <2>1. \E f : IsStaged(f, h, ids, k)
    BY StagedExists, Zenon
  <2>2. IsStaged(staged, h, ids, k)
    BY <2>1 DEF IsStaged
  <2> QED
    BY <2>2 DEF IsStaged
<1> HIDE DEF staged
<1>3. u \in Nat /\ Len(h) \in Nat /\ n + 0 = n /\ u - 0 = u
  BY DEF SentUpTo, RunBefore
<1>4. 0 \in T
  <2>1. staged[0] = [history |-> h, evicted |-> 0]
    BY <1>2
  <2>2. Extends(h, 0, Len(h), n, u, 0)
    BY <1>3 DEF Extends
  <2> QED
    BY <2>1, <2>2
<1>5. ASSUME NEW m \in T PROVE m + 1 \in T
  <2> SUFFICES ASSUME m + 1 <= k PROVE Good(staged[m + 1], m + 1)
    OBVIOUS
  <2>1. m \in Nat /\ m <= k /\ m + 1 \in 0 .. k /\ m + 1 # 0 /\ m + 1 - 1 = m
    OBVIOUS
  <2>2. Good(staged[m], m)
    BY <2>1
  <2>3. m + 1 \in 1 .. k /\ n + (m + 1) - 1 = n + m
    BY <2>1
  <2>4. staged[m + 1] = InsertNext(staged[m], n + m)
    BY <1>2, <2>1, <2>3
  <2> DEFINE s == staged[m]
  <2>5. CASE s = None \/ ~ Accepting(s.history)
    BY <2>4, <2>5 DEF InsertNext
  <2>6. CASE s # None /\ Accepting(s.history)
    <3> DEFINE e == IF IsFull(s.history) THEN 1 ELSE 0
               after == [history |-> Inserted(s.history, n + m), evicted |-> s.evicted + e]
    <3>1. staged[m + 1] = after
      BY <2>4, <2>6 DEF InsertNext
    <3>2. s.evicted \in Nat /\ Extends(s.history, s.evicted, Len(h), n, u, m)
      BY <2>2, <2>6
    <3>3. Extends(Inserted(s.history, n + m), s.evicted + e, Len(h), n, u, m + 1)
      BY <1>3, <2>1, <2>6, <3>2, InsertedExtends
    <3>4. s.evicted + e \in Nat
      BY <3>2
    <3> HIDE DEF e, s
    <3> QED
      BY <3>1, <3>3, <3>4
  <2> QED
    BY <2>5, <2>6
<1>6. T \in SUBSET Nat
  OBVIOUS
<1>7. k \in T
  <2> HIDE DEF T
  <2> QED
    BY <1>4, <1>5, <1>6, SetInduction
<1>8. Good(staged[k], k)
  BY <1>7
<1> QED
  BY <1>1, <1>8

-----------------------------------------------------------------------------
(***************************************************************************)
(* What is submitted, and what a packet holds                              *)
(***************************************************************************)

LEMMA SubmittedIs ==
  ASSUME NEW h, NEW n \in Nat \ {0}, NEW u, RunBefore(h, n), SentUpTo(h, u),
         NEW d \in 1 .. Len(h) - u, NEW ids,
         \A id \in Nat : id \in ids <=> id \in n - Len(h) + u .. n - Len(h) + u + d - 1
  PROVE  /\ RunBefore(Submitted(h, ids), n)
         /\ SentUpTo(Submitted(h, ids), u + d)
         /\ Len(Submitted(h, ids)) = Len(h)
<1> DEFINE s == Submitted(h, ids)
<1>1. /\ h \in Seq(Entry) /\ Len(h) \in Nat /\ Len(h) <= MaxEntries /\ Len(h) <= n - 1
      /\ \A i \in 1 .. Len(h) : h[i].id = n - Len(h) + i - 1
      /\ u \in Nat /\ u <= Len(h)
      /\ \A i \in 1 .. Len(h) : h[i].sent # 0 <=> i <= u
  BY DEF RunBefore, SentUpTo
<1>2. DOMAIN h = 1 .. Len(h) /\ \A i \in 1 .. Len(h) : h[i] \in Entry
  BY <1>1
<1>3. \A i \in 1 .. Len(h) : [h[i] EXCEPT !.sent = @ + 1] \in Entry
  <2> TAKE i \in 1 .. Len(h)
  <2>1. h[i] \in [id : Nat, sent : Nat]
    BY <1>2 DEF Entry
  <2> QED
    BY <2>1 DEF Entry
<1>4. s = [i \in 1 .. Len(h) |-> IF h[i].id \in ids THEN [h[i] EXCEPT !.sent = @ + 1] ELSE h[i]]
  BY <1>2 DEF Submitted
<1>5. s \in Seq(Entry) /\ Len(s) = Len(h)
  BY <1>1, <1>2, <1>3, <1>4
<1>6. \A i \in 1 .. Len(h) :
         s[i] = IF h[i].id \in ids THEN [h[i] EXCEPT !.sent = @ + 1] ELSE h[i]
  BY <1>4
<1> HIDE DEF s
<1>7. ASSUME NEW i \in 1 .. Len(h)
      PROVE  s[i].id = h[i].id /\ (s[i].sent # 0 <=> i <= u + d)
  <2>1. h[i] \in [id : Nat, sent : Nat]
    BY <1>2 DEF Entry
  <2>2. h[i].id = n - Len(h) + i - 1 /\ h[i].id \in Nat /\ h[i].sent \in Nat
    BY <1>1, <2>1
  <2>3. h[i].id \in ids <=> u < i /\ i <= u + d
    <3>1. h[i].id \in ids <=> h[i].id \in n - Len(h) + u .. n - Len(h) + u + d - 1
      BY <2>2
    <3>2. d \in Nat /\ i \in Nat
      BY <1>1
    <3>3. h[i].id \in n - Len(h) + u .. n - Len(h) + u + d - 1
            <=> n - Len(h) + u <= h[i].id /\ h[i].id <= n - Len(h) + u + d - 1
      BY <1>1, <2>2, <3>2
    <3>4. /\ n - Len(h) + u <= n - Len(h) + i - 1 <=> u < i
          /\ n - Len(h) + i - 1 <= n - Len(h) + u + d - 1 <=> i <= u + d
      BY <1>1, <3>2
    <3> QED
      BY <2>2, <3>1, <3>3, <3>4
  <2>4. h[i].sent # 0 <=> i <= u
    BY <1>1
  <2>5. CASE h[i].id \in ids
    <3>1. s[i] = [h[i] EXCEPT !.sent = h[i].sent + 1]
      BY <1>6, <2>5
    <3>2. s[i].id = h[i].id /\ s[i].sent = h[i].sent + 1
      BY <2>1, <3>1
    <3> QED
      BY <2>2, <2>3, <2>5, <3>2
  <2>6. CASE h[i].id \notin ids
    <3>1. s[i] = h[i]
      BY <1>6, <2>6
    <3>2. i <= u <=> i <= u + d
      BY <1>1, <2>3, <2>6
    <3> QED
      BY <2>4, <3>1, <3>2
  <2> QED
    BY <2>5, <2>6
<1>8. u + d \in 0 .. Len(s)
  BY <1>1, <1>5
<1>9. RunBefore(s, n)
  BY <1>1, <1>5, <1>7 DEF RunBefore
<1>10. SentUpTo(s, u + d)
  BY <1>5, <1>7, <1>8 DEF SentUpTo
<1> QED
  BY <1>5, <1>9, <1>10 DEF s

LEMMA NewIdsAre ==
  ASSUME NEW packet \in Packet, packet.backups <= Len(packet.ids)
  PROVE  /\ News(packet) \in Nat
         /\ NewIds(packet) \in Seq(Nat) /\ Len(NewIds(packet)) = News(packet)
         /\ \A i \in 1 .. News(packet) : NewIds(packet)[i] = packet.ids[packet.backups + i]
<1>1. packet.ids \in Seq(Nat) /\ packet.backups \in Nat /\ Len(packet.ids) \in Nat
  BY DEF Packet
<1> DEFINE m == packet.backups + 1
           l == Len(packet.ids)
<1>2. m \in Int /\ l \in Int /\ m >= 1
  BY <1>1
<1>3. \A i \in m .. l : packet.ids[i] \in Nat
  <2> TAKE i \in m .. l
  <2>1. i \in 1 .. Len(packet.ids)
    BY <1>2
  <2> QED
    BY <1>1, <2>1
<1>4. /\ SubSeq(packet.ids, m, l) \in Seq(Nat)
      /\ Len(SubSeq(packet.ids, m, l)) = IF m <= l THEN l - m + 1 ELSE 0
      /\ \A i \in 1 .. l - m + 1 : SubSeq(packet.ids, m, l)[i] = packet.ids[m + i - 1]
  <2> HIDE DEF m, l
  <2> QED
    BY <1>2, <1>3, SubSeqProperties
<1>5. NewIds(packet) = SubSeq(packet.ids, m, l)
  BY DEF NewIds
<1>6. /\ NewIds(packet) \in Seq(Nat)
      /\ Len(NewIds(packet)) = IF m <= l THEN l - m + 1 ELSE 0
      /\ \A i \in 1 .. l - m + 1 : NewIds(packet)[i] = packet.ids[m + i - 1]
  BY <1>4, <1>5, Zenon
<1>7. News(packet) = l - packet.backups /\ packet.backups <= l
  BY DEF News
<1>8. News(packet) \in Nat /\ l - m + 1 = News(packet)
  BY <1>1, <1>7
<1>9. Len(NewIds(packet)) = News(packet)
  BY <1>1, <1>6, <1>7
<1>10. ASSUME NEW i \in 1 .. News(packet) PROVE NewIds(packet)[i] = packet.ids[packet.backups + i]
  <2>1. i \in 1 .. l - m + 1 /\ i \in Int
    BY <1>8
  <2>2. m + i - 1 = packet.backups + i
    BY <1>1, <2>1
  <2>3. NewIds(packet)[i] = packet.ids[m + i - 1]
    BY <1>6, <2>1
  <2> QED
    BY <2>2, <2>3
<1> QED
  BY <1>6, <1>8, <1>9, <1>10

LEMMA PacketIs ==
  ASSUME revision \in Nat, NEW u, RunBefore(history, next), SentUpTo(history, u),
         next \in Nat \ {0},
         NEW news \in 1 .. Len(history) - u, NEW backups \in 0 .. u
  PROVE  LET p == PacketOf(history, news, backups)
         IN /\ p \in Packet /\ ~p.owned /\ p.revision = revision
            /\ p.backups = backups /\ News(p) = news
            /\ \A i \in 1 .. Len(p.ids) : p.ids[i] = next - Len(history) + u - backups + i - 1
<1> DEFINE p == PacketOf(history, news, backups)
<1>1. /\ history \in Seq(Entry) /\ Len(history) \in Nat /\ Len(history) <= next - 1
      /\ \A i \in 1 .. Len(history) : history[i].id = next - Len(history) + i - 1
      /\ u \in Nat /\ u <= Len(history)
  BY DEF RunBefore, SentUpTo
<1>2. news \in Nat /\ backups \in Nat /\ news >= 1 /\ backups <= u /\ u + news <= Len(history)
  BY <1>1
<1>3. FirstUnsent(history) = u + 1
  BY <1>1, <1>2, FirstUnsentIs
<1> DEFINE ids == [i \in 1 .. news + backups |-> history[(u + 1) - backups + i - 1].id]
<1>4. p = [ids |-> ids, backups |-> backups, revision |-> revision, owned |-> FALSE]
  <2> DEFINE Ids(first) == [i \in 1 .. news + backups |-> history[first - backups + i - 1].id]
  <2>1. p = [ids |-> Ids(FirstUnsent(history)), backups |-> backups, revision |-> revision,
             owned |-> FALSE]
    BY Zenon DEF PacketOf
  <2>2. Ids(u + 1) = ids
    BY Zenon
  <2> HIDE DEF Ids
  <2> QED
    BY <1>3, <2>1, <2>2
<1>5. ASSUME NEW i \in 1 .. news + backups
      PROVE  /\ history[(u + 1) - backups + i - 1].id = next - Len(history) + u - backups + i - 1
             /\ next - Len(history) + u - backups + i - 1 \in Nat
  <2>1. (u + 1) - backups + i - 1 \in 1 .. Len(history) /\ i \in Nat
    BY <1>1, <1>2
  <2>2. history[(u + 1) - backups + i - 1].id = next - Len(history) + ((u + 1) - backups + i - 1) - 1
    BY <1>1, <2>1
  <2>3. next \in Nat /\ Len(history) \in Nat /\ u \in Nat /\ backups \in Nat /\ i \in Nat
        /\ Len(history) <= next - 1 /\ backups <= u /\ i >= 1
    BY <1>1, <1>2, <2>1
  <2>4. next - Len(history) + ((u + 1) - backups + i - 1) - 1
          = next - Len(history) + u - backups + i - 1
    BY <2>3
  <2>5. next - Len(history) + u - backups + i - 1 \in Nat
    BY <2>3
  <2> QED
    BY <2>2, <2>4, <2>5
<1>6. /\ ids \in Seq(Nat) /\ Len(ids) = news + backups
      /\ \A i \in 1 .. news + backups : ids[i] = next - Len(history) + u - backups + i - 1
  <2>1. news + backups \in Nat
    BY <1>2
  <2>2. \A i \in 1 .. news + backups :
          ids[i] = next - Len(history) + u - backups + i - 1 /\ ids[i] \in Nat
    BY <1>5
  <2>3. ids = [i \in 1 .. news + backups |-> ids[i]]
    OBVIOUS
  <2> HIDE DEF ids
  <2>4. ids \in [1 .. news + backups -> Nat]
    BY <2>2, <2>3
  <2>5. ids \in Seq(Nat) /\ Len(ids) = news + backups
    BY <2>1, <2>4
  <2> QED
    BY <2>2, <2>5
<1> HIDE DEF ids
<1>7. p \in Packet
  BY <1>2, <1>4, <1>6 DEF Packet
<1>8. p.ids = ids /\ p.backups = backups /\ p.revision = revision /\ p.owned = FALSE
  BY <1>4
<1>9. News(p) = news
  BY <1>2, <1>6, <1>8 DEF News
<1> HIDE DEF p
<1>10. /\ p \in Packet /\ ~p.owned /\ p.revision = revision
       /\ p.backups = backups /\ News(p) = news
       /\ \A i \in 1 .. Len(p.ids) : p.ids[i] = next - Len(history) + u - backups + i - 1
  BY <1>6, <1>7, <1>8, <1>9
<1> QED
  BY <1>10 DEF p

LEMMA PlanIs ==
  ASSUME Types, NEW u, RunBefore(history, next), SentUpTo(history, u), HasUnsent(history),
         NEW capacity \in Capacities, ~NoRoom(capacity)
  PROVE  \E news \in 1 .. Len(history) - u, backups \in 0 .. u :
           Plan(capacity) = PacketOf(history, news, backups)
<1>1. /\ history \in Seq(Entry) /\ Len(history) \in Nat /\ u \in Nat /\ u <= Len(history)
  BY DEF RunBefore, SentUpTo
<1>2. FirstUnsent(history) = u + 1 /\ u < Len(history)
  BY <1>1, FirstUnsentIs
<1>3. /\ MaxNew \in Nat \ {0} /\ DesiredBackups \in Nat /\ Protected \in Nat /\ capacity \in Nat
  BY StageAssumption
<1>4. /\ NewWanted(history) \in 1 .. Len(history) - u
      /\ BackupsWanted(history) \in 0 .. u
  BY <1>1, <1>2, <1>3 DEF NewWanted, BackupsWanted, Smaller
<1>5. CASE config.reference
  <2>1. capacity # 0
    BY <1>5 DEF NoRoom
  <2>2. NewThatFit(history, capacity) \in 1 .. Len(history) - u
    BY <1>1, <1>3, <1>4, <2>1 DEF NewThatFit, Smaller
  <2>3. NewThatFit(history, capacity) <= capacity
    BY <1>1, <1>3, <1>4 DEF NewThatFit, Smaller
  <2>4. BackupsThatFit(history, capacity) \in 0 .. u
    <3>1. capacity - NewThatFit(history, capacity) \in Nat
      BY <1>1, <1>3, <2>2, <2>3
    <3> QED
      BY <1>1, <1>4, <3>1 DEF BackupsThatFit, Smaller
  <2> QED
    BY <1>5, <2>2, <2>4 DEF Plan
<1>6. CASE ~config.reference
  BY <1>4, <1>6 DEF Plan
<1> QED
  BY <1>5, <1>6

\* What is packed can be submitted, and commit_prepared_move never finds otherwise.
LEMMA PackedIsSubmittable ==
  ASSUME Types, HistoryIsARun, Packed, prepared # None
  PROVE  Submittable(prepared)
<1> DEFINE u == Sent(history)
<1>1. /\ history \in Seq(Entry) /\ Len(history) \in Nat
      /\ \A i \in 1 .. Len(history) : history[i].id = next - Len(history) + i - 1
      /\ u \in Nat /\ u <= Len(history)
      /\ \A i \in 1 .. Len(history) : history[i].sent # 0 <=> i <= u
      /\ next \in Nat
  BY DEF HistoryIsARun, RunBefore, SentUpTo, Types
<1>2. /\ prepared.ids \in Seq(Nat) /\ prepared.backups \in Nat
  BY DEF Types, Packet
<1>3. PICK b \in Nat, len \in Nat : b = prepared.backups /\ len = Len(prepared.ids)
  BY <1>2
<1>4. /\ prepared.revision = revision /\ b <= u /\ len - b \in 1 .. Len(history) - u
      /\ \A i \in 1 .. len : prepared.ids[i] = next - Len(history) + u - b + i - 1
      /\ DOMAIN prepared.ids = 1 .. len
  BY <1>2, <1>3 DEF Packed, News
<1> HIDE DEF u
<1>5. ASSUME NEW i \in 1 .. len
      PROVE  \E entry \in ToSet(history) :
               entry.id = prepared.ids[i] /\ (entry.sent # 0) = (i <= b)
  <2> DEFINE j == u - b + i
  <2>1. i \in Nat /\ j \in 1 .. Len(history) /\ (j <= u <=> i <= b)
    BY <1>1, <1>4
  <2>2. history[j].id = next - Len(history) + j - 1
    BY <1>1, <2>1
  <2>3. prepared.ids[i] = next - Len(history) + u - b + i - 1
    BY <1>4
  <2>4. history[j].id = prepared.ids[i]
    BY <1>1, <2>1, <2>2, <2>3
  <2>5. history[j].sent # 0 <=> j <= u
    BY <1>1, <2>1
  <2>6. history[j] \in ToSet(history)
    BY <1>1, <2>1 DEF ToSet
  <2> HIDE DEF j
  <2>7. (history[j].sent # 0) = (i <= b)
    BY <2>1, <2>5
  <2> QED
    BY <2>4, <2>6, <2>7
<1> QED
  BY <1>3, <1>4, <1>5, Zenon DEF Submittable

-----------------------------------------------------------------------------
(***************************************************************************)
(* The kinds of step                                                       *)
(***************************************************************************)

\* The stage ends. One for sampled commands does not end so between the sending
\* of a packet and its accounting, unless it is cancelled.
Failing ==
  /\ \E reason \in Reasons \ {"closed"} :
       Fail(reason) /\ (~config.reference \/ ~receipt \/ reason = "cancelled")
  /\ stage = "running"
  /\ UNCHANGED <<config, historyVars>>

\* Only where the call is changes, and what time has done.
Quiet ==
  /\ UNCHANGED <<config, stage, historyVars, prepared, next, impulse, asked, issued, eventVars,
                 driverVars>>
  /\ due' \in Nat
  /\ \/ pc' = pc
     \/ /\ stage = "running"
        /\ \/ pc' = "outside"
           \/ pc' \in {"sample", "drain_unplanned"} /\ prepared = None
           \/ pc' = "transmit" /\ prepared = None /\ events + PacketEvents <= MaxEvents
           \/ pc' = "commit" /\ prepared # None
           \/ pc' \in {"pump", "account"} /\ prepared # None /\ prepared.owned

\* One event that says why there is no packet.
Noting ==
  /\ UNCHANGED <<config, stage, historyVars, prepared, inputVars, driverVars>>
  /\ stage = "running" /\ prepared = None /\ pc' \in {"outside", "drain"}
  /\ events + PacketEvents <= MaxEvents /\ Push(1)

Driving ==
  /\ DriverUpdate
  /\ UNCHANGED <<config, stage, historyVars, prepared, inputVars, eventVars>>
  /\ \/ pc' = "outside"
     \/ pc' = "account" /\ stage = "running" /\ prepared # None /\ prepared.owned

LEMMA PlansKeepTheirKind ==
  ASSUME UsercmdInv, NEW capacity \in Capacities, TooNarrow(capacity)
  PROVE  Quiet \/ Noting
<1>1. /\ prepared = None /\ stage = "running" /\ due \in Nat
      /\ events + PacketEvents <= MaxEvents
  BY DEF UsercmdInv, Course, Room, Types, TooNarrow
<1>2. CASE config.reference
  <2>1. pc' = "outside" \/ pc' = "drain_unplanned"
    BY <1>2 DEF TooNarrow, Drain
  <2> QED
    BY <1>1, <1>2, <2>1 DEF TooNarrow, Drain, Quiet, inputVars, historyVars
<1>3. CASE ~config.reference
  <2>1. pc' = "outside" \/ pc' = "drain"
    BY <1>3 DEF TooNarrow, Drain
  <2> QED
    BY <1>1, <1>3, <2>1 DEF TooNarrow, Drain, Noting
<1> QED
  BY <1>2, <1>3

LEMMA StepKinds ==
  ASSUME UsercmdInv, Next
  PROVE  \/ Failing \/ Quiet \/ Noting \/ Driving
         \/ Sample /\ pc' = "transmit"
         \/ QueueReferenceCommand
         \/ \E capacity \in Capacities : PrepareMove(capacity) /\ stage' = "running"
         \/ CommitStale \/ CommitBinds \/ Account
         \/ QueueImpulse \/ PollEvent \/ Close
<1>1. /\ due \in Nat
      /\ stage # "running" => pc = "outside"
      /\ pc \in {"sample", "transmit", "drain", "drain_unplanned"} => prepared = None
      /\ pc \in {"commit", "pump", "account"} => prepared # None
      /\ pc \in {"pump", "account"} => prepared.owned
      /\ bound \/ receipt => prepared # None /\ prepared.owned
      /\ pc = "transmit" /\ HasUnsent(history) => events + PacketEvents <= MaxEvents
  BY DEF UsercmdInv, Types, Flags, Course, Owned, Room
<1> USE DEF Running, Outside
<1>2. CASE UpdateFails
  <2>1. stage = "running" /\ ~config.reference
        /\ UNCHANGED <<config, historyVars>>
    BY <1>1, <1>2 DEF UpdateFails
  <2>2. \E reason \in Reasons \ {"closed"} : Fail(reason)
    BY <1>2 DEF UpdateFails, Reasons
  <2> QED
    BY <2>1, <2>2 DEF Failing
<1>3. CASE UpdateReferenceFails
  <2>1. stage = "running" /\ ~receipt
        /\ UNCHANGED <<config, historyVars>>
    BY <1>1, <1>3 DEF UpdateReferenceFails, SentAlready
  <2>2. \E reason \in Reasons \ {"closed"} : Fail(reason)
    BY <1>3 DEF UpdateReferenceFails, Reasons
  <2> QED
    BY <2>1, <2>2 DEF Failing
<1>4. CASE \E isFocused \in BOOLEAN : Update(isFocused)
  BY <1>1, <1>4 DEF Update, Quiet
<1>5. CASE AccountSentFirst
  BY <1>1, <1>5 DEF AccountSentFirst, SentAlready, Quiet, inputVars
<1>6. CASE UpdateReference
  <2>1. CASE prepared # None
    BY <1>1, <1>6, <2>1 DEF UpdateReference, Quiet, inputVars
  <2>2. CASE prepared = None
    <3>1. MaxEvents - events < PacketEvents \/ events + PacketEvents <= MaxEvents
      BY RingSize DEF UsercmdInv, Types, PacketEvents
    <3> QED
      BY <1>1, <1>6, <2>2, <3>1 DEF UpdateReference, Quiet, inputVars
  <2> QED
    BY <2>1, <2>2
<1>7. CASE SampleFails
  <2>1. stage = "running" /\ ~receipt
        /\ UNCHANGED <<config, historyVars>>
    BY <1>1, <1>7 DEF SampleFails
  <2>2. \E reason \in Reasons \ {"closed"} : Fail(reason)
    BY <1>7 DEF SampleFails, Reasons
  <2> QED
    BY <2>1, <2>2 DEF Failing
<1>8. CASE Sample /\ pc' # "transmit"
  BY <1>1, <1>8 DEF Sample, Quiet, Leave, inputVars
<1>9. CASE NothingUnsent
  BY <1>1, <1>9 DEF NothingUnsent, Quiet, Leave, inputVars
<1>10. CASE ContextUnavailable
  BY <1>1, <1>10 DEF ContextUnavailable, Noting, Drain
<1>21. CASE TransmitFails
  <2>1. stage = "running" /\ ~receipt
        /\ UNCHANGED <<config, historyVars>>
    BY <1>1, <1>21 DEF TransmitFails
  <2>2. \E reason \in Reasons \ {"closed"} : Fail(reason)
    BY <1>21 DEF TransmitFails, Reasons
  <2> QED
    BY <2>1, <2>2 DEF Failing
<1>11. CASE DrainDriver
  <2>1. CASE DriverUpdate /\ active' /\ Leave /\ UNCHANGED <<prepared, inputVars, eventVars>>
    BY <1>1, <1>11, <2>1 DEF DrainDriver, Driving, Leave
  <2>2. CASE Fail(IF pc = "drain" THEN "network_error" ELSE "protocol_error")
    <3>1. stage = "running" /\ ~receipt
          /\ UNCHANGED <<config, historyVars>>
      BY <1>1, <1>11 DEF DrainDriver
    <3>2. \E reason \in Reasons \ {"closed"} : Fail(reason)
      BY <2>2 DEF Reasons
    <3> QED
      BY <3>1, <3>2 DEF Failing
  <2> QED
    BY <1>11, <2>1, <2>2 DEF DrainDriver
<1>12. CASE \E capacity \in Capacities : TooNarrow(capacity)
  BY <1>12, PlansKeepTheirKind
<1>13. CASE \E capacity \in Capacities : PrepareMove(capacity) /\ stage' # "running"
  <2>1. PICK capacity \in Capacities : PrepareMove(capacity) /\ stage' # "running"
    BY <1>13
  <2>2. stage = "running" /\ ~receipt
        /\ UNCHANGED <<config, historyVars>>
    BY <1>1, <2>1 DEF PrepareMove
  <2>3. Fail("protocol_error")
    BY <2>1, <2>2 DEF PrepareMove
  <2> QED
    BY <2>2, <2>3 DEF Failing, Reasons
<1>14. CASE CommitOwned
  <2>1. Submittable(prepared)
    BY <1>1, <1>14, PackedIsSubmittable DEF UsercmdInv, CommitOwned
  <2> QED
    BY <1>1, <1>14, <2>1 DEF CommitOwned, Quiet, inputVars
<1>15. CASE Pump
  BY <1>1, <1>15 DEF Pump, Driving
<1>16. CASE StillBound
  BY <1>1, <1>16 DEF StillBound, Leave, Quiet, inputVars
<1>17. CASE NeverSent
  BY <1>1, <1>17 DEF NeverSent, Failing, Reasons
<1>18. CASE Cancel
  BY <1>1, <1>18 DEF Cancel, Failing, Reasons
<1>19. CASE DriverUsed
  BY <1>1, <1>19 DEF DriverUsed, Driving
<1>20. CASE Tick
  <2>1. due' \in Nat
    BY <1>1, <1>20, StageAssumption DEF Tick, Smaller
  <2> QED
    BY <1>1, <1>20, <2>1 DEF Tick, Quiet
<1> QED
  BY <1>2, <1>3, <1>4, <1>5, <1>6, <1>7, <1>8, <1>9, <1>10, <1>11, <1>12, <1>13, <1>14, <1>15,
     <1>16, <1>17, <1>18, <1>19, <1>20, <1>21 DEF Next, Step, Call

-----------------------------------------------------------------------------
(***************************************************************************)
(* Each kind of step keeps the invariant                                   *)
(***************************************************************************)

\* What depends on the history alone.
LEMMA SameHistoryKeeps ==
  ASSUME UsercmdInv, UNCHANGED <<historyVars, next>>
  PROVE  HistoryIsARun' /\ (UNCHANGED prepared => Packed')
<1>1. history' = history /\ next' = next /\ revision' = revision
  BY DEF historyVars
<1>2. HistoryIsARun'
  BY <1>1 DEF UsercmdInv, HistoryIsARun
<1>3. UNCHANGED prepared => Packed'
  BY <1>1 DEF UsercmdInv, Packed
<1> QED
  BY <1>2, <1>3

LEMMA FailingKeeps ==
  ASSUME UsercmdInv, Failing
  PROVE  UsercmdInv'
<1>1. PICK reason \in Reasons \ {"closed"} :
         Fail(reason) /\ (~config.reference \/ ~receipt \/ reason = "cancelled")
  BY DEF Failing
<1>2. /\ stage = "running" /\ stage' = reason /\ pc' = "outside" /\ prepared' = None
      /\ bound' = FALSE /\ receipt' = FALSE /\ active' = FALSE
      /\ UNCHANGED <<config, history, revision, wire, next, due, asked, issued>>
  BY <1>1 DEF Failing, Fail, FailAfter, historyVars
<1>3. reason # "running"
  BY DEF Reasons
<1>4. Types'
  <2>1. events \in Nat /\ events <= MaxEvents /\ MaxEvents \in Nat
    BY RingSize DEF UsercmdInv, Types
  <2>2. events' = Smaller(events + 0 + 1, MaxEvents)
    BY <1>1 DEF Fail, FailAfter
  <2>3. events' \in 0 .. MaxEvents
    BY <2>1, <2>2 DEF Smaller
  <2> QED
    BY <1>2, <2>3 DEF UsercmdInv, Types
<1>5. Flags' /\ Owned' /\ Packed'
  BY <1>2 DEF Flags, Owned, Packed
<1>6. Course'
  BY <1>2 DEF Course, Reasons
<1>7. HistoryIsARun'
  BY <1>2, SameHistoryKeeps DEF historyVars
<1>8. Covered'
  <2> SUFFICES ASSUME Counted' PROVE Covered'
    BY DEF Covered
  <2>1. Counted /\ ~receipt
    BY <1>1, <1>2, <1>3 DEF Counted
  <2> QED
    BY <1>2, <2>1 DEF UsercmdInv, Covered
<1>9. Room'
  <2>1. ~lost /\ ~ (events + 0 + (IF prepared # None THEN 1 ELSE 0) > MaxEvents)
    BY RingSize DEF UsercmdInv, Types, Room, SentEvents
  <2>2. lost' = (lost \/ events + 0 + (IF prepared # None THEN 1 ELSE 0) > MaxEvents)
    BY <1>1 DEF Fail, FailAfter
  <2>3. ~lost'
    BY <2>1, <2>2
  <2> QED
    BY <1>2, <2>3 DEF Room
<1>10. OneShotOnce'
  BY <1>2, <1>3 DEF OneShotOnce
<1> QED
  BY <1>4, <1>5, <1>6, <1>7, <1>8, <1>9, <1>10 DEF UsercmdInv

LEMMA QuietKeeps ==
  ASSUME UsercmdInv, Quiet
  PROVE  UsercmdInv'
<1>1. /\ UNCHANGED <<config, stage, history, revision, prepared, next, impulse, asked, issued,
                     events, lost, active, bound, receipt, wire>>
      /\ due' \in Nat
  BY DEF Quiet, historyVars, eventVars, driverVars
<1>2. Types'
  BY <1>1 DEF UsercmdInv, Types
<1>3. Flags' /\ Owned'
  BY <1>1 DEF UsercmdInv, Flags, Owned
<1>4. Course'
  BY <1>1 DEF UsercmdInv, Course, Quiet
<1>5. HistoryIsARun' /\ Packed'
  BY <1>1, SameHistoryKeeps DEF historyVars
<1>6. Covered'
  BY <1>1 DEF UsercmdInv, Covered, Counted
<1>7. Room'
  <2>1. pc' = "transmit" /\ HasUnsent(history) => events + PacketEvents <= MaxEvents
    BY DEF UsercmdInv, Room, Quiet
  <2> QED
    BY <1>1, <2>1 DEF UsercmdInv, Room, SentEvents
<1>8. OneShotOnce'
  BY <1>1 DEF UsercmdInv, OneShotOnce
<1> QED
  BY <1>2, <1>3, <1>4, <1>5, <1>6, <1>7, <1>8 DEF UsercmdInv

\* An event for which there is room is counted, and none is lost.
LEMMA PushCounts ==
  ASSUME UsercmdInv, NEW n \in Nat, events + n <= MaxEvents, Push(n)
  PROVE  events' = events + n /\ events' \in 0 .. MaxEvents /\ ~lost'
<1>1. events \in Nat /\ MaxEvents \in Nat /\ ~lost
  BY RingSize DEF UsercmdInv, Types, Room
<1>2. events' = Smaller(events + n, MaxEvents) /\ ~ (events + n > MaxEvents)
  BY <1>1 DEF Push
<1>3. ~lost'
  BY <1>1, <1>2 DEF Push
<1>4. events' = events + n /\ events' \in 0 .. MaxEvents
  BY <1>1, <1>2 DEF Smaller
<1> QED
  BY <1>3, <1>4

LEMMA NotingKeeps ==
  ASSUME UsercmdInv, Noting
  PROVE  UsercmdInv'
<1>1. /\ UNCHANGED <<config, stage, history, revision, prepared, next, due, impulse, asked, issued,
                     active, bound, receipt, wire>>
      /\ stage = "running" /\ prepared = None /\ pc' \in {"outside", "drain"}
  BY DEF Noting, historyVars, inputVars, driverVars
<1>2. events' \in 0 .. MaxEvents /\ ~lost'
  <2>1. events + 1 <= MaxEvents
    BY RingSize DEF UsercmdInv, Types, Noting, PacketEvents
  <2> QED
    BY <2>1, PushCounts DEF Noting
<1>3. Types'
  BY <1>1, <1>2 DEF UsercmdInv, Types
<1>4. Flags' /\ Owned'
  BY <1>1 DEF UsercmdInv, Flags, Owned
<1>5. Course'
  BY <1>1 DEF UsercmdInv, Course
<1>6. HistoryIsARun' /\ Packed'
  BY <1>1, SameHistoryKeeps DEF historyVars
<1>7. Covered'
  BY <1>1 DEF UsercmdInv, Covered, Counted
<1>8. Room'
  BY <1>1, <1>2 DEF Room
<1>9. OneShotOnce'
  BY <1>1 DEF UsercmdInv, OneShotOnce
<1> QED
  BY <1>3, <1>4, <1>5, <1>6, <1>7, <1>8, <1>9 DEF UsercmdInv

LEMMA ImpulseKeeps ==
  ASSUME UsercmdInv, QueueImpulse
  PROVE  UsercmdInv'
<1>1. /\ UNCHANGED <<config, pc, stage, history, revision, prepared, next, due, issued,
                     events, lost, active, bound, receipt, wire>>
      /\ ~impulse /\ impulse' = TRUE /\ asked' = asked + 1 /\ stage = "running"
  BY DEF QueueImpulse, Running, historyVars, eventVars, driverVars
<1>2. Types'
  BY <1>1 DEF UsercmdInv, Types
<1>3. Flags' /\ Owned' /\ Course'
  BY <1>1 DEF UsercmdInv, Flags, Owned, Course
<1>4. HistoryIsARun' /\ Packed'
  BY <1>1, SameHistoryKeeps DEF historyVars
<1>5. Covered' /\ Room'
  BY <1>1 DEF UsercmdInv, Covered, Counted, Room, SentEvents
<1>6. OneShotOnce'
  BY <1>1 DEF UsercmdInv, Types, OneShotOnce
<1> QED
  BY <1>2, <1>3, <1>4, <1>5, <1>6 DEF UsercmdInv

LEMMA PollKeeps ==
  ASSUME UsercmdInv, PollEvent
  PROVE  UsercmdInv'
<1>1. /\ UNCHANGED <<config, pc, stage, history, revision, prepared, next, due, impulse, asked,
                     issued, lost, active, bound, receipt, wire>>
      /\ events > 0 /\ events' = events - 1
  BY DEF PollEvent, historyVars, inputVars, driverVars
<1>2. /\ events \in Nat /\ MaxEvents \in Nat /\ events <= MaxEvents
      /\ events' \in 0 .. MaxEvents
  BY <1>1, RingSize DEF UsercmdInv, Types
<1>3. Types'
  BY <1>1, <1>2 DEF UsercmdInv, Types
<1>4. Flags' /\ Owned' /\ Course'
  BY <1>1 DEF UsercmdInv, Flags, Owned, Course
<1>5. HistoryIsARun' /\ Packed'
  BY <1>1, SameHistoryKeeps DEF historyVars
<1>6. Covered' /\ OneShotOnce'
  BY <1>1 DEF UsercmdInv, Covered, Counted, OneShotOnce
<1>7. Room'
  <2>1. pc' # "transmit" /\ ~lost'
    BY <1>1 DEF UsercmdInv, Room, PollEvent, Outside
  <2>2. SentEvents \in Nat /\ SentEvents' = SentEvents
    BY <1>1 DEF SentEvents
  <2>3. prepared # None => events + SentEvents + 1 <= MaxEvents
    BY DEF UsercmdInv, Room
  <2>4. prepared # None => events - 1 + SentEvents + 1 <= MaxEvents
    BY <1>2, <2>2, <2>3
  <2> QED
    BY <1>1, <2>1, <2>2, <2>4 DEF Room
<1> QED
  BY <1>3, <1>4, <1>5, <1>6, <1>7 DEF UsercmdInv

LEMMA CloseKeeps ==
  ASSUME UsercmdInv, Close
  PROVE  UsercmdInv'
<1>1. /\ UNCHANGED <<config, pc, history, revision, next, due, asked, issued, events, lost, wire>>
      /\ stage' = "closed" /\ prepared' = None /\ pc = "outside"
      /\ bound' = FALSE /\ receipt' = FALSE
  BY DEF Close, Outside, historyVars, eventVars
<1>2. Types'
  BY <1>1 DEF UsercmdInv, Types
<1>3. Flags' /\ Owned' /\ Packed'
  BY <1>1 DEF Flags, Owned, Packed
<1>4. Course' /\ Covered' /\ OneShotOnce'
  BY <1>1 DEF Course, Reasons, Covered, Counted, OneShotOnce
<1>5. HistoryIsARun'
  BY <1>1, SameHistoryKeeps DEF historyVars
<1>6. Room'
  BY <1>1 DEF UsercmdInv, Room
<1> QED
  BY <1>2, <1>3, <1>4, <1>5, <1>6 DEF UsercmdInv

\* What the new commands of a packet are, counted from the first unsent one.
LEMMA NewIdsFollow ==
  ASSUME UsercmdInv, prepared # None
  PROVE  /\ NewIds(prepared) \in Seq(Nat) /\ Len(NewIds(prepared)) = News(prepared)
         /\ News(prepared) \in 1 .. Len(history) - Sent(history)
         /\ \A i \in 1 .. News(prepared) :
              NewIds(prepared)[i] = next - Len(history) + Sent(history) + i - 1
<1> DEFINE u == Sent(history)
<1>1. prepared \in Packet
  BY DEF UsercmdInv, Types
<1>2. PICK b \in Nat, len \in Nat : b = prepared.backups /\ len = Len(prepared.ids)
  BY <1>1 DEF Packet
<1>3. /\ News(prepared) = len - b /\ News(prepared) \in 1 .. Len(history) - u
      /\ \A i \in 1 .. len : prepared.ids[i] = next - Len(history) + u - b + i - 1
  BY <1>2 DEF UsercmdInv, Packed, News
<1>4. Len(history) \in Nat /\ u \in Nat /\ next \in Nat
  BY DEF UsercmdInv, Types, HistoryIsARun, RunBefore, SentUpTo
<1> HIDE DEF u
<1>5. News(prepared) \in Nat /\ b <= len
  BY <1>3, <1>4
<1>6. /\ NewIds(prepared) \in Seq(Nat) /\ Len(NewIds(prepared)) = News(prepared)
      /\ \A i \in 1 .. News(prepared) : NewIds(prepared)[i] = prepared.ids[b + i]
  BY <1>1, <1>2, <1>5, NewIdsAre
<1>7. ASSUME NEW i \in 1 .. News(prepared)
      PROVE  NewIds(prepared)[i] = next - Len(history) + u + i - 1
  <2>1. b + i \in 1 .. len /\ i \in Int
    BY <1>3, <1>4, <1>5
  <2>2. NewIds(prepared)[i] = next - Len(history) + u - b + (b + i) - 1
    BY <1>3, <1>6, <2>1
  <2> QED
    BY <1>4, <2>1, <2>2
<1> QED
  BY <1>3, <1>6, <1>7 DEF u

LEMMA NewIdsSet ==
  ASSUME UsercmdInv, prepared # None
  PROVE  LET first == next - Len(history) + Sent(history)
         IN /\ ToSet(NewIds(prepared)) \in SUBSET Nat
            /\ \A id \in Nat : id \in ToSet(NewIds(prepared))
                               <=> id \in first .. first + News(prepared) - 1
<1> DEFINE new == NewIds(prepared)
           ids == ToSet(new)
           d == News(prepared)
           first == next - Len(history) + Sent(history)
<1>1. /\ new \in Seq(Nat) /\ Len(new) = d /\ d \in 1 .. Len(history) - Sent(history)
      /\ \A i \in 1 .. d : new[i] = first + i - 1
  BY NewIdsFollow
<1>2. first \in Int /\ d \in Nat
  BY <1>1 DEF UsercmdInv, Types, HistoryIsARun, RunBefore, SentUpTo
<1> HIDE DEF new, d, first
<1>3. DOMAIN new = 1 .. d /\ \A i \in 1 .. d : new[i] \in Nat
  BY <1>1
<1>4. ids = {new[i] : i \in 1 .. d}
  BY <1>3 DEF ToSet
<1> HIDE DEF ids
<1>5. ASSUME NEW id \in Nat PROVE id \in ids <=> id \in first .. first + d - 1
  <2>1. ASSUME id \in ids PROVE id \in first .. first + d - 1
    <3>1. PICK i \in 1 .. d : id = new[i]
      BY <1>4, <2>1
    <3> QED
      BY <1>1, <1>2, <3>1
  <2>2. ASSUME id \in first .. first + d - 1 PROVE id \in ids
    <3>1. id - first + 1 \in 1 .. d /\ first + (id - first + 1) - 1 = id
      BY <1>2, <2>2
    <3>2. new[id - first + 1] = id
      BY <1>1, <3>1
    <3> QED
      BY <1>4, <3>1, <3>2
  <2> QED
    BY <2>1, <2>2
<1>6. ids \in SUBSET Nat
  BY <1>3, <1>4
<1> QED
  BY <1>5, <1>6 DEF ids, new, d, first

\* What a sending adds continues what has left.
LEMMA SendingCovers ==
  ASSUME UsercmdInv, Counted, ~receipt, prepared # None
  PROVE  /\ \A i \in 1 .. Len(wire \o NewIds(prepared)) : (wire \o NewIds(prepared))[i] = i
         /\ Len(wire \o NewIds(prepared))
              = (next - 1) - (Len(history) - Sent(history)) + News(prepared)
<1> DEFINE u == Sent(history)
           w == Len(wire)
           new == NewIds(prepared)
           d == News(prepared)
<1>1. /\ new \in Seq(Nat) /\ Len(new) = d
      /\ d \in 1 .. Len(history) - u
      /\ \A i \in 1 .. d : new[i] = next - Len(history) + u + i - 1
  BY NewIdsFollow
<1>2. Len(history) \in Nat /\ u \in Nat /\ next \in Nat /\ wire \in Seq(Nat) /\ w \in Nat
  BY DEF UsercmdInv, Types, HistoryIsARun, RunBefore, SentUpTo
<1>3. /\ \A i \in 1 .. w : wire[i] = i
      /\ w = (next - 1) - (Len(history) - u)
  BY <1>2 DEF UsercmdInv, Covered
<1>4. Len(wire) = w
  OBVIOUS
<1> HIDE DEF u, new, d, w
<1>5. d \in Nat
  BY <1>1, <1>2
<1>6. /\ Len(wire \o new) = w + d
      /\ \A i \in 1 .. w + d : (wire \o new)[i] = IF i <= w THEN wire[i] ELSE new[i - w]
  BY <1>1, <1>2, <1>4, ConcatProperties
<1>7. ASSUME NEW i \in 1 .. w + d PROVE (wire \o new)[i] = i
  <2>1. CASE i <= w
    <3>1. i \in 1 .. w /\ (wire \o new)[i] = wire[i]
      BY <1>2, <1>6, <2>1
    <3> QED
      BY <1>3, <3>1
  <2>2. CASE i > w
    <3>1. i - w \in 1 .. d
      BY <1>2, <1>5, <2>2
    <3>2. (wire \o new)[i] = new[i - w]
      BY <1>2, <1>6, <2>2
    <3>3. new[i - w] = next - Len(history) + u + (i - w) - 1
      BY <1>1, <3>1
    <3> QED
      BY <1>2, <1>3, <3>1, <3>2, <3>3
  <2>3. i <= w \/ i > w
    BY <1>2, <1>5
  <2> QED
    BY <2>1, <2>2, <2>3, Zenon
<1>8. Len(wire \o new) = (next - 1) - (Len(history) - u) + d
  BY <1>3, <1>6
<1>9. \A i \in 1 .. Len(wire \o new) : (wire \o new)[i] = i
  BY <1>6, <1>7
<1> QED
  BY <1>8, <1>9 DEF u, new, d

LEMMA DrivingKeeps ==
  ASSUME UsercmdInv, Driving
  PROVE  UsercmdInv'
<1>1. UNCHANGED <<config, stage, history, revision, prepared, next, due, impulse, asked, issued,
                  events, lost>>
  BY DEF Driving, historyVars, inputVars, eventVars
<1>2. HistoryIsARun' /\ Packed'
  BY <1>1, SameHistoryKeeps DEF historyVars
<1>3. Course'
  BY <1>1 DEF UsercmdInv, Course, Driving
<1>4. Room'
  <2>1. pc' # "transmit"
    BY DEF Driving
  <2> QED
    BY <1>1, <2>1 DEF UsercmdInv, Room, SentEvents
<1>5. OneShotOnce'
  BY <1>1 DEF UsercmdInv, OneShotOnce
<1>6. \/ (active' => active) /\ UNCHANGED <<bound, receipt, wire>>
      \/ active /\ bound /\ active' \in BOOLEAN /\ bound' = active' /\ UNCHANGED <<receipt, wire>>
      \/ /\ active /\ bound /\ bound' = FALSE /\ receipt' = TRUE
         /\ wire' = wire \o NewIds(prepared)
  BY DEF Driving, DriverUpdate, driverVars
<1>7. /\ bound \in BOOLEAN /\ receipt \in BOOLEAN
      /\ bound \/ receipt => prepared # None /\ prepared.owned
      /\ prepared # None /\ prepared.owned /\ active => bound # receipt
  BY DEF UsercmdInv, Flags, Owned
<1>8. Types' /\ Flags' /\ Owned' /\ Covered'
  <2>1. CASE (active' => active) /\ UNCHANGED <<bound, receipt, wire>>
    <3>1. Types'
      BY <1>1, <2>1 DEF UsercmdInv, Types
    <3>2. Flags' /\ Owned'
      BY <1>1, <1>7, <2>1 DEF Flags, Owned
    <3>3. Covered'
      BY <1>1, <2>1 DEF UsercmdInv, Covered, Counted
    <3> QED
      BY <3>1, <3>2, <3>3
  <2>2. CASE /\ active /\ bound /\ active' \in BOOLEAN /\ bound' = active'
             /\ UNCHANGED <<receipt, wire>>
    <3>1. Types'
      BY <1>1, <2>2 DEF UsercmdInv, Types
    <3>2. Flags' /\ Owned'
      BY <1>1, <1>7, <2>2 DEF Flags, Owned
    <3>3. Covered'
      BY <1>1, <2>2 DEF UsercmdInv, Covered, Counted
    <3> QED
      BY <3>1, <3>2, <3>3
  <2>3. CASE /\ active /\ bound /\ bound' = FALSE /\ receipt' = TRUE
             /\ wire' = wire \o NewIds(prepared)
    <3>1. prepared # None /\ ~receipt
      BY <1>7, <2>3
    <3>2. Types'
      <4>1. wire \o NewIds(prepared) \in Seq(Nat)
        <5>1. wire \in Seq(Nat) /\ NewIds(prepared) \in Seq(Nat)
          BY <3>1, NewIdsFollow DEF UsercmdInv, Types
        <5> QED
          BY <5>1, ConcatProperties
      <4> QED
        BY <1>1, <2>3, <4>1 DEF UsercmdInv, Types
    <3>3. Flags' /\ Owned'
      BY <1>1, <1>7, <2>3 DEF Flags, Owned
    <3>4. Covered'
      <4> SUFFICES ASSUME Counted' PROVE Covered'
        BY DEF Covered
      <4>1. Counted
        BY <1>1 DEF Counted
      <4>2. /\ \A i \in 1 .. Len(wire') : wire'[i] = i
            /\ Len(wire') = (next - 1) - (Len(history) - Sent(history)) + News(prepared)
        BY <2>3, <3>1, <4>1, SendingCovers
      <4>3. News(prepared)' = News(prepared)
        BY <1>1 DEF News
      <4> QED
        BY <1>1, <2>3, <4>2, <4>3 DEF Covered
    <3> QED
      BY <3>2, <3>3, <3>4
  <2> QED
    BY <1>6, <2>1, <2>2, <2>3
<1> QED
  BY <1>2, <1>3, <1>4, <1>5, <1>8 DEF UsercmdInv

\* A history that grows at its end by what was not sent, with what has left.
LEMMA LongerHistoryCovers ==
  ASSUME UsercmdInv, NEW h, NEW n \in Nat, NEW v \in Nat, NEW k \in Nat,
         Len(h) \in Nat, Sent(h) = v, n = next + k,
         Len(h) - v = Len(history) - Sent(history) + k,
         UNCHANGED <<config, stage, receipt, prepared, wire>>,
         history' = h, next' = n
  PROVE  Covered'
<1> SUFFICES ASSUME Counted' PROVE Covered'
  BY DEF Covered
<1>1. Counted
  BY DEF Counted
<1>2. /\ \A i \in 1 .. Len(wire) : wire[i] = i
      /\ Len(wire) = (next - 1) - (Len(history) - Sent(history))
                       + (IF receipt THEN News(prepared) ELSE 0)
  BY <1>1 DEF UsercmdInv, Covered
<1>3. next \in Nat /\ Len(history) \in Nat /\ Sent(history) \in Nat
  BY DEF UsercmdInv, Types, HistoryIsARun, RunBefore, SentUpTo
<1>4. (n - 1) - (Len(h) - v) = (next - 1) - (Len(history) - Sent(history))
  <2> DEFINE y == Len(history) - Sent(history)
  <2>1. y \in Int
    BY <1>3
  <2>2. Len(h) - v = y + k
    OBVIOUS
  <2> HIDE DEF y
  <2>3. (n - 1) - (y + k) = (next - 1) - y
    BY <1>3, <2>1
  <2>4. (n - 1) - (Len(h) - v) = (next - 1) - y
    BY <2>2, <2>3
  <2> QED
    BY <2>4 DEF y
<1>5. News(prepared)' = News(prepared)
  BY DEF News
<1> QED
  BY <1>2, <1>4, <1>5 DEF Covered

LEMMA QueueKeeps ==
  ASSUME UsercmdInv, QueueReferenceCommand
  PROVE  UsercmdInv'
<1>1. /\ UNCHANGED <<config, pc, stage, prepared, due, impulse, asked, issued, events, lost, active,
                     bound, receipt, wire>>
      /\ pc = "outside" /\ stage = "running" /\ prepared = None /\ Accepting(history)
      /\ history' = Inserted(history, next) /\ revision' = revision + 1 /\ next' = next + 1
  BY DEF QueueReferenceCommand, Running, Outside, eventVars, driverVars
<1> DEFINE u == Sent(history)
           e == IF IsFull(history) THEN 1 ELSE 0
           h == Inserted(history, next)
<1>2. /\ next \in Nat \ {0} /\ RunBefore(history, next) /\ SentUpTo(history, u)
      /\ u \in Nat /\ Len(history) \in Nat
  BY DEF UsercmdInv, Types, HistoryIsARun, RunBefore, SentUpTo
<1>3. e \in {0, 1}
  OBVIOUS
<1>4. /\ e <= u /\ RunBefore(h, next + 1) /\ SentUpTo(h, u - e) /\ Len(h) = Len(history) + 1 - e
  BY <1>1, <1>2, InsertedIs
<1> HIDE DEF u, e, h
<1>5. Sent(h) = u - e
  BY <1>4, FirstUnsentIs DEF RunBefore
<1>6. HistoryIsARun'
  BY <1>1, <1>4, <1>5 DEF HistoryIsARun, h
<1>7. Types'
  BY <1>1 DEF UsercmdInv, Types
<1>8. Flags' /\ Owned' /\ Course' /\ OneShotOnce'
  BY <1>1 DEF UsercmdInv, Flags, Owned, Course, OneShotOnce
<1>9. Packed' /\ Room'
  BY <1>1 DEF UsercmdInv, Packed, Room
<1>10. Covered'
  <2>1. u - e \in Nat /\ Len(h) \in Nat /\ next + 1 \in Nat
    BY <1>2, <1>3, <1>4
  <2>2. Len(h) - (u - e) = Len(history) - u + 1
    BY <1>2, <1>3, <1>4
  <2> QED
    BY <1>1, <1>5, <2>1, <2>2, LongerHistoryCovers DEF u, h
<1> QED
  BY <1>6, <1>7, <1>8, <1>9, <1>10 DEF UsercmdInv

LEMMA BatchKeeps ==
  ASSUME UsercmdInv, Sample, pc' = "transmit"
  PROVE  UsercmdInv'
<1> DEFINE staged == InsertAll(history, Batch)
           u == Sent(history)
           h == staged.history
           v == staged.evicted
<1>1. /\ UNCHANGED <<config, stage, prepared, asked, active, bound, receipt, wire>>
      /\ pc = "sample" /\ staged # None
      /\ ~ (SampleEvents(staged) + Reserve(h) > MaxEvents - events)
      /\ history' = h /\ revision' = revision + due /\ next' = next + due /\ due' = 0
      /\ impulse' = (impulse /\ ~ConsumesImpulse)
      /\ issued' = issued + (IF CarriesImpulse THEN 1 ELSE 0)
      /\ Push(SampleEvents(staged))
  BY DEF Sample, Refused, Leave, driverVars
<1>2. /\ next \in Nat \ {0} /\ RunBefore(history, next) /\ SentUpTo(history, u)
      /\ u \in Nat /\ Len(history) \in Nat /\ due \in Nat
      /\ prepared = None /\ stage = "running"
  BY <1>1 DEF UsercmdInv, Types, Course, HistoryIsARun, RunBefore, SentUpTo
<1>3. Len(Batch) = due /\ \A i \in 1 .. due : Batch[i] = next + i - 1
  BY <1>2 DEF Batch
<1>4. v \in Nat /\ Extends(h, v, Len(history), next, u, due)
  <2> HIDE DEF u
  <2> QED
    BY <1>1, <1>2, <1>3, InsertAllExtends
<1> HIDE DEF staged, u, h, v
<1>5. /\ v <= u /\ v <= due /\ RunBefore(h, next + due) /\ SentUpTo(h, u - v)
      /\ Len(h) = Len(history) + due - v
  BY <1>2, <1>4 DEF Extends
<1>6. Sent(h) = u - v
  BY <1>5, FirstUnsentIs DEF RunBefore
<1>7. HistoryIsARun'
  BY <1>1, <1>5, <1>6 DEF HistoryIsARun
<1>8. SampleEvents(staged) \in Nat /\ Reserve(h) \in Nat
  BY <1>2, <1>4 DEF SampleEvents, Reserve, PacketEvents, v
<1>9. /\ events + SampleEvents(staged) + Reserve(h) <= MaxEvents
      /\ events \in Nat /\ MaxEvents \in Nat
  BY <1>1, <1>8, RingSize DEF UsercmdInv, Types
<1>10. events' = events + SampleEvents(staged) /\ events' \in 0 .. MaxEvents /\ ~lost'
  <2>1. events + SampleEvents(staged) <= MaxEvents
    BY <1>8, <1>9
  <2> QED
    BY <1>1, <1>8, <2>1, PushCounts
<1>11. Types'
  <2>1. revision' \in Nat /\ next' \in Nat \ {0} /\ due' \in Nat /\ issued' \in Nat
    BY <1>1, <1>2 DEF UsercmdInv, Types
  <2> QED
    BY <1>1, <1>10, <2>1 DEF UsercmdInv, Types
<1>12. Flags' /\ Owned' /\ Course'
  BY <1>1, <1>2 DEF UsercmdInv, Flags, Owned, Course
<1>13. Packed'
  BY <1>1, <1>2 DEF Packed
<1>14. Room'
  <2>1. HasUnsent(h) => Reserve(h) = PacketEvents
    BY DEF Reserve
  <2> QED
    BY <1>1, <1>2, <1>9, <1>10, <2>1 DEF Room
<1>15. Covered'
  <2>1. u - v \in Nat /\ Len(h) \in Nat /\ next + due \in Nat
    BY <1>2, <1>4, <1>5
  <2>2. Len(h) - (u - v) = Len(history) - u + due
    BY <1>2, <1>4, <1>5
  <2> QED
    BY <1>1, <1>2, <1>6, <2>1, <2>2, LongerHistoryCovers DEF u
<1>16. OneShotOnce'
  <2>1. asked = issued + (IF impulse THEN 1 ELSE 0) /\ issued \in Nat
    BY <1>2 DEF UsercmdInv, Types, OneShotOnce
  <2>2. CASE CarriesImpulse
    <3>1. impulse /\ ~impulse'
      BY <1>1, <2>2 DEF CarriesImpulse, ConsumesImpulse
    <3> QED
      BY <1>1, <2>1, <2>2, <3>1 DEF OneShotOnce
  <2>3. CASE ~CarriesImpulse
    <3>1. impulse' <=> impulse
      BY <1>1, <2>3 DEF CarriesImpulse, ConsumesImpulse
    <3> QED
      BY <1>1, <2>1, <2>3, <3>1 DEF OneShotOnce
  <2> QED
    BY <2>2, <2>3
<1> QED
  BY <1>7, <1>11, <1>12, <1>13, <1>14, <1>15, <1>16 DEF UsercmdInv

LEMMA PrepareKeeps ==
  ASSUME UsercmdInv, NEW capacity \in Capacities, PrepareMove(capacity), stage' = "running"
  PROVE  UsercmdInv'
<1> DEFINE u == Sent(history)
           p == Plan(capacity)
<1>1. /\ pc = "transmit" /\ HasUnsent(history) /\ ~NoRoom(capacity)
      /\ stage = "running" /\ prepared = None
      /\ UNCHANGED <<config, history, revision>>
  BY DEF UsercmdInv, Course, PrepareMove, historyVars
<1>2. /\ ~ ((IF p.backups # 0 THEN 6 ELSE 5) > MaxEvents - events)
      /\ prepared' = p /\ receipt' = FALSE /\ Push(2)
      /\ pc' = (IF config.phases = 1 THEN "outside" ELSE "commit")
      /\ UNCHANGED <<next, due, impulse, asked, issued, active, bound, wire>>
  BY DEF PrepareMove, Fail, FailAfter, inputVars
<1>3. /\ next \in Nat \ {0} /\ RunBefore(history, next) /\ SentUpTo(history, u)
      /\ u \in Nat /\ Len(history) \in Nat /\ revision \in Nat
  BY DEF UsercmdInv, Types, HistoryIsARun, RunBefore, SentUpTo
<1>4. PICK news \in 1 .. Len(history) - u, backups \in 0 .. u :
         p = PacketOf(history, news, backups)
  <2> HIDE DEF u, p
  <2>1. \E news \in 1 .. Len(history) - u, backups \in 0 .. u :
           Plan(capacity) = PacketOf(history, news, backups)
    BY <1>1, <1>3, PlanIs DEF UsercmdInv
  <2> QED
    BY <2>1 DEF p
<1> HIDE DEF u, p
<1>5. /\ p \in Packet /\ ~p.owned /\ p.revision = revision
      /\ p.backups = backups /\ News(p) = news
      /\ \A i \in 1 .. Len(p.ids) : p.ids[i] = next - Len(history) + u - backups + i - 1
  <2>1. /\ revision \in Nat /\ RunBefore(history, next) /\ SentUpTo(history, u)
        /\ next \in Nat \ {0} /\ news \in 1 .. Len(history) - u /\ backups \in 0 .. u
    BY <1>3, <1>4
  <2> DEFINE q == PacketOf(history, news, backups)
  <2>2. q \in Packet /\ ~q.owned /\ q.revision = revision
    BY <2>1, PacketIs
  <2>3. q.backups = backups /\ News(q) = news
    BY <2>1, PacketIs
  <2>4. \A i \in 1 .. Len(q.ids) : q.ids[i] = next - Len(history) + u - backups + i - 1
    BY <2>1, PacketIs
  <2> HIDE DEF q
  <2>5. p = q
    BY <1>4 DEF q
  <2> QED
    BY <2>2, <2>3, <2>4, <2>5
<1>6. ~bound /\ ~receipt /\ bound \in BOOLEAN
  BY <1>1 DEF UsercmdInv, Owned, Flags
<1>7. /\ events \in Nat /\ MaxEvents \in Nat
      /\ events + (IF backups # 0 THEN 6 ELSE 5) <= MaxEvents
  BY <1>2, <1>5, RingSize DEF UsercmdInv, Types
<1>8. events' = events + 2 /\ events' \in 0 .. MaxEvents /\ ~lost'
  <2>1. events + 2 <= MaxEvents
    BY <1>7
  <2> QED
    BY <1>2, <2>1, PushCounts
<1>9. prepared' # None
  BY <1>2, <1>5, NoneAssumption
<1>10. Types'
  BY <1>1, <1>2, <1>5, <1>8 DEF UsercmdInv, Types
<1>11. Flags' /\ Owned'
  BY <1>2, <1>5, <1>6 DEF Flags, Owned
<1>12. Course'
  BY <1>2, <1>9 DEF Course
<1>13. HistoryIsARun'
  BY <1>1, <1>2, SameHistoryKeeps DEF historyVars
<1>14. Packed'
  BY <1>1, <1>2, <1>3, <1>5 DEF Packed, u
<1>15. Covered'
  <2> SUFFICES ASSUME Counted' PROVE Covered'
    BY DEF Covered
  <2>1. Counted
    BY <1>1 DEF Counted
  <2> QED
    BY <1>1, <1>2, <1>6, <2>1 DEF UsercmdInv, Covered
<1>16. Room'
  <2>1. SentEvents' = IF backups # 0 THEN 3 ELSE 2
    BY <1>2, <1>5 DEF SentEvents
  <2>2. events' + SentEvents' + 1 <= MaxEvents
    BY <1>7, <1>8, <2>1
  <2> QED
    BY <1>1, <1>2, <1>8, <2>2 DEF Room
<1>17. OneShotOnce'
  BY <1>1, <1>2 DEF UsercmdInv, OneShotOnce
<1> QED
  BY <1>10, <1>11, <1>12, <1>13, <1>14, <1>15, <1>16, <1>17 DEF UsercmdInv

LEMMA DropKeeps ==
  ASSUME UsercmdInv, CommitStale
  PROVE  UsercmdInv'
<1>1. Submittable(prepared)
  BY PackedIsSubmittable DEF UsercmdInv, Course, CommitStale
<1>2. /\ prepared' = None /\ Push(1) /\ pc' = "outside"
      /\ ~prepared.owned
      /\ UNCHANGED <<config, stage, history, revision, next, due, impulse, asked, issued,
                     active, bound, receipt, wire>>
  BY <1>1 DEF CommitStale, Leave, historyVars, inputVars
<1>3. prepared # None /\ stage = "running" /\ ~bound /\ ~receipt
  BY <1>2 DEF UsercmdInv, Course, Owned, CommitStale
<1>4. events' \in 0 .. MaxEvents /\ ~lost'
  <2>1. events + SentEvents + 1 <= MaxEvents /\ SentEvents \in {2, 3}
    BY <1>3 DEF UsercmdInv, Room, SentEvents
  <2>2. events + 1 <= MaxEvents
    BY <2>1, RingSize DEF UsercmdInv, Types
  <2> QED
    BY <1>2, <2>2, PushCounts
<1>5. Types'
  BY <1>2, <1>4 DEF UsercmdInv, Types
<1>6. Flags' /\ Owned'
  BY <1>2, <1>3 DEF UsercmdInv, Flags, Owned
<1>7. Course' /\ Packed' /\ OneShotOnce'
  BY <1>2 DEF UsercmdInv, Course, Packed, OneShotOnce
<1>8. HistoryIsARun'
  BY <1>2, SameHistoryKeeps DEF historyVars
<1>9. Covered'
  BY <1>2, <1>3 DEF UsercmdInv, Covered, Counted
<1>10. Room'
  BY <1>2, <1>4 DEF Room
<1> QED
  BY <1>5, <1>6, <1>7, <1>8, <1>9, <1>10 DEF UsercmdInv

LEMMA BindKeeps ==
  ASSUME UsercmdInv, CommitBinds
  PROVE  UsercmdInv'
<1>1. Submittable(prepared)
  BY PackedIsSubmittable DEF UsercmdInv, Course, CommitBinds
<1>2. /\ prepared' = [prepared EXCEPT !.owned = TRUE] /\ bound' = TRUE
      /\ pc' \in {"outside", "pump"} /\ ~prepared.owned
      /\ UNCHANGED <<config, stage, history, revision, next, due, impulse, asked, issued,
                     events, lost, active, receipt, wire>>
  BY <1>1 DEF CommitBinds, historyVars, inputVars, eventVars
<1>3. prepared # None /\ stage = "running" /\ ~bound /\ ~receipt /\ prepared \in Packet
  BY <1>2 DEF UsercmdInv, Course, Owned, Types, CommitBinds
<1>4. /\ prepared' \in Packet /\ prepared'.owned /\ prepared'.ids = prepared.ids
      /\ prepared'.backups = prepared.backups /\ prepared'.revision = prepared.revision
  BY <1>2, <1>3 DEF Packet
<1>5. prepared' # None
  BY <1>4, NoneAssumption
<1>6. Types'
  BY <1>2, <1>4 DEF UsercmdInv, Types
<1>7. Flags' /\ Owned'
  BY <1>2, <1>3, <1>4, <1>5 DEF UsercmdInv, Flags, Owned
<1>8. Course'
  BY <1>2, <1>3, <1>4, <1>5 DEF UsercmdInv, Course
<1>9. HistoryIsARun'
  BY <1>2, SameHistoryKeeps DEF historyVars
<1>10. Packed'
  BY <1>2, <1>3, <1>4 DEF UsercmdInv, Packed, News
<1>11. Covered'
  BY <1>2, <1>3 DEF UsercmdInv, Covered, Counted
<1>12. Room'
  BY <1>2, <1>3, <1>4 DEF UsercmdInv, Room, SentEvents
<1>13. OneShotOnce'
  BY <1>2 DEF UsercmdInv, OneShotOnce
<1> QED
  BY <1>6, <1>7, <1>8, <1>9, <1>10, <1>11, <1>12, <1>13 DEF UsercmdInv

LEMMA AccountKeeps ==
  ASSUME UsercmdInv, Account
  PROVE  UsercmdInv'
<1> DEFINE u == Sent(history)
           d == News(prepared)
           ids == ToSet(NewIds(prepared))
           h == Submitted(history, ids)
<1>1. /\ pc = "account" /\ receipt /\ history' = h /\ revision' = revision + 1
      /\ prepared' = None /\ receipt' = FALSE /\ pc' = "outside"
      /\ UNCHANGED <<config, next, due, asked, issued, wire>>
      /\ stage' \in {stage, "network_error"}
      /\ \/ Push(SentEvents) /\ UNCHANGED <<stage, bound, impulse>>
         \/ FailAfter("network_error", SentEvents)
  BY DEF Account, FailAfter, Leave, inputVars
<1>2. /\ prepared # None /\ stage = "running" /\ prepared.owned
      /\ next \in Nat \ {0} /\ RunBefore(history, next) /\ SentUpTo(history, u)
      /\ u \in Nat /\ Len(history) \in Nat
  BY <1>1 DEF UsercmdInv, Course, Types, HistoryIsARun, RunBefore, SentUpTo
<1>3. d \in 1 .. Len(history) - u
      /\ \A id \in Nat : id \in ids <=> id \in next - Len(history) + u .. next - Len(history) + u + d - 1
  BY <1>2, NewIdsFollow, NewIdsSet
<1> HIDE DEF u, d, ids
<1>4. /\ RunBefore(h, next) /\ SentUpTo(h, u + d) /\ Len(h) = Len(history)
  <2>1. /\ next \in Nat \ {0} /\ RunBefore(history, next) /\ SentUpTo(history, u)
        /\ d \in 1 .. Len(history) - u
    BY <1>2, <1>3
  <2>2. \A id \in Nat :
          id \in ids <=> id \in next - Len(history) + u .. next - Len(history) + u + d - 1
    BY <1>3
  <2>3. RunBefore(h, next)
    BY <2>1, <2>2, SubmittedIs
  <2>4. SentUpTo(h, u + d)
    BY <2>1, <2>2, SubmittedIs
  <2>5. Len(h) = Len(history)
    BY <2>1, <2>2, SubmittedIs
  <2> QED
    BY <2>3, <2>4, <2>5
<1> HIDE DEF h
<1>5. Sent(h) = u + d
  BY <1>4, FirstUnsentIs DEF RunBefore
<1>6. HistoryIsARun'
  BY <1>1, <1>4, <1>5 DEF HistoryIsARun
<1>7. events' \in 0 .. MaxEvents /\ ~lost'
  <2>1. /\ events \in Nat /\ MaxEvents \in Nat /\ SentEvents \in Nat
        /\ events + SentEvents + 1 <= MaxEvents /\ ~lost
    BY <1>2, RingSize DEF UsercmdInv, Types, Room, SentEvents
  <2>2. CASE Push(SentEvents)
    BY <2>1, <2>2, PushCounts
  <2>3. CASE FailAfter("network_error", SentEvents)
    <3>1. /\ events' = Smaller(events + SentEvents + 1, MaxEvents)
          /\ lost' = (lost \/ events + SentEvents + 1 > MaxEvents)
      BY <1>2, <2>3 DEF FailAfter
    <3>2. ~ (events + SentEvents + 1 > MaxEvents)
      BY <2>1
    <3>3. ~lost'
      BY <2>1, <3>1, <3>2, Zenon
    <3>4. events' \in 0 .. MaxEvents
      BY <2>1, <3>1 DEF Smaller
    <3> QED
      BY <3>3, <3>4
  <2> QED
    BY <1>1, <2>2, <2>3
<1>8. Types'
  <2>1. revision' \in Nat
    BY <1>1 DEF UsercmdInv, Types
  <2> QED
    BY <1>1, <1>7, <2>1 DEF UsercmdInv, Types
<1>9. Flags' /\ Owned'
  <2>1. bound' = FALSE
    <3>1. active => UNCHANGED bound
      BY DEF Account
    <3>2. ~active => bound' = FALSE
      BY DEF Account, FailAfter
    <3>3. active => bound = FALSE
      BY <1>1, <1>2 DEF UsercmdInv, Owned, Flags
    <3> QED
      BY <3>1, <3>2, <3>3
  <2> QED
    BY <1>1, <2>1 DEF Flags, Owned
<1>10. Course' /\ Packed'
  BY <1>1, <1>2 DEF Course, Packed, Reasons
<1>11. Covered'
  <2>1. Counted
    BY <1>2 DEF Counted
  <2>2. /\ \A i \in 1 .. Len(wire) : wire[i] = i
        /\ Len(wire) = (next - 1) - (Len(history) - u) + d
    BY <1>1, <2>1 DEF UsercmdInv, Covered, u, d
  <2>3. (next - 1) - (Len(history) - u) + d = (next - 1) - (Len(h) - (u + d)) + 0
    BY <1>2, <1>3, <1>4
  <2>4. Len(wire) = (next - 1) - (Len(h) - Sent(h)) + 0
    BY <1>5, <2>2, <2>3
  <2> QED
    BY <1>1, <2>2, <2>4 DEF Covered
<1>12. Room'
  BY <1>1, <1>7 DEF Room
<1>13. OneShotOnce'
  <2>1. CASE UNCHANGED <<stage, bound, impulse>>
    BY <1>1, <2>1 DEF UsercmdInv, OneShotOnce
  <2>2. CASE FailAfter("network_error", SentEvents)
    BY <2>2 DEF FailAfter, OneShotOnce
  <2> QED
    BY <1>1, <2>1, <2>2
<1> QED
  BY <1>6, <1>7, <1>8, <1>9, <1>10, <1>11, <1>12, <1>13 DEF UsercmdInv

-----------------------------------------------------------------------------
(***************************************************************************)
(* The invariant always holds                                              *)
(***************************************************************************)

LEMMA InvariantHoldsAtFirst == Init => UsercmdInv
<1> SUFFICES ASSUME Init PROVE UsercmdInv
  OBVIOUS
<1> USE DEF Init
<1>1. Types
  BY StageAssumption DEF Types
<1>2. SentUpTo(<<>>, 0)
  BY DEF SentUpTo
<1>3. Sent(<<>>) = 0
  <2>1. <<>> \in Seq(Entry)
    OBVIOUS
  <2> QED
    BY <1>2, <2>1, FirstUnsentIs
<1>4. RunBefore(<<>>, 1)
  BY StageAssumption DEF RunBefore
<1>5. HistoryIsARun
  BY <1>2, <1>3, <1>4 DEF HistoryIsARun
<1>6. Covered
  BY <1>3 DEF Covered
<1>7. Flags /\ Course /\ Owned /\ Packed
  BY DEF Flags, Course, Owned, Packed
<1>8. Room
  BY DEF Room
<1>9. OneShotOnce
  BY DEF OneShotOnce
<1> QED
  BY <1>1, <1>5, <1>6, <1>7, <1>8, <1>9 DEF UsercmdInv

LEMMA StutteringKeeps ==
  ASSUME UsercmdInv, UNCHANGED vars
  PROVE  UsercmdInv'
<1>1. Quiet
  BY DEF vars, UsercmdInv, Types, Quiet, historyVars, eventVars, driverVars
<1> QED
  BY <1>1, QuietKeeps

LEMMA UsercmdAlways == Spec => []UsercmdInv
<1>1. ASSUME UsercmdInv, [Next]_vars PROVE UsercmdInv'
  <2>1. CASE Next
    BY <1>1, <2>1, StepKinds, FailingKeeps, QuietKeeps, NotingKeeps, DrivingKeeps, BatchKeeps,
       QueueKeeps, PrepareKeeps, DropKeeps, BindKeeps, AccountKeeps, ImpulseKeeps, PollKeeps,
       CloseKeeps
  <2>2. CASE UNCHANGED vars
    BY <1>1, <2>2, StutteringKeeps
  <2> QED
    BY <1>1, <2>1, <2>2
<1> QED
  BY <1>1, InvariantHoldsAtFirst, PTL DEF Spec

-----------------------------------------------------------------------------
(***************************************************************************)
(* What it says of commands, packets, events and impulses                  *)
(***************************************************************************)

LEMMA UnsentIdsAre ==
  ASSUME UsercmdInv
  PROVE  UnsentIds = next - Len(history) + Sent(history) .. next - 1
<1> DEFINE u == Sent(history)
           l == Len(history)
<1>1. /\ history \in Seq(Entry) /\ l \in Nat /\ u \in Nat /\ u <= l /\ l <= next - 1 /\ next \in Nat
      /\ \A i \in 1 .. l : history[i].id = next - l + i - 1
      /\ \A i \in 1 .. l : history[i].sent # 0 <=> i <= u
  <2>1. RunBefore(history, next) /\ SentUpTo(history, u)
    BY DEF UsercmdInv, HistoryIsARun
  <2>2. next \in Nat
    BY DEF UsercmdInv, Types
  <2> HIDE DEF u
  <2> QED
    BY <2>1, <2>2 DEF RunBefore, SentUpTo
<1>2. ToSet(history) = {history[i] : i \in 1 .. l}
  <2>1. DOMAIN history = 1 .. l
    BY <1>1
  <2> HIDE DEF l
  <2> QED
    BY <2>1, Zenon DEF ToSet
<1> HIDE DEF u, l
<1>3. ASSUME NEW id \in UnsentIds PROVE id \in next - l + u .. next - 1
  <2>1. PICK entry \in ToSet(history) : IsUnsent(entry) /\ id = entry.id
    BY DEF UnsentIds
  <2>2. PICK i \in 1 .. l : entry = history[i]
    BY <1>2, <2>1
  <2>3. i > u /\ i <= l /\ i \in Int
    BY <1>1, <2>1, <2>2 DEF IsUnsent
  <2>4. id = next - l + i - 1
    BY <1>1, <2>1, <2>2
  <2> QED
    BY <1>1, <2>3, <2>4
<1>4. ASSUME NEW id \in next - l + u .. next - 1 PROVE id \in UnsentIds
  <2> DEFINE i == id - next + l + 1
  <2>1. i \in 1 .. l /\ i > u /\ next - l + i - 1 = id
    BY <1>1
  <2> HIDE DEF i
  <2>2. history[i] \in ToSet(history) /\ history[i].id = id
    BY <1>1, <1>2, <2>1
  <2>3. ~ (i <= u)
    BY <1>1, <2>1
  <2>4. IsUnsent(history[i])
    BY <1>1, <2>1, <2>3 DEF IsUnsent
  <2> QED
    BY <2>2, <2>4 DEF UnsentIds
<1> QED
  BY <1>3, <1>4 DEF u, l

LEMMA CoveredIsAccounted == UsercmdInv => SentIsAccounted
<1> SUFFICES ASSUME UsercmdInv, Outside,
                    stage \in {"running"} \cup (IF config.reference
                                                THEN Reasons \ {"cancelled", "closed"} ELSE {})
             PROVE  LET seen == IF prepared # None /\ receipt THEN ToSet(NewIds(prepared)) ELSE {}
                    IN /\ wire = [i \in 1 .. Len(wire) |-> i]
                       /\ ToSet(wire) = ((1 .. next - 1) \ UnsentIds) \cup seen
  BY DEF SentIsAccounted
<1> DEFINE seen == IF prepared # None /\ receipt THEN ToSet(NewIds(prepared)) ELSE {}
           first == next - Len(history) + Sent(history)
           w == Len(wire)
           d == IF receipt THEN News(prepared) ELSE 0
<1>1. Counted
  BY DEF Counted
<1>2. /\ \A i \in 1 .. w : wire[i] = i
      /\ w = (next - 1) - (Len(history) - Sent(history)) + d
  BY <1>1 DEF UsercmdInv, Covered
<1>3. /\ next \in Nat /\ Len(history) \in Nat /\ Sent(history) \in Nat /\ wire \in Seq(Nat)
      /\ Len(history) <= next - 1 /\ Sent(history) <= Len(history)
  BY DEF UsercmdInv, Types, HistoryIsARun, RunBefore, SentUpTo
<1>4. first \in Nat \ {0} /\ first <= next
  BY <1>3
<1>5. receipt => prepared # None
  BY DEF UsercmdInv, Owned
<1>6. d \in Nat /\ first + d <= next
  <2>1. CASE receipt
    <3>1. News(prepared) \in 1 .. Len(history) - Sent(history)
      BY <1>5, <2>1, NewIdsFollow
    <3> QED
      BY <1>3, <2>1, <3>1
  <2>2. CASE ~receipt
    BY <1>4, <2>2
  <2> QED
    BY <2>1, <2>2
<1>7. seen \in SUBSET Nat /\ \A id \in Nat : id \in seen <=> id \in first .. first + d - 1
  <2>1. CASE receipt
    <3>1. seen = ToSet(NewIds(prepared)) /\ d = News(prepared)
      BY <1>5, <2>1
    <3> QED
      BY <1>5, <2>1, <3>1, NewIdsSet
  <2>2. CASE ~receipt
    BY <1>4, <2>2
  <2> QED
    BY <2>1, <2>2
<1>8. UnsentIds = first .. next - 1
  BY UnsentIdsAre
<1>9. w = first + d - 1 /\ w \in Nat
  <2>1. w = (next - 1) - (Len(history) - Sent(history)) + d
    BY <1>2
  <2> HIDE DEF w, d
  <2>2. w = next - Len(history) + Sent(history) + d - 1
    BY <1>3, <1>6, <2>1
  <2>3. first = next - Len(history) + Sent(history)
    OBVIOUS
  <2> HIDE DEF first
  <2> QED
    BY <1>4, <1>6, <2>2, <2>3
<1>10. DOMAIN wire = 1 .. w /\ wire = [i \in 1 .. w |-> wire[i]]
  BY <1>3
<1> HIDE DEF first, d, seen, w
<1>11. wire = [i \in 1 .. w |-> i]
  BY <1>2, <1>10
<1>12. ToSet(wire) = 1 .. w
  <2>1. ToSet(wire) = {wire[i] : i \in 1 .. w}
    BY <1>10, Zenon DEF ToSet
  <2> QED
    BY <1>2, <2>1
<1>13. 1 .. w = ((1 .. next - 1) \ UnsentIds) \cup seen
  <2>1. ASSUME NEW id \in 1 .. w PROVE id \in ((1 .. next - 1) \ UnsentIds) \cup seen
    BY <1>3, <1>4, <1>6, <1>7, <1>8, <1>9
  <2>2. ASSUME NEW id \in ((1 .. next - 1) \ UnsentIds) \cup seen PROVE id \in 1 .. w
    BY <1>3, <1>4, <1>6, <1>7, <1>8, <1>9
  <2> QED
    BY <2>1, <2>2
<1> QED
  BY <1>11, <1>12, <1>13 DEF seen, w

(* In every state between two calls, of every stage for every setting: the   *)
(* commands that left as new are numbered 1, 2, 3, ... without a gap or a    *)
(* repetition, and they are those that the history counts as sent, but for   *)
(* the ones of a packet whose receipt the stage has not yet seen.           *)
THEOREM CommandsAreAccounted == Spec => []SentIsAccounted
<1> QED
  BY UsercmdAlways, CoveredIsAccounted, PTL

(* A prepared packet can always still be submitted, whatever was sampled,    *)
(* queued or retried since, and the driver owns or has sent exactly the one  *)
(* that the stage holds: commit_prepared_move never fails on its history.   *)
THEOREM PreparedStaysCurrent == Spec => []PreparedIsCurrent
<1>1. UsercmdInv => PreparedIsCurrent
  BY PackedIsSubmittable DEF UsercmdInv, Owned, PreparedIsCurrent
<1> QED
  BY <1>1, UsercmdAlways, PTL

(* What a packet carries, backups and new commands together, is consecutive. *)
THEOREM PacketsAreRuns == Spec => []PacketIsARun
<1>1. UsercmdInv => PacketIsARun
  <2> SUFFICES ASSUME UsercmdInv, prepared # None, NEW i \in 2 .. Len(prepared.ids)
               PROVE  prepared.ids[i] = prepared.ids[i - 1] + 1
    BY DEF PacketIsARun
  <2>1. PICK b \in Nat, len \in Nat : b = prepared.backups /\ len = Len(prepared.ids)
    BY DEF UsercmdInv, Types, Packet
  <2>2. \A j \in 1 .. len : prepared.ids[j] = next - Len(history) + Sent(history) - b + j - 1
    BY <2>1 DEF UsercmdInv, Packed
  <2>3. next \in Nat /\ Len(history) \in Nat /\ Sent(history) \in Nat
    BY DEF UsercmdInv, Types, HistoryIsARun, RunBefore, SentUpTo
  <2>4. i \in 1 .. len /\ i - 1 \in 1 .. len /\ i \in Int
    BY <2>1
  <2>5. /\ prepared.ids[i] = next - Len(history) + Sent(history) - b + i - 1
        /\ prepared.ids[i - 1] = next - Len(history) + Sent(history) - b + (i - 1) - 1
    BY <2>2, <2>4
  <2>6. PICK n, l, m \in Nat : n = next /\ l = Len(history) /\ m = Sent(history)
    BY <2>3
  <2>7. n - l + m - b + i - 1 = (n - l + m - b + (i - 1) - 1) + 1
    <3>1. n \in Nat /\ l \in Nat /\ m \in Nat /\ b \in Nat /\ i \in Int
      BY <2>1, <2>4, <2>6
    <3> QED
      BY ONLY <3>1
  <2> QED
    BY <2>5, <2>6, <2>7
<1> QED
  BY <1>1, UsercmdAlways, PTL

(* The reserve that is taken before a batch and before a packet covers every *)
(* event of the calls that follow: push_event of a running stage drops none. *)
THEOREM NoEventIsLost == Spec => []EventsAreReported
<1>1. UsercmdInv => EventsAreReported
  BY DEF UsercmdInv, Room, EventsAreReported
<1> QED
  BY <1>1, UsercmdAlways, PTL

(* An accepted impulse is pending or was put into exactly one command.       *)
THEOREM ImpulsesAreOneShots == Spec => []OneShotOnce
<1>1. UsercmdInv => OneShotOnce
  BY DEF UsercmdInv
<1> QED
  BY <1>1, UsercmdAlways, PTL
=============================================================================
