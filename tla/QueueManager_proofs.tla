------------------------- MODULE QueueManager_proofs -------------------------
(***************************************************************************)
(* The proofs about QueueManager.  Every operation of QueueManager, Core   *)
(* and JobQueue is a function from a state of the memory to the next; for  *)
(* each there is a lemma that says what it comes to (Result).  At their    *)
(* bottom is orderQueue: the invariant of its loop (LoopInv) says which    *)
(* torrents were counted, and the end of the loop is the order that        *)
(* QueueInOrder asks for.                                                  *)
(***************************************************************************)
EXTENDS QueueManager, FiniteSetTheorems, TLAPS

-----------------------------------------------------------------------------
(* States and what the operations leave alone                               *)

Mem == [tor : [Torrents -> Torrent], downloads : Seq(Torrents), paused : BOOLEAN,
        resume : SUBSET Torrents, manual : BOOLEAN, ordering : BOOLEAN, low : BOOLEAN]

\* The list, the flags and what to resume are the same.
Same(s, u) ==
    /\ u.downloads = s.downloads /\ u.paused = s.paused /\ u.resume = s.resume
    /\ u.manual = s.manual /\ u.ordering = s.ordering /\ u.low = s.low

\* What neither a start nor a stop changes of a torrent.
Steady(x, y) ==
    /\ y.allowed = x.allowed /\ y.done = x.done /\ y.over = x.over
    /\ y.restart = x.restart /\ y.broken = x.broken /\ y.doomed = x.doomed

Others(s, u, t) == \A x \in Torrents \ {t} : u.tor[x] = s.tor[x]

LEMMA LimitNat ==
  ASSUME NEW kind
  PROVE  Limit(kind) \in Nat
  <1>1. Cardinality(Torrents) \in Nat
    BY QueueAssumption, FS_CardinalityType
  <1> QED BY <1>1, QueueAssumption DEF Limit

LEMMA SetTor ==
  ASSUME NEW s \in Mem, NEW t \in Torrents, NEW y \in Torrent
  PROVE  LET u == [s EXCEPT !.tor[t] = y]
         IN  u \in Mem /\ Same(s, u) /\ Others(s, u, t) /\ u.tor[t] = y
  BY DEF Mem, Same, Others

LEMMA StartFacts ==
  ASSUME NEW s \in Mem, NEW t \in Torrents
  PROVE  LET u == StartTorrent(s, t)
             x == s.tor[t]
             y == u.tor[t]
         IN  /\ u \in Mem /\ Same(s, u) /\ Others(s, u, t) /\ Steady(x, y)
             /\ x.run \/ x.job # NoJob => u = s
             /\ ~x.run /\ x.job = NoJob =>
                  IF x.broken THEN ~y.run /\ y.err /\ y.io
                  ELSE y.run /\ ~y.err /\ ~y.io
  <1> DEFINE x == s.tor[t]
             y == [x EXCEPT !.err = x.broken, !.io = x.broken]
             y1 == [y EXCEPT !.run = TRUE, !.job = "prealloc"]
             y2 == [y EXCEPT !.run = TRUE, !.pre = FALSE]
  <1>1. x \in Torrent
    BY DEF Mem
  <1>2. y \in Torrent /\ Steady(x, y) /\ y.run = x.run /\ y.job = x.job
        /\ y.err = x.broken /\ y.io = x.broken
    BY <1>1 DEF Torrent, Steady
  <1>3. y1 \in Torrent /\ Steady(y, y1) /\ y1.run /\ y1.err = y.err /\ y1.io = y.io
    BY <1>2 DEF Torrent, Steady, NoJob
  <1>4. y2 \in Torrent /\ Steady(y, y2) /\ y2.run /\ y2.err = y.err /\ y2.io = y.io
    BY <1>2 DEF Torrent, Steady, NoJob
  <1>5. StartTorrent(s, t) =
          CASE x.run \/ x.job # NoJob -> s
            [] ~x.run /\ x.job = NoJob /\ x.broken -> [s EXCEPT !.tor[t] = y]
            [] OTHER -> IF x.pre /\ ~x.done THEN [s EXCEPT !.tor[t] = y1]
                        ELSE [s EXCEPT !.tor[t] = y2]
    BY DEF StartTorrent
  <1>6. Same(s, s) /\ Others(s, s, t) /\ Steady(x, x) /\ s.tor[t] = x
    BY DEF Same, Others, Steady
  <1>7. Steady(x, y) /\ Steady(x, y1) /\ Steady(x, y2)
    BY <1>2, <1>3, <1>4 DEF Steady
  <1>t. x.run \in BOOLEAN /\ x.broken \in BOOLEAN
    BY <1>1 DEF Torrent
  <1> HIDE DEF x, y, y1, y2
  <1>8. CASE x.run \/ x.job # NoJob
    BY <1>5, <1>6, <1>8 DEF x
  <1>9. CASE ~x.run /\ x.job = NoJob /\ x.broken
    <2> DEFINE u == [s EXCEPT !.tor[t] = y]
    <2>1. StartTorrent(s, t) = u
      BY <1>5, <1>9
    <2>2. u \in Mem /\ Same(s, u) /\ Others(s, u, t) /\ u.tor[t] = y
      BY <1>2, SetTor
    <2> HIDE DEF u
    <2> QED BY <2>1, <2>2, <1>9, <1>2, <1>7, <1>t DEF x
  <1>10. CASE ~x.run /\ x.job = NoJob /\ ~x.broken
    <2> DEFINE z == IF x.pre /\ ~x.done THEN y1 ELSE y2
               u == [s EXCEPT !.tor[t] = z]
    <2>1. StartTorrent(s, t) = u
      BY <1>5, <1>10
    <2>2. z \in Torrent /\ Steady(x, z) /\ z.run /\ ~z.err /\ ~z.io
      BY <1>10, <1>2, <1>3, <1>4, <1>7
    <2> HIDE DEF z
    <2>3. u \in Mem /\ Same(s, u) /\ Others(s, u, t) /\ u.tor[t] = z
      BY <2>2, SetTor
    <2> HIDE DEF u
    <2> QED BY <2>1, <2>2, <2>3, <1>10 DEF x
  <1> QED BY <1>t, <1>8, <1>9, <1>10

LEMMA StopFacts ==
  ASSUME NEW s \in Mem, NEW t \in Torrents
  PROVE  LET u == StopTorrent(s, t)
             x == s.tor[t]
             y == u.tor[t]
         IN  /\ u \in Mem /\ Same(s, u) /\ Others(s, u, t) /\ Steady(x, y)
             /\ ~y.run /\ y.err = x.err /\ y.io = x.io /\ y.job = x.job
  <1> DEFINE x == s.tor[t]
             y == [x EXCEPT !.run = FALSE]
  <1>1. x \in Torrent
    BY DEF Mem
  <1>2. y \in Torrent /\ Steady(x, y) /\ y.err = x.err /\ y.io = x.io /\ ~y.run
        /\ y.job = x.job
    BY <1>1 DEF Torrent, Steady
  <1>3. StopTorrent(s, t) = [s EXCEPT !.tor[t] = y]
    BY DEF StopTorrent, Mem, Torrent
  <1> HIDE DEF y
  <1> QED BY <1>2, <1>3, SetTor

LEMMA AllowFacts ==
  ASSUME NEW s \in Mem, NEW t \in Torrents, NEW on \in BOOLEAN
  PROVE  LET u == Allow(s, t, on)
             x == s.tor[t]
             y == u.tor[t]
         IN  /\ u \in Mem /\ Same(s, u) /\ Others(s, u, t)
             /\ y.allowed = on /\ y.run = x.run /\ y.job = x.job /\ y.io = x.io
             /\ y.done = x.done /\ y.over = x.over /\ y.restart = x.restart
             /\ y.doomed = x.doomed
             /\ y.err = (x.err /\ ~on)
  <1> DEFINE x == s.tor[t]
             y == [x EXCEPT !.allowed = on, !.err = @ /\ ~on]
  <1>1. x \in Torrent
    BY DEF Mem
  <1>2. y \in Torrent /\ y.allowed = on /\ y.run = x.run /\ y.job = x.job /\ y.io = x.io
        /\ y.done = x.done /\ y.over = x.over /\ y.restart = x.restart /\ y.doomed = x.doomed
        /\ y.err = (x.err /\ ~on)
    BY <1>1 DEF Torrent
  <1>3. Allow(s, t, on) = [s EXCEPT !.tor[t] = y]
    BY DEF Allow, Mem, Torrent
  <1> HIDE DEF y
  <1> QED BY <1>2, <1>3, SetTor

-----------------------------------------------------------------------------
(* One round of the loops of orderQueue                                     *)

\* The torrents before place i of the list.
Earlier(s, i) == {s.downloads[j] : j \in 1 .. i - 1}

\* Torrents the round may touch: those of the queue.
InQueue(s, kind, t) == Eligible(s, t) /\ Kind(s, t) = kind

\* What one round does to the torrent t of the queue, when n were counted.
LEMMA OrderOneFacts ==
  ASSUME NEW st \in [s : Mem, n : Nat], NEW t \in Torrents, st.s.tor[t].job = NoJob
  PROVE  LET o == OrderOne(st, t)
             x == st.s.tor[t]
             y == o.s.tor[t]
             lim == Limit(Kind(st.s, t))
         IN  /\ o \in [s : Mem, n : Nat]
             /\ Same(st.s, o.s) /\ Others(st.s, o.s, t) /\ Steady(x, y)
             /\ o.n = st.n \/ (o.n = st.n + 1 /\ (y.run \/ y.io) /\ st.n < lim)
             /\ o.n = st.n => ~y.run /\ (st.n >= lim \/ Refused(st.s, t))
             /\ o.n # st.n => y.run \/ y.err
  <1> DEFINE s == st.s
             x == s.tor[t]
             lim == Limit(Kind(s, t))
             a == StartTorrent(s, t)
             b == StopTorrent(s, t)
  <1>1. s \in Mem /\ st.n \in Nat /\ st = [s |-> s, n |-> st.n]
    OBVIOUS
  <1>2. x \in Torrent /\ x.run \in BOOLEAN
    BY <1>1 DEF Mem, Torrent
  <1>3. lim \in Nat
    BY LimitNat
  <1>4. Same(s, s) /\ Others(s, s, t) /\ Steady(x, x)
    BY DEF Same, Others, Steady
  <1>5. /\ a \in Mem /\ Same(s, a) /\ Others(s, a, t) /\ Steady(x, a.tor[t])
        /\ ~x.run => \/ ~a.tor[t].run /\ a.tor[t].err /\ a.tor[t].io
                     \/ a.tor[t].run
    BY <1>1, StartFacts
  <1>6. b \in Mem /\ Same(s, b) /\ Others(s, b, t) /\ Steady(x, b.tor[t]) /\ ~b.tor[t].run
    BY <1>1, StopFacts
  <1>7. OrderOne(st, t) =
          IF st.n < lim
          THEN [s |-> IF x.run THEN s ELSE IF Refused(s, t) THEN s ELSE a,
                n |-> IF ~x.run /\ Refused(s, t) THEN st.n ELSE st.n + 1]
          ELSE [s |-> IF x.run THEN b ELSE s, n |-> st.n]
    BY DEF OrderOne, StartInternal
  <1> HIDE DEF a, b, lim, s
  <1>8. CASE st.n < lim /\ x.run
    <2>1. OrderOne(st, t) = [s |-> s, n |-> st.n + 1]
      BY <1>7, <1>8
    <2> QED BY <2>1, <1>8, <1>1, <1>4 DEF s, lim
  <1>9. CASE st.n < lim /\ ~x.run /\ Refused(s, t)
    <2>1. OrderOne(st, t) = [s |-> s, n |-> st.n]
      BY <1>7, <1>9
    <2> QED BY <2>1, <1>9, <1>1, <1>4 DEF s, lim
  <1>10. CASE st.n < lim /\ ~x.run /\ ~Refused(s, t)
    <2>1. OrderOne(st, t) = [s |-> a, n |-> st.n + 1]
      BY <1>7, <1>10
    <2> QED BY <2>1, <1>10, <1>1, <1>5 DEF s, lim
  <1>11. CASE ~(st.n < lim) /\ x.run
    <2>1. OrderOne(st, t) = [s |-> b, n |-> st.n]
      BY <1>7, <1>11
    <2> QED BY <2>1, <1>11, <1>1, <1>3, <1>6 DEF s, lim
  <1>12. CASE ~(st.n < lim) /\ ~x.run
    <2>1. OrderOne(st, t) = [s |-> s, n |-> st.n]
      BY <1>7, <1>12
    <2> QED BY <2>1, <1>12, <1>1, <1>3, <1>4 DEF s, lim
  <1> QED BY <1>2, <1>8, <1>9, <1>10, <1>11, <1>12

-----------------------------------------------------------------------------
(* The loops of orderQueue                                                  *)

F == INSTANCE FoldFacts WITH Op <- OrderNext

Pass(s, u, kind) == F!SeqFold(s, kind, [s |-> u, n |-> 0], s.downloads).s

LEMMA OrderQueueIs ==
  ASSUME NEW s
  PROVE  OrderQueue(s) = IF s.ordering \/ s.manual \/ s.paused THEN s
                         ELSE Pass(s, Pass(s, s, "download"), "seed")
  BY DEF OrderQueue, Pass, F!SeqFold, FoldLeft, MapThenFoldSet, Max
\* What k rounds for a kind did to the state u, when the queue was made from s.
Kept(s, u, kind, k, v) ==
    /\ Same(u, v)
    /\ \A t \in Torrents : Steady(u.tor[t], v.tor[t])
    /\ \A t \in Torrents : v.tor[t] # u.tor[t] => t \in Earlier(s, k + 1) /\ InQueue(s, kind, t)

\* C are the torrents that k rounds counted: they run, or their start failed; and of
\* those seen, in the queue, a torrent runs when the limit was not reached before it.
Counted(s, kind, k, C, v) ==
    /\ C \subseteq Earlier(s, k + 1)
    /\ \A t \in C : InQueue(s, kind, t) /\ (v.tor[t].run \/ v.tor[t].io)
    /\ \A i \in 1 .. k : InQueue(s, kind, s.downloads[i]) =>
         LET y == v.tor[s.downloads[i]]
             before == Cardinality(C \cap Earlier(s, i))
         IN  /\ y.run => s.downloads[i] \in C /\ before < Limit(kind)
             /\ ~y.run => \/ y.err
                          \/ Refused(s, s.downloads[i])
                          \/ before >= Limit(kind)

LoopInv(s, u, kind, k) ==
    {st \in [s : Mem, n : Nat] :
        /\ Kept(s, u, kind, k, st.s)
        /\ \E C \in SUBSET Torrents : st.n = Cardinality(C) /\ Counted(s, kind, k, C, st.s)}

LEMMA LoopBody ==
  ASSUME NEW s \in Mem, IsInjective(s.downloads), NEW u \in Mem, Same(s, u),
         \A t \in Torrents : Steady(s.tor[t], u.tor[t]),
         NEW kind, \A t \in Torrents : Kind(s, t) = kind => u.tor[t] = s.tor[t],
         NEW k \in 1 .. Len(s.downloads), NEW st \in LoopInv(s, u, kind, k - 1)
  PROVE  OrderNext(s, kind, s.downloads[k], st) \in LoopInv(s, u, kind, k)
  <1> DEFINE t == s.downloads[k]
             o == OrderOne(st, t)
  <1>1. /\ s.downloads \in Seq(Torrents) /\ DOMAIN s.downloads = 1 .. Len(s.downloads)
        /\ t \in Torrents /\ k \in Nat /\ k - 1 + 1 = k /\ 1 .. k = (1 .. k - 1) \cup {k}
    BY DEF Mem
  <1>2. /\ st \in [s : Mem, n : Nat] /\ Kept(s, u, kind, k - 1, st.s)
    BY DEF LoopInv
  <1>3. PICK C \in SUBSET Torrents : st.n = Cardinality(C) /\ Counted(s, kind, k - 1, C, st.s)
    BY DEF LoopInv
  <1>4. Earlier(s, k + 1) = Earlier(s, k) \cup {t}
    BY <1>1 DEF Earlier
  <1>5. t \notin Earlier(s, k)
    BY <1>1 DEF Earlier, IsInjective
  <1>6. \A i \in 1 .. k : Earlier(s, i) \subseteq Earlier(s, k)
    BY <1>1 DEF Earlier
  <1>7. C \subseteq Earlier(s, k)
    BY <1>1, <1>3 DEF Counted
  <1>c. IsFiniteSet(C) /\ Cardinality(C) \in Nat /\ C \cap Earlier(s, k) = C
    BY <1>7, QueueAssumption, FS_Subset, FS_CardinalityType
  <1>8. CASE ~InQueue(s, kind, t)
    <2>1. OrderNext(s, kind, t, st) = st
      BY <1>8 DEF OrderNext, InQueue
    <2>2. Kept(s, u, kind, k, st.s)
      BY <1>1, <1>2, <1>4 DEF Kept
    <2>3. Counted(s, kind, k, C, st.s)
      BY <1>1, <1>3, <1>4, <1>7, <1>8 DEF Counted
    <2> QED BY <1>2, <1>3, <2>1, <2>2, <2>3 DEF LoopInv
  <1>9. CASE InQueue(s, kind, t)
    <2>1. OrderNext(s, kind, t, st) = o
      BY <1>9 DEF OrderNext, InQueue
    <2>2. u.tor[t] = s.tor[t] /\ st.s.tor[t] = u.tor[t]
      BY <1>1, <1>2, <1>5, <1>9 DEF Kept, InQueue
    <2>3. st.s.tor[t].job = NoJob /\ Kind(st.s, t) = kind
      BY <1>9, <2>2 DEF InQueue, Eligible, Kind
    <2>4. Refused(st.s, t) => Refused(s, t)
      BY <1>2, <2>2 DEF Refused, Kept, Same
    <2>5. /\ o \in [s : Mem, n : Nat]
          /\ Same(st.s, o.s) /\ Others(st.s, o.s, t) /\ Steady(st.s.tor[t], o.s.tor[t])
          /\ \/ o.n = st.n
             \/ o.n = st.n + 1 /\ (o.s.tor[t].run \/ o.s.tor[t].io) /\ st.n < Limit(kind)
          /\ o.n = st.n => ~o.s.tor[t].run /\ (st.n >= Limit(kind) \/ Refused(s, t))
          /\ o.n # st.n => o.s.tor[t].run \/ o.s.tor[t].err
      BY <1>1, <1>2, <2>3, <2>4, OrderOneFacts
    <2> HIDE DEF o
    <2>6. Kept(s, u, kind, k, o.s)
      <3>1. Same(u, o.s)
        BY <1>2, <2>5 DEF Kept, Same
      <3>2. ASSUME NEW x \in Torrents PROVE Steady(u.tor[x], o.s.tor[x])
        <4>1. Steady(u.tor[x], st.s.tor[x])
          BY <1>2 DEF Kept
        <4>2. CASE x = t
          BY <2>5, <4>1, <4>2 DEF Steady
        <4>3. CASE x # t
          BY <2>5, <4>1, <4>3 DEF Others
        <4> QED BY <4>2, <4>3
      <3>3. ASSUME NEW x \in Torrents, o.s.tor[x] # u.tor[x]
            PROVE  x \in Earlier(s, k + 1) /\ InQueue(s, kind, x)
        BY <1>1, <1>2, <1>4, <1>9, <2>5, <3>3 DEF Kept, Others
      <3> QED BY <3>1, <3>2, <3>3 DEF Kept
    <2>7. CASE o.n = st.n
      <3>1. Counted(s, kind, k, C, o.s)
        <4>1. C \subseteq Earlier(s, k + 1)
          BY <1>4, <1>7
        <4>2. ASSUME NEW x \in C
              PROVE  InQueue(s, kind, x) /\ (o.s.tor[x].run \/ o.s.tor[x].io)
          <5>1. x \in Torrents \ {t}
            BY <1>5, <1>7
          <5> QED BY <1>3, <2>5, <5>1 DEF Counted, Others
        <4>3. ASSUME NEW i \in 1 .. k - 1
              PROVE  o.s.tor[s.downloads[i]] = st.s.tor[s.downloads[i]]
          <5>1. s.downloads[i] \in Torrents \ {t}
            BY <1>1 DEF IsInjective
          <5> QED BY <2>5, <5>1 DEF Others
        <4> QED BY <1>1, <1>3, <1>c, <2>5, <2>7, <4>1, <4>2, <4>3 DEF Counted
      <3> QED BY <1>3, <2>1, <2>5, <2>6, <2>7, <3>1 DEF LoopInv
    <2>8. CASE o.n = st.n + 1
      <3> DEFINE D == C \cup {t}
      <3>0. o.n # st.n
        BY <2>8, <1>2
      <3>1. Cardinality(D) = o.n
        <4>1. IsFiniteSet(C) /\ t \notin C /\ Cardinality(C) = st.n
          BY <1>3, <1>5, <1>7, <1>c
        <4>2. Cardinality(D) = Cardinality(C) + 1
          BY ONLY <4>1, FS_AddElement
        <4> QED BY <2>8, <4>1, <4>2
      <3>2. \A i \in 1 .. k : D \cap Earlier(s, i) = C \cap Earlier(s, i)
        BY <1>5, <1>6
      <3>3. Counted(s, kind, k, D, o.s)
        <4>1. D \subseteq Earlier(s, k + 1)
          BY <1>4, <1>7
        <4>2. ASSUME NEW x \in D
              PROVE  InQueue(s, kind, x) /\ (o.s.tor[x].run \/ o.s.tor[x].io)
          <5>1. CASE x = t
            BY <1>9, <2>5, <3>0, <5>1
          <5>2. CASE x # t
            BY <1>3, <2>5, <5>2 DEF Counted, Others
          <5> QED BY <5>1, <5>2
        <4>3. ASSUME NEW i \in 1 .. k - 1
              PROVE  o.s.tor[s.downloads[i]] = st.s.tor[s.downloads[i]]
          <5>1. s.downloads[i] \in Torrents \ {t}
            BY <1>1 DEF IsInjective
          <5> QED BY <2>5, <5>1 DEF Others
        <4>4. \A i \in 1 .. k - 1 : s.downloads[i] \in C => s.downloads[i] \in D
          OBVIOUS
        <4>5. t \in D
          OBVIOUS
        <4> HIDE DEF D
        <4>6. ASSUME NEW i \in 1 .. k, InQueue(s, kind, s.downloads[i])
              PROVE  LET y == o.s.tor[s.downloads[i]]
                         before == Cardinality(D \cap Earlier(s, i))
                     IN  /\ y.run => s.downloads[i] \in D /\ before < Limit(kind)
                         /\ ~y.run => \/ y.err
                                      \/ Refused(s, s.downloads[i])
                                      \/ before >= Limit(kind)
          <5>1. CASE i = k
            BY <1>3, <1>c, <2>5, <3>0, <3>2, <4>5, <5>1
          <5>2. CASE i # k
            BY <1>1, <1>3, <3>2, <4>3, <4>4, <4>6, <5>2 DEF Counted
          <5> QED BY <5>1, <5>2
        <4> QED BY <4>1, <4>2, <4>6 DEF Counted
      <3>4. D \in SUBSET Torrents
        BY <1>1
      <3> HIDE DEF D
      <3> QED BY <2>1, <2>5, <2>6, <3>1, <3>3, <3>4 DEF LoopInv
    <2> QED BY <2>5, <2>7, <2>8
  <1> QED BY <1>8, <1>9

LEMMA PassFacts ==
  ASSUME NEW s \in Mem, IsInjective(s.downloads), NEW u \in Mem, Same(s, u),
         \A t \in Torrents : Steady(s.tor[t], u.tor[t]),
         NEW kind, \A t \in Torrents : Kind(s, t) = kind => u.tor[t] = s.tor[t]
  PROVE  LET v == Pass(s, u, kind)
             n == Len(s.downloads)
         IN  /\ v \in Mem /\ Kept(s, u, kind, n, v)
             /\ \E C \in SUBSET Torrents : Counted(s, kind, n, C, v)
  <1> DEFINE n == Len(s.downloads)
             base == [s |-> u, n |-> 0]
             I == [k \in 0 .. n |-> LoopInv(s, u, kind, k)]
  <1>1. n \in Nat /\ DOMAIN s.downloads = 1 .. n
    BY DEF Mem
  <1>2. base \in I[0]
    <2>1. Kept(s, u, kind, 0, u)
      BY DEF Kept, Same, Steady
    <2>2. Counted(s, kind, 0, {}, u)
      BY DEF Counted
    <2>3. Cardinality({}) = 0
      BY FS_EmptySet
    <2> QED BY <1>1, <2>1, <2>2, <2>3 DEF LoopInv
  <1>3. \A k \in 1 .. n : \A st \in I[k - 1] : OrderNext(s, kind, s.downloads[k], st) \in I[k]
    BY <1>1, LoopBody
  <1>4. F!SeqFold(s, kind, base, s.downloads) \in I[n]
    <2> HIDE DEF I, n, base
    <2> QED BY <1>1, <1>2, <1>3, F!SeqFoldKeeps
  <1>5. F!SeqFold(s, kind, base, s.downloads) \in LoopInv(s, u, kind, n)
    BY <1>1, <1>4
  <1> QED BY <1>5 DEF LoopInv, Pass

-----------------------------------------------------------------------------
(* What orderQueue does                                                     *)

\* QueueInOrder, of a state, without its premise
InOrder(s) ==
    \A t \in Listed(s) : Eligible(s, t) =>
        \/ Refused(s, t)
        \/ LET rivals == {u \in Before(s, t) : Kind(s, u) = Kind(s, t)}
           IN  IF s.tor[t].run
               THEN Cardinality({u \in rivals : s.tor[u].run /\ Eligible(s, u)})
                      < Limit(Kind(s, t))
               ELSE Cardinality({u \in rivals : s.tor[u].run \/ s.tor[u].io})
                      >= Limit(Kind(s, t))

\* The torrents that orderQueue may start or stop are the eligible ones.
Touched(s, u) ==
    \A t \in Torrents : u.tor[t] # s.tor[t] => t \in Listed(s) /\ Eligible(s, t)

LEMMA BeforeIs ==
  ASSUME NEW s \in Mem, IsInjective(s.downloads), NEW i \in 1 .. Len(s.downloads)
  PROVE  Before(s, s.downloads[i]) = Earlier(s, i)
  <1>1. DOMAIN s.downloads = 1 .. Len(s.downloads) /\ Len(s.downloads) \in Nat
    BY DEF Mem
  <1>2. \A k \in DOMAIN s.downloads : s.downloads[k] = s.downloads[i] => k = i
    BY <1>1 DEF IsInjective
  <1>3. {j \in DOMAIN s.downloads :
           \E k \in DOMAIN s.downloads : s.downloads[k] = s.downloads[i] /\ j < k}
        = 1 .. i - 1
    BY <1>1, <1>2
  <1> QED BY <1>3 DEF Before, Earlier

LEMMA ListedIs ==
  ASSUME NEW s \in Mem
  PROVE  /\ Listed(s) = Earlier(s, Len(s.downloads) + 1) /\ Listed(s) \subseteq Torrents
         /\ Listed(s) = {s.downloads[i] : i \in 1 .. Len(s.downloads)}
         /\ Len(s.downloads) \in Nat
  <1>1. DOMAIN s.downloads = 1 .. Len(s.downloads) /\ Len(s.downloads) \in Nat
        /\ \A i \in 1 .. Len(s.downloads) : s.downloads[i] \in Torrents
    BY DEF Mem
  <1>2. 1 .. Len(s.downloads) + 1 - 1 = 1 .. Len(s.downloads)
    BY <1>1
  <1> QED BY <1>1, <1>2 DEF Listed, ToSet, Earlier

LEMMA OrderQueueFacts ==
  ASSUME NEW s \in Mem, IsInjective(s.downloads)
  PROVE  LET u == OrderQueue(s)
         IN  /\ u \in Mem /\ Same(s, u) /\ Touched(s, u)
             /\ \A t \in Torrents : Steady(s.tor[t], u.tor[t])
             /\ ~s.ordering /\ ~s.manual /\ ~s.paused => InOrder(u)
  <1>1. CASE s.ordering \/ s.manual \/ s.paused
    BY <1>1, OrderQueueIs DEF Same, Touched, Steady
  <1>2. CASE ~(s.ordering \/ s.manual \/ s.paused)
    <2> DEFINE n == Len(s.downloads)
               v == Pass(s, s, "download")
               u == Pass(s, v, "seed")
    <2>1. /\ v \in Mem /\ Kept(s, s, "download", n, v)
          /\ \E C \in SUBSET Torrents : Counted(s, "download", n, C, v)
      <3>1. Same(s, s) /\ \A t \in Torrents : Steady(s.tor[t], s.tor[t])
        BY DEF Same, Steady
      <3> QED BY <3>1, PassFacts
    <2>2. /\ Same(s, v) /\ \A t \in Torrents : Steady(s.tor[t], v.tor[t])
          /\ \A t \in Torrents : Kind(s, t) = "seed" => v.tor[t] = s.tor[t]
      BY <2>1 DEF Kept, InQueue
    <2>3. /\ u \in Mem /\ Kept(s, v, "seed", n, u)
          /\ \E C \in SUBSET Torrents : Counted(s, "seed", n, C, u)
      BY <2>1, <2>2, PassFacts
    <2>4. OrderQueue(s) = u
      BY <1>2, OrderQueueIs
    <2> HIDE DEF u, v
    <2>5. \A t \in Torrents : Kind(s, t) = "download" => u.tor[t] = v.tor[t]
      BY <2>3 DEF Kept, InQueue
    <2>6. ASSUME NEW t \in Torrents
          PROVE  /\ Kind(s, t) \in {"seed", "download"}
                 /\ Kind(s, t) = "seed" => Limit("seed") = Limit(Kind(s, t))
      BY DEF Kind
    <2>7. PICK C1 \in SUBSET Torrents : Counted(s, "download", n, C1, v)
      BY <2>1
    <2>8. Counted(s, "download", n, C1, u)
      <3>1. \A t \in C1 : Kind(s, t) = "download" /\ u.tor[t] = v.tor[t]
        BY <2>5, <2>7 DEF Counted, InQueue
      <3>2. \A i \in 1 .. n : /\ s.downloads[i] \in Torrents
                              /\ InQueue(s, "download", s.downloads[i]) =>
                                   u.tor[s.downloads[i]] = v.tor[s.downloads[i]]
        BY <2>5 DEF InQueue, Mem
      <3> QED BY <2>7, <3>1, <3>2 DEF Counted
    <2>9. Same(s, u)
      BY <2>2, <2>3 DEF Kept, Same
    <2>10. \A t \in Torrents : Steady(s.tor[t], u.tor[t])
      BY <2>2, <2>3 DEF Kept, Steady
    <2>11. Touched(s, u)
      BY <2>1, <2>3, ListedIs DEF Kept, Touched, InQueue
    <2>12. ASSUME NEW t \in Torrents
           PROVE  /\ Kind(u, t) = Kind(s, t) /\ Refused(u, t) = Refused(s, t)
                  /\ Eligible(u, t) => Eligible(s, t)
      <3>1. Kind(u, t) = Kind(s, t) /\ Refused(u, t) = Refused(s, t)
        BY <2>9, <2>10 DEF Same, Steady, Kind, Refused
      <3>2. Eligible(u, t) => Eligible(s, t)
        <4>1. u.tor[t] = s.tor[t] => Eligible(u, t) = Eligible(s, t)
          BY DEF Eligible
        <4> QED BY <2>11, <4>1 DEF Touched
      <3> QED BY <3>1, <3>2
    <2>13. InOrder(u)
      <3> SUFFICES ASSUME NEW t \in Listed(u), Eligible(u, t), ~Refused(u, t)
                   PROVE  LET rivals == {x \in Before(u, t) : Kind(u, x) = Kind(u, t)}
                          IN  IF u.tor[t].run
                              THEN Cardinality({x \in rivals : u.tor[x].run /\ Eligible(u, x)})
                                     < Limit(Kind(u, t))
                              ELSE Cardinality({x \in rivals : u.tor[x].run \/ u.tor[x].io})
                                     >= Limit(Kind(u, t))
        BY DEF InOrder
      <3> DEFINE kind == Kind(s, t)
      <3>1. PICK i \in 1 .. n : t = s.downloads[i]
        BY <2>3, <2>9, ListedIs DEF Same
      <3>2. t \in Torrents /\ Eligible(s, t) /\ ~Refused(s, t) /\ Kind(u, t) = kind
            /\ i \in Nat /\ 1 .. i - 1 \subseteq 1 .. n
        BY <2>3, <2>12, <3>1, ListedIs
      <3>3. PICK C \in SUBSET Torrents : Counted(s, kind, n, C, u)
        BY <2>3, <2>6, <2>8, <3>2
      <3>4. Before(u, t) = Earlier(s, i) /\ Earlier(s, i) \subseteq Torrents
        <4>1. u.downloads = s.downloads
          BY <2>9 DEF Same
        <4>2. Before(u, t) = Before(s, t)
          BY <4>1 DEF Before
        <4> QED BY <3>1, <3>2, <4>2, BeforeIs, ListedIs DEF Earlier
      <3> DEFINE rivals == {x \in Before(u, t) : Kind(u, x) = Kind(u, t)}
                 on == {x \in rivals : u.tor[x].run /\ Eligible(u, x)}
                 tried == {x \in rivals : u.tor[x].run \/ u.tor[x].io}
                 before == C \cap Earlier(s, i)
      <3>5. on \subseteq before
        <4> SUFFICES ASSUME NEW x \in on PROVE x \in C
          BY <3>4
        <4>1. x \in Torrents /\ Kind(s, x) = kind /\ Eligible(s, x) /\ u.tor[x].run
          BY <2>12, <3>2, <3>4
        <4>2. PICK j \in 1 .. i - 1 : x = s.downloads[j]
          BY <3>4 DEF Earlier
        <4>3. j \in 1 .. n
          BY <3>2
        <4> HIDE DEF n, kind, on, rivals
        <4> QED BY <3>3, <4>1, <4>2, <4>3 DEF Counted, InQueue
      <3>6. before \subseteq tried
        <4> SUFFICES ASSUME NEW x \in before PROVE x \in tried
          OBVIOUS
        <4>1. Kind(s, x) = kind /\ (u.tor[x].run \/ u.tor[x].io) /\ x \in Torrents
          BY <3>3 DEF Counted, InQueue
        <4>2. Kind(u, x) = Kind(u, t)
          BY <2>12, <3>2, <4>1
        <4>3. x \in Before(u, t)
          BY <3>4
        <4> QED BY <4>1, <4>2, <4>3
      <3>7. /\ u.tor[t].run => Cardinality(before) < Limit(kind)
            /\ ~u.tor[t].run => Cardinality(before) >= Limit(kind)
        <4>1. InQueue(s, kind, t)
          BY <3>2 DEF InQueue
        <4>2. ~u.tor[t].err
          BY DEF Eligible
        <4> HIDE DEF n, kind
        <4> QED BY <3>1, <3>2, <3>3, <4>1, <4>2 DEF Counted
      <3>8. IsFiniteSet(tried) /\ IsFiniteSet(before)
        BY <3>4, QueueAssumption, FS_Subset
      <3>9. /\ Cardinality(on) <= Cardinality(before) /\ Cardinality(before) <= Cardinality(tried)
            /\ Cardinality(on) \in Nat /\ Cardinality(before) \in Nat /\ Cardinality(tried) \in Nat
        <4> HIDE DEF on, tried, before
        <4> QED BY <3>5, <3>6, <3>8, FS_Subset, FS_CardinalityType
      <3>10. Limit(kind) \in Nat
        BY LimitNat
      <3>11. /\ u.tor[t].run => Cardinality(on) < Limit(kind)
             /\ ~u.tor[t].run => Cardinality(tried) >= Limit(kind)
        <4> HIDE DEF on, tried, before, kind
        <4> QED BY <3>7, <3>9, <3>10
      <3> QED BY <3>2, <3>11
    <2> QED BY <2>3, <2>4, <2>9, <2>10, <2>11, <2>13
  <1> QED BY <1>1, <1>2

-----------------------------------------------------------------------------
(* Good states                                                              *)

\* What TypeOK says of the memory, but that no loop of orderQueue is under way
Good(s) ==
    /\ s \in Mem /\ IsInjective(s.downloads) /\ s.resume \subseteq Listed(s)
    /\ \A t \in Torrents \ Listed(s) : s.tor[t] = Fresh

\* QueueInOrder, of a state
Sound(s) ==
    \/ s.paused \/ s.manual \/ (\E t \in Torrents : s.tor[t].run /\ s.tor[t].io)
    \/ InOrder(s)

\* Nothing was started but what may be.
NoneStarted(s, u) ==
    \A t \in Torrents : ~s.tor[t].run /\ u.tor[t].run => u.tor[t].allowed

LEMMA FreshType == Fresh \in Torrent /\ ~Fresh.run /\ ~Fresh.restart /\ ~Fresh.io /\ ~Fresh.over
  BY DEF Fresh, Torrent, NoJob

LEMMA GoodOne ==
  ASSUME NEW s, Good(s), NEW t \in Listed(s),
         NEW u \in Mem, Same(s, u), Others(s, u, t)
  PROVE  Good(u)
  BY DEF Good, Same, Others, Listed

LEMMA OrderQueueGood ==
  ASSUME NEW s, Good(s)
  PROVE  LET u == OrderQueue(s)
         IN  /\ Good(u) /\ Same(s, u) /\ NoneStarted(s, u)
             /\ \A t \in Torrents : Steady(s.tor[t], u.tor[t])
             /\ ~s.ordering => Sound(u)
             /\ \A t \in Torrents : ~Eligible(s, t) => u.tor[t] = s.tor[t]
  <1> DEFINE u == OrderQueue(s)
  <1>1. /\ u \in Mem /\ Same(s, u) /\ Touched(s, u)
        /\ \A t \in Torrents : Steady(s.tor[t], u.tor[t])
        /\ ~s.ordering /\ ~s.manual /\ ~s.paused => InOrder(u)
    BY OrderQueueFacts DEF Good
  <1> HIDE DEF u
  <1>2. Good(u)
    BY <1>1 DEF Good, Same, Touched, Listed
  <1>3. NoneStarted(s, u)
    BY <1>1 DEF NoneStarted, Touched, Eligible, Steady
  <1>4. ~s.ordering => Sound(u)
    BY <1>1 DEF Sound, Same
  <1>5. \A t \in Torrents : ~Eligible(s, t) => u.tor[t] = s.tor[t]
    BY <1>1 DEF Touched
  <1> QED BY <1>1, <1>2, <1>3, <1>4, <1>5 DEF u

LEMMA SoundKept ==
  ASSUME NEW s \in Mem, NEW v \in Mem, Sound(s),
         v.downloads = s.downloads, v.paused = s.paused, v.manual = s.manual,
         \A t \in Torrents : /\ v.tor[t].run = s.tor[t].run /\ v.tor[t].io = s.tor[t].io
                             /\ v.tor[t].done = s.tor[t].done,
         \A t \in Torrents : Eligible(v, t) /\ ~Refused(v, t) =>
            /\ Eligible(s, t) /\ ~Refused(s, t)
            /\ \A x \in Torrents : Kind(s, x) = Kind(s, t) /\ Eligible(v, x) => Eligible(s, x)
  PROVE  Sound(v)
  <1>1. CASE s.paused \/ s.manual \/ \E t \in Torrents : s.tor[t].run /\ s.tor[t].io
    BY <1>1 DEF Sound
  <1>2. CASE InOrder(s)
    <2> SUFFICES ASSUME NEW t \in Listed(v), Eligible(v, t), ~Refused(v, t)
                 PROVE  LET rivals == {x \in Before(v, t) : Kind(v, x) = Kind(v, t)}
                        IN  IF v.tor[t].run
                            THEN Cardinality({x \in rivals : v.tor[x].run /\ Eligible(v, x)})
                                   < Limit(Kind(v, t))
                            ELSE Cardinality({x \in rivals : v.tor[x].run \/ v.tor[x].io})
                                   >= Limit(Kind(v, t))
      BY DEF InOrder, Sound
    <2> DEFINE rivals(w) == {x \in Before(w, t) : Kind(w, x) = Kind(w, t)}
               on(w) == {x \in rivals(w) : w.tor[x].run /\ Eligible(w, x)}
               tried(w) == {x \in rivals(w) : w.tor[x].run \/ w.tor[x].io}
    <2>1. t \in Listed(s) /\ t \in Torrents
      BY ListedIs DEF Listed
    <2>2. Eligible(s, t) /\ ~Refused(s, t)
      BY <2>1
    <2>3. /\ s.tor[t].run => Cardinality(on(s)) < Limit(Kind(s, t))
          /\ ~s.tor[t].run => Cardinality(tried(s)) >= Limit(Kind(s, t))
      BY <1>2, <2>1, <2>2 DEF InOrder
    <2>4. Before(v, t) = Before(s, t) /\ Before(s, t) \subseteq Torrents
      BY DEF Before, Mem
    <2>5. \A x \in Torrents : Kind(v, x) = Kind(s, x)
      BY DEF Kind
    <2>6. rivals(v) = rivals(s)
      BY <2>1, <2>4, <2>5
    <2>7. tried(v) = tried(s)
      BY <2>4, <2>6
    <2>8. on(v) \subseteq on(s)
      BY <2>1, <2>4, <2>6
    <2>9. IsFiniteSet(on(s)) /\ IsFiniteSet(tried(s))
      BY <2>4, QueueAssumption, FS_Subset
    <2>10. Limit(Kind(s, t)) \in Nat
      BY LimitNat
    <2>11. /\ v.tor[t].run => Cardinality(on(v)) < Limit(Kind(v, t))
           /\ ~v.tor[t].run => Cardinality(tried(v)) >= Limit(Kind(v, t))
      <3>1. v.tor[t].run = s.tor[t].run /\ Kind(v, t) = Kind(s, t)
        BY <2>1, <2>5
      <3> HIDE DEF on, tried
      <3>2. /\ Cardinality(on(v)) \in Nat /\ Cardinality(on(s)) \in Nat
            /\ Cardinality(on(v)) <= Cardinality(on(s))
        BY <2>8, <2>9, FS_Subset, FS_CardinalityType
      <3> QED BY <2>3, <2>7, <2>10, <3>1, <3>2
    <2> QED BY <2>11
  <1> QED BY <1>1, <1>2 DEF Sound

-----------------------------------------------------------------------------
(* The operations of QueueManager                                           *)

\* What every operation comes to, from the state s; X are the torrents that it may
\* start in spite of what is allowed.
Result(s, u, X) ==
    /\ Good(u) /\ ~u.ordering /\ Sound(u)
    /\ \A t \in Torrents \ X : ~s.tor[t].run /\ u.tor[t].run /\ ~u.manual => u.tor[t].allowed

\* An operation that ends in orderQueue, from a state in which no more runs
LEMMA Ordered ==
  ASSUME NEW s, NEW X, NEW v, Good(v), ~v.ordering,
         \A t \in Torrents \ X : ~s.tor[t].run /\ v.tor[t].run /\ ~v.manual => v.tor[t].allowed
  PROVE  Result(s, OrderQueue(v), X)
  <1> DEFINE u == OrderQueue(v)
  <1>1. /\ Good(u) /\ Same(v, u) /\ NoneStarted(v, u) /\ Sound(u)
        /\ \A t \in Torrents : Steady(v.tor[t], u.tor[t])
    BY OrderQueueGood
  <1> HIDE DEF u
  <1> QED BY <1>1 DEF Result, NoneStarted, Steady, Same, u

LEMMA StopGood ==
  ASSUME NEW s, Good(s), ~s.ordering, NEW t \in Listed(s)
  PROVE  LET u == Stop(s, t)
         IN  /\ Result(s, u, {}) /\ Same(s, u) /\ NoneStarted(s, u)
             /\ \A x \in Torrents : Steady(s.tor[x], u.tor[x])
             /\ ~s.tor[t].allowed => ~u.tor[t].run
  <1> DEFINE v == StopTorrent(s, t)
             u == OrderQueue(v)
  <1>0. s \in Mem /\ t \in Torrents
    BY ListedIs DEF Good
  <1>1. /\ v \in Mem /\ Same(s, v) /\ Others(s, v, t) /\ Steady(s.tor[t], v.tor[t])
        /\ ~v.tor[t].run
    BY <1>0, StopFacts
  <1> HIDE DEF v
  <1>2. Good(v)
    BY <1>1, GoodOne
  <1>3. \A x \in Torrents : Steady(s.tor[x], v.tor[x]) /\ (v.tor[x].run => s.tor[x].run)
    BY <1>1 DEF Others, Steady
  <1>4. Result(s, u, {})
    BY <1>1, <1>2, <1>3, Ordered DEF Same
  <1>5. /\ Same(v, u) /\ NoneStarted(v, u) /\ \A x \in Torrents : Steady(v.tor[x], u.tor[x])
        /\ \A x \in Torrents : ~Eligible(v, x) => u.tor[x] = v.tor[x]
    BY <1>2, OrderQueueGood
  <1> HIDE DEF u
  <1>6. Same(s, u) /\ NoneStarted(s, u) /\ \A x \in Torrents : Steady(s.tor[x], u.tor[x])
    BY <1>1, <1>3, <1>5 DEF Same, Steady, NoneStarted
  <1>7. ~s.tor[t].allowed => ~u.tor[t].run
    BY <1>0, <1>1, <1>5 DEF Steady, Eligible
  <1> QED BY <1>4, <1>6, <1>7 DEF Stop, u, v

\* What setAllowedToStart leaves alone of every torrent
Unmoved(s, u) ==
    \A x \in Torrents : /\ u.tor[x].run = s.tor[x].run
                       /\ u.tor[x].io = s.tor[x].io
                       /\ u.tor[x].job = s.tor[x].job
                       /\ u.tor[x].done = s.tor[x].done
                       /\ u.tor[x].over = s.tor[x].over
                       /\ u.tor[x].restart = s.tor[x].restart
                       /\ u.tor[x].doomed = s.tor[x].doomed

LEMMA AllowGood ==
  ASSUME NEW s, Good(s), NEW t \in Listed(s), NEW on \in BOOLEAN
  PROVE  LET u == Allow(s, t, on)
         IN  /\ Good(u) /\ Same(s, u) /\ Others(s, u, t)
             /\ u.tor[t].allowed = on /\ Unmoved(s, u)
  <1>0. s \in Mem /\ t \in Torrents
    BY ListedIs DEF Good
  <1> DEFINE u == Allow(s, t, on)
  <1>1. /\ u \in Mem /\ Same(s, u) /\ Others(s, u, t)
        /\ u.tor[t].allowed = on
        /\ LET x == s.tor[t]
               y == u.tor[t]
           IN  /\ y.run = x.run /\ y.job = x.job /\ y.io = x.io
               /\ y.done = x.done /\ y.over = x.over /\ y.restart = x.restart
               /\ y.doomed = x.doomed
    BY <1>0, AllowFacts
  <1> HIDE DEF u
  <1>2. Good(u)
    BY <1>1, GoodOne
  <1> QED BY <1>1, <1>2 DEF Others, Unmoved, u

\* The states in which an operation that is told what to do can be
Start(s) == Good(s) /\ ~s.ordering /\ Sound(s)

\* When a torrent is barred that does not run, the order of the queue remains.
LEMMA BarredSound ==
  ASSUME NEW s, Start(s), NEW t \in Listed(s), ~s.tor[t].run
  PROVE  Sound(Allow(s, t, FALSE))
  <1> DEFINE u == Allow(s, t, FALSE)
  <1>1. /\ Good(u) /\ Same(s, u) /\ Others(s, u, t) /\ ~u.tor[t].allowed /\ Unmoved(s, u)
    BY AllowGood DEF Start
  <1> HIDE DEF u
  <1>2. \A x \in Torrents : Refused(u, x) = Refused(s, x)
    BY <1>1 DEF Refused, Same, Unmoved
  <1>3. \A x \in Torrents : Eligible(u, x) => Eligible(s, x)
    BY <1>1 DEF Others, Eligible
  <1>4. s \in Mem /\ u \in Mem
    BY <1>1 DEF Start, Good
  <1>5. Sound(u)
    BY <1>1, <1>2, <1>3, <1>4, SoundKept DEF Same, Start, Unmoved
  <1> QED BY <1>5 DEF u

\* When a torrent is allowed that cannot be started now, it remains as well.
LEMMA AllowedSound ==
  ASSUME NEW s, Start(s), NEW t \in Listed(s),
         s.tor[t].job # NoJob \/ (~s.tor[t].done /\ s.low /\ ~Forced)
  PROVE  Sound(Allow(s, t, TRUE))
  <1> DEFINE u == Allow(s, t, TRUE)
  <1>0. t \in Torrents
    BY ListedIs DEF Start, Good
  <1>1. Good(u) /\ Same(s, u) /\ Others(s, u, t) /\ Unmoved(s, u)
    BY AllowGood DEF Start
  <1> HIDE DEF u
  <1>2. \A x \in Torrents : Refused(u, x) = Refused(s, x)
    BY <1>1 DEF Refused, Same, Unmoved
  <1>3. \A x \in Torrents \ {t} : Eligible(u, x) = Eligible(s, x)
    BY <1>1 DEF Others, Eligible
  <1>4. s \in Mem /\ u \in Mem
    BY <1>1 DEF Start, Good
  <1>5. ASSUME NEW x \in Torrents, Eligible(u, x), ~Refused(u, x)
        PROVE  /\ Eligible(s, x) /\ ~Refused(s, x)
               /\ \A y \in Torrents : Kind(s, y) = Kind(s, x) /\ Eligible(u, y) => Eligible(s, y)
    <2>1. CASE s.tor[t].job # NoJob
      <3>1. ~Eligible(u, t)
        BY <1>0, <1>1, <2>1 DEF Eligible, Unmoved
      <3> QED BY <1>2, <1>3, <1>5, <3>1
    <2>2. CASE ~s.tor[t].done /\ s.low /\ ~Forced
      <3>1. \A y \in Torrents : Kind(s, y) = Kind(s, t) => Refused(s, y)
        BY <2>2 DEF Kind, Refused
      <3> QED BY <1>0, <1>2, <1>3, <1>5, <3>1
    <2> QED BY <2>1, <2>2
  <1>6. Sound(u)
    BY <1>1, <1>4, <1>5, SoundKept DEF Same, Start, Unmoved
  <1> QED BY <1>6 DEF u

LEMMA ResultSame ==
  ASSUME NEW s, Start(s)
  PROVE  Result(s, s, {})
  BY DEF Start, Result

LEMMA QMStartResult ==
  ASSUME NEW s, Start(s), NEW t \in Listed(s)
  PROVE  Result(s, QMStart(s, t), {}) /\ QMStart(s, t).resume = s.resume
  <1> DEFINE u == Allow(s, t, TRUE)
  <1>0. Good(s) /\ ~s.ordering /\ s \in Mem /\ t \in Torrents
    BY ListedIs DEF Start, Good
  <1>1. CASE s.manual
    <2> DEFINE v == StartTorrent(s, t)
    <2>1. QMStart(s, t) = s \/ QMStart(s, t) = v
      BY <1>1 DEF QMStart, StartInternal
    <2>2. v \in Mem /\ Same(s, v) /\ Others(s, v, t)
      BY <1>0, StartFacts
    <2> HIDE DEF v
    <2>3. Good(v)
      BY <1>0, <2>2, GoodOne
    <2>4. Result(s, v, {})
      BY <1>0, <1>1, <2>2, <2>3 DEF Result, Same, Sound
    <2> QED BY <2>1, <2>2, <2>4, ResultSame DEF Same
  <1>2. CASE ~s.manual
    <2>1. /\ Good(u) /\ Same(s, u) /\ Others(s, u, t)
          /\ u.tor[t].allowed /\ Unmoved(s, u)
      BY <1>0, AllowGood
    <2>2. CASE s.tor[t].job # NoJob \/ (~s.tor[t].done /\ s.low /\ ~Forced)
      <3>1. Sound(u)
        BY <2>2, AllowedSound
      <3>2. QMStart(s, t) = u
        BY <1>2, <2>2 DEF QMStart
      <3> HIDE DEF u
      <3> QED BY <1>0, <2>1, <3>1, <3>2 DEF Result, Same, Unmoved
    <2>3. CASE ~(s.tor[t].job # NoJob \/ (~s.tor[t].done /\ s.low /\ ~Forced))
      <3>2. QMStart(s, t) = OrderQueue(u)
        BY <1>2, <2>3 DEF QMStart
      <3> HIDE DEF u
      <3>3. Result(s, OrderQueue(u), {}) /\ Same(u, OrderQueue(u))
        BY <1>0, <2>1, Ordered, OrderQueueGood DEF Same, Unmoved, Others
      <3> QED BY <2>1, <3>2, <3>3 DEF Same
    <2> QED BY <2>2, <2>3
  <1> QED BY <1>1, <1>2

\* A torrent that was stopped stays so, unless the user has control.
LEMMA QMStopResult ==
  ASSUME NEW s, Start(s), NEW t \in Listed(s)
  PROVE  LET u == QMStop(s, t)
         IN  /\ Result(s, u, {}) /\ Same(s, u)
             /\ \A x \in Torrents : /\ u.tor[x].restart = s.tor[x].restart
                                    /\ u.tor[x].doomed = s.tor[x].doomed
                                    /\ x # t => u.tor[x].allowed = s.tor[x].allowed
  <1> DEFINE v == IF s.manual THEN s ELSE Allow(s, t, FALSE)
  <1>0. Good(s) /\ ~s.ordering /\ Sound(s) /\ s \in Mem /\ t \in Torrents
    BY ListedIs DEF Start, Good
  <1>1. QMStop(s, t) = IF s.tor[t].job # NoJob THEN s ELSE IF s.tor[t].run THEN Stop(v, t) ELSE v
    <2>1. s.tor[t].run \in BOOLEAN
      BY <1>0 DEF Mem, Torrent
    <2> QED BY <2>1 DEF QMStop
  <1>2. Good(v) /\ Same(s, v) /\ Others(s, v, t) /\ Unmoved(s, v)
    <2>1. CASE s.manual
      BY <1>0, <2>1 DEF Same, Others, Unmoved
    <2>2. CASE ~s.manual
      BY <1>0, <2>2, AllowGood
    <2> QED BY <2>1, <2>2
  <1>3. ~s.tor[t].run => Sound(v)
    BY <1>0, BarredSound
  <1> HIDE DEF v
  <1>4. CASE s.tor[t].job # NoJob
    BY <1>1, <1>4, ResultSame DEF Same
  <1>5. CASE s.tor[t].job = NoJob /\ ~s.tor[t].run
    <2>1. QMStop(s, t) = v
      BY <1>1, <1>5
    <2> QED BY <1>0, <1>2, <1>3, <1>5, <2>1 DEF Result, Same, Unmoved, Others
  <1>6. CASE s.tor[t].job = NoJob /\ s.tor[t].run
    <2> DEFINE u == Stop(v, t)
    <2>1. QMStop(s, t) = u
      BY <1>1, <1>6
    <2>2. ~v.ordering /\ t \in Listed(v)
      BY <1>0, <1>2 DEF Same, Listed
    <2>3. /\ Result(v, u, {}) /\ Same(v, u)
          /\ \A x \in Torrents : Steady(v.tor[x], u.tor[x])
      BY <1>2, <2>2, StopGood
    <2> HIDE DEF u
    <2>4. Result(s, u, {}) /\ Same(s, u)
      BY <1>2, <2>3 DEF Result, Same, Unmoved
    <2> QED BY <1>2, <2>1, <2>3, <2>4 DEF Steady, Unmoved, Others
  <1> QED BY <1>4, <1>5, <1>6

-----------------------------------------------------------------------------
(* The operations on many torrents                                          *)

BeginOp(s, b, t, u) == IF s.manual THEN StartTorrent(u, t) ELSE Allow(u, t, TRUE)
AllowOp(a, b, t, u) == Allow(u, t, TRUE)
StopOp(a, b, t, u) == QMStop(u, t)
HaltOp(a, b, t, u) == PauseOne(u, t)
ResumeOp(a, b, t, u) == StartTorrent(u, t)

Begin == INSTANCE FoldFacts WITH Op <- BeginOp
AllowAll == INSTANCE FoldFacts WITH Op <- AllowOp
StopAll == INSTANCE FoldFacts WITH Op <- StopOp
Halt == INSTANCE FoldFacts WITH Op <- HaltOp
Resuming == INSTANCE FoldFacts WITH Op <- ResumeOp

\* The library's notion of a finite set is the instances' too.
LEMMA FiniteIn ==
  ASSUME NEW S, IsFiniteSet(S)
  PROVE  /\ Begin!IsFiniteSet(S) /\ AllowAll!IsFiniteSet(S) /\ StopAll!IsFiniteSet(S)
         /\ Halt!IsFiniteSet(S) /\ Resuming!IsFiniteSet(S)
  BY DEF IsFiniteSet, Begin!IsFiniteSet, AllowAll!IsFiniteSet, StopAll!IsFiniteSet,
         Halt!IsFiniteSet, Resuming!IsFiniteSet

LEMMA ListedFinite ==
  ASSUME NEW s \in Mem, NEW S \in SUBSET Listed(s)
  PROVE  IsFiniteSet(S) /\ S \subseteq Torrents
  BY ListedIs, QueueAssumption, FS_Subset

\* The states in the middle of a loop over torrents of the list: nothing runs that
\* did not before.
Amid(s) ==
    {u \in Mem : Good(u) /\ Same(s, u)
                /\ \A x \in Torrents : u.tor[x].run /\ ~s.manual => s.tor[x].run}

LEMMA AllowAmid ==
  ASSUME NEW s, NEW u \in Amid(s), NEW t \in Listed(s)
  PROVE  Allow(u, t, TRUE) \in Amid(s)
  <1>1. Good(u) /\ t \in Listed(u)
    BY DEF Amid, Same, Listed
  <1> DEFINE v == Allow(u, t, TRUE)
  <1>2. Good(v) /\ Same(u, v) /\ Unmoved(u, v)
    BY <1>1, AllowGood
  <1> HIDE DEF v
  <1>3. v \in Amid(s)
    BY <1>2 DEF Amid, Same, Unmoved, Good
  <1> QED BY <1>3 DEF v

LEMMA StartAmid ==
  ASSUME NEW s, s.manual, NEW u \in Amid(s), NEW t \in Listed(s)
  PROVE  StartTorrent(u, t) \in Amid(s)
  <1>1. Good(u) /\ t \in Listed(u) /\ u \in Mem /\ t \in Torrents
    BY ListedIs DEF Amid, Same, Listed
  <1> DEFINE v == StartTorrent(u, t)
  <1>2. v \in Mem /\ Same(u, v) /\ Others(u, v, t)
    BY <1>1, StartFacts
  <1> HIDE DEF v
  <1>3. Good(v)
    BY <1>1, <1>2, GoodOne
  <1>4. v \in Amid(s)
    BY <1>2, <1>3 DEF Amid, Same
  <1> QED BY <1>4 DEF v

\* What QMStartList resets: the limits of the seeds that are to start.
LEMMA ResetAmid ==
  ASSUME NEW s, Good(s), NEW S \in SUBSET Listed(s)
  PROVE  [s EXCEPT !.tor = [t \in Torrents |->
            [s.tor[t] EXCEPT !.over = @ /\ ~(t \in S /\ s.tor[t].done)]]] \in Amid(s)
  <1> DEFINE y(t) == [s.tor[t] EXCEPT !.over = @ /\ ~(t \in S /\ s.tor[t].done)]
             tor == [t \in Torrents |-> y(t)]
             u == [s EXCEPT !.tor = tor]
  <1>0. s \in Mem
    BY DEF Good
  <1>1. \A t \in Torrents : y(t) \in Torrent /\ y(t).run = s.tor[t].run
    BY ZenonT(30), <1>0 DEF Mem, Torrent
  <1>2. ASSUME NEW t \in Torrents \ Listed(s) PROVE y(t) = Fresh
    <2>1. s.tor[t] = Fresh /\ t \notin S /\ s.tor[t] \in Torrent
      BY <1>0 DEF Good, Mem
    <2>2. s.tor[t].over \in BOOLEAN
      BY <2>1 DEF Torrent
    <2>3. y(t) = s.tor[t]
      BY <2>1, <2>2 DEF Torrent
    <2> QED BY <2>1, <2>3
  <1> HIDE DEF y
  <1>3. u \in Mem /\ Same(s, u) /\ \A t \in Torrents : u.tor[t] = y(t)
    BY <1>0, <1>1 DEF Mem, Same
  <1> HIDE DEF u
  <1>4. Good(u)
    BY <1>2, <1>3 DEF Good, Same, Listed
  <1>5. u \in Amid(s)
    BY <1>1, <1>3, <1>4 DEF Amid
  <1> QED BY <1>5 DEF u, y

LEMMA QMStartListResult ==
  ASSUME NEW s, Start(s), NEW S \in SUBSET Listed(s), NEW yes
  PROVE  Result(s, QMStartList(s, S, yes), {})
  <1> DEFINE spaced == {t \in S : s.tor[t].done \/ ~s.low \/ (Forced /\ t \in yes)}
             todo == {t \in spaced : s.tor[t].done /\ s.tor[t].over => t \in yes}
             reset == [s EXCEPT !.tor = [t \in Torrents |->
                         [s.tor[t] EXCEPT !.over = @ /\ ~(t \in todo /\ s.tor[t].done)]]]
             idle == {t \in todo : ~s.tor[t].run /\ s.tor[t].job = NoJob}
             v == Begin!SetFold(s, s, reset, idle)
  <1>1. QMStartList(s, S, yes) = IF todo = {} THEN s ELSE OrderQueue(v)
    BY DEF QMStartList, FoldSet, MapThenFoldSet, Begin!SetFold, BeginOp
  <1>0. Good(s) /\ s \in Mem
    BY DEF Start, Good
  <1>2. todo \in SUBSET Listed(s) /\ idle \in SUBSET Listed(s)
    OBVIOUS
  <1>3. reset \in Amid(s)
    <2> HIDE DEF todo
    <2> QED BY <1>0, <1>2, ResetAmid
  <1>4. IsFiniteSet(idle)
    BY <1>0, <1>2, ListedFinite
  <1> HIDE DEF todo, idle, reset
  <1>5. \A t \in idle : \A u \in Amid(s) : BeginOp(s, s, t, u) \in Amid(s)
    BY <1>0, <1>2, AllowAmid, StartAmid DEF BeginOp
  <1>6. v \in Amid(s)
    BY <1>3, <1>4, <1>5, Begin!SetFoldIn, FiniteIn
  <1> HIDE DEF v
  <1>7. Result(s, OrderQueue(v), {})
    BY <1>6, Ordered DEF Start, Amid, Same
  <1> QED BY <1>1, <1>7, ResultSame

LEMMA QMStartAllResult ==
  ASSUME NEW s, Start(s), NEW yes
  PROVE  Result(s, QMStartAll(s, yes), {})
  <1> DEFINE v == AllowAll!SetFold(s, s, s, Listed(s))
  <1>1. QMStartAll(s, yes) = IF s.manual THEN QMStartList(s, Listed(s), yes) ELSE OrderQueue(v)
    BY DEF QMStartAll, FoldSet, MapThenFoldSet, AllowAll!SetFold, AllowOp
  <1>2. s \in Amid(s) /\ s \in Mem
    BY DEF Start, Good, Amid, Same
  <1>3. IsFiniteSet(Listed(s))
    BY <1>2, ListedFinite
  <1>4. \A t \in Listed(s) : \A u \in Amid(s) : AllowOp(s, s, t, u) \in Amid(s)
    BY AllowAmid DEF AllowOp
  <1>5. v \in Amid(s)
    BY <1>2, <1>3, <1>4, AllowAll!SetFoldIn, FiniteIn
  <1> HIDE DEF v
  <1>6. Result(s, OrderQueue(v), {})
    BY <1>5, Ordered DEF Start, Amid, Same
  <1> QED BY <1>1, <1>6, QMStartListResult

\* A stop while orderQueue does nothing
LEMMA QMStopAmid ==
  ASSUME NEW s, s.ordering, NEW u \in Amid(s), NEW t \in Listed(s)
  PROVE  QMStop(u, t) \in Amid(s)
  <1>0. Good(u) /\ t \in Listed(u) /\ u \in Mem /\ t \in Torrents /\ u.ordering
    BY ListedIs DEF Amid, Same, Listed
  <1> DEFINE v == IF u.manual THEN u ELSE Allow(u, t, FALSE)
             w == StopTorrent(v, t)
  <1>1. Good(v) /\ Same(u, v) /\ Unmoved(u, v)
    <2>1. CASE u.manual
      BY <1>0, <2>1 DEF Same, Unmoved
    <2>2. CASE ~u.manual
      BY <1>0, <2>2, AllowGood
    <2> QED BY <2>1, <2>2
  <1> HIDE DEF v
  <1>2. v \in Mem /\ v.ordering
    BY <1>0, <1>1 DEF Good, Same
  <1>3. w \in Mem /\ Same(v, w) /\ Others(v, w, t) /\ ~w.tor[t].run
    BY <1>0, <1>2, StopFacts
  <1>4. QMStop(u, t) \in {u, v, w}
    <2>1. Stop(v, t) = w
      BY <1>2, <1>3, OrderQueueIs DEF Stop, Same
    <2>2. u.tor[t].run \in BOOLEAN
      BY <1>0 DEF Mem, Torrent
    <2> QED BY <2>1, <2>2 DEF QMStop, v
  <1> HIDE DEF w
  <1>5. Good(w)
    <2>1. t \in Listed(v)
      BY <1>0, <1>1 DEF Same, Listed
    <2> QED BY <1>1, <1>3, <2>1, GoodOne
  <1>6. v \in Amid(s)
    BY <1>1, <1>2 DEF Amid, Same, Unmoved
  <1>7. w \in Amid(s)
    BY <1>3, <1>5, <1>6 DEF Amid, Same, Others
  <1> QED BY <1>4, <1>6, <1>7

LEMMA QMStopListResult ==
  ASSUME NEW s, Start(s), NEW S \in SUBSET Listed(s)
  PROVE  Result(s, QMStopList(s, S), {})
  <1> DEFINE r == [s EXCEPT !.ordering = TRUE]
             u == StopAll!SetFold(r, r, r, S)
             v == [u EXCEPT !.ordering = FALSE]
  <1>1. QMStopList(s, S) = OrderQueue(v)
    BY DEF QMStopList, FoldSet, MapThenFoldSet, StopAll!SetFold, StopOp
  <1>0. Good(s) /\ s \in Mem
    BY DEF Start, Good
  <1>2. /\ r \in Mem /\ r.ordering /\ r.downloads = s.downloads /\ r.tor = s.tor
        /\ r.resume = s.resume /\ r.manual = s.manual
    BY <1>0 DEF Mem
  <1> HIDE DEF r
  <1>3. r \in Amid(r) /\ Listed(r) = Listed(s)
    BY <1>0, <1>2 DEF Good, Amid, Same, Listed
  <1>4. IsFiniteSet(S)
    BY <1>0, ListedFinite
  <1>5. \A t \in S : \A w \in Amid(r) : StopOp(r, r, t, w) \in Amid(r)
    BY <1>2, <1>3, QMStopAmid DEF StopOp
  <1>6. u \in Amid(r)
    BY <1>3, <1>4, <1>5, StopAll!SetFoldIn, FiniteIn
  <1> HIDE DEF u
  <1>7. Good(u) /\ u \in Mem /\ u.manual = s.manual
        /\ \A x \in Torrents : u.tor[x].run /\ ~s.manual => s.tor[x].run
    BY <1>2, <1>6 DEF Amid, Same
  <1>8. /\ v \in Mem /\ ~v.ordering /\ v.downloads = u.downloads /\ v.tor = u.tor
        /\ v.resume = u.resume /\ v.manual = u.manual
    BY <1>7 DEF Mem
  <1> HIDE DEF v
  <1>9. Good(v)
    BY <1>7, <1>8 DEF Good, Listed
  <1>10. Result(s, OrderQueue(v), {})
    BY <1>7, <1>8, <1>9, Ordered
  <1> QED BY <1>1, <1>10

-----------------------------------------------------------------------------
(* The end of a download, low disk space and the end of a pause              *)

LEMMA FinishedResult ==
  ASSUME NEW s, Good(s), ~s.ordering, NEW t \in Listed(s)
  PROVE  Result(s, Finished(s, t), {})
  <1> DEFINE u == Stop(s, t)
             v == IF s.manual THEN u ELSE Allow(u, t, FALSE)
             w == Stop(v, t)
  <1>0. s \in Mem /\ t \in Torrents
    BY ListedIs DEF Good
  <1>1. Result(s, OrderQueue(s), {})
    BY Ordered
  <1>2. /\ Result(s, u, {}) /\ Same(s, u) /\ NoneStarted(s, u)
    BY StopGood
  <1> HIDE DEF u
  <1>3. Good(u) /\ ~u.ordering /\ t \in Listed(u)
    BY <1>2 DEF Result, Same, Listed
  <1>4. /\ Good(v) /\ Same(u, v) /\ Others(u, v, t) /\ Unmoved(u, v)
        /\ ~s.manual => ~v.tor[t].allowed
    <2>1. CASE s.manual
      BY <1>3, <2>1 DEF Same, Others, Unmoved
    <2>2. CASE ~s.manual
      BY <1>3, <2>2, AllowGood
    <2> QED BY <2>1, <2>2
  <1> HIDE DEF v
  <1>5. ~v.ordering /\ t \in Listed(v)
    BY <1>3, <1>4 DEF Same, Listed
  <1>6. /\ Result(v, w, {}) /\ Same(v, w) /\ NoneStarted(v, w)
        /\ \A x \in Torrents : Steady(v.tor[x], w.tor[x])
        /\ ~v.tor[t].allowed => ~w.tor[t].run
    BY <1>4, <1>5, StopGood
  <1> HIDE DEF w
  <1>7. ASSUME NEW x \in Torrents, ~s.tor[x].run, w.tor[x].run, ~w.manual
        PROVE  w.tor[x].allowed
    <2>1. CASE ~v.tor[x].run
      BY <1>6, <1>7, <2>1 DEF NoneStarted
    <2>2. CASE v.tor[x].run
      <3>1. ~s.manual
        BY <1>2, <1>4, <1>6, <1>7 DEF Same
      <3>2. x # t
        BY <1>4, <1>6, <1>7, <3>1
      <3>3. u.tor[x].allowed
        BY <1>2, <1>4, <1>7, <2>2 DEF NoneStarted, Unmoved
      <3> QED BY <1>4, <1>6, <3>2, <3>3 DEF Others, Steady
    <2> QED BY <2>1, <2>2
  <1>8. Result(s, OrderQueue(w), {})
    <2>1. Good(w) /\ ~w.ordering
      BY <1>6 DEF Result
    <2> QED BY <1>7, <2>1, Ordered
  <1> QED BY <1>1, <1>8 DEF Finished, u, v, w

LEMMA LowDiskSpaceResult ==
  ASSUME NEW s, Good(s), ~s.ordering, NEW t \in Listed(s), s.tor[t].run
  PROVE  Result(s, LowDiskSpace(s, t), {})
  <1> DEFINE u == Stop(s, t)
             v == Allow(u, t, FALSE)
  <1>1. /\ Result(s, u, {}) /\ Same(s, u) /\ NoneStarted(s, u)
    BY StopGood
  <1>2. LowDiskSpace(s, t) = IF s.manual THEN u ELSE OrderQueue(v)
    BY DEF LowDiskSpace
  <1> HIDE DEF u
  <1>3. Good(u) /\ ~u.ordering /\ t \in Listed(u)
    BY <1>1 DEF Result, Same, Listed
  <1>4. Good(v) /\ Same(u, v) /\ Others(u, v, t) /\ Unmoved(u, v)
    BY <1>3, AllowGood
  <1> HIDE DEF v
  <1>5. \A x \in Torrents : ~s.tor[x].run /\ v.tor[x].run => v.tor[x].allowed
    BY <1>1, <1>4 DEF NoneStarted, Unmoved, Others
  <1>6. Result(s, OrderQueue(v), {})
    BY <1>3, <1>4, <1>5, Ordered DEF Same
  <1> QED BY <1>1, <1>2, <1>6

LEMMA ResumeResult ==
  ASSUME NEW s, Good(s), ~s.ordering
  PROVE  Result(s, Resume(s), s.resume)
  <1> DEFINE v == [s EXCEPT !.paused = FALSE]
             u == Resuming!SetFold(s, s, v, s.resume)
             w == [u EXCEPT !.resume = {}]
             A == {x \in Mem : /\ Good(x) /\ Same(v, x)
                              /\ \A t \in Torrents \ s.resume : x.tor[t] = s.tor[t]}
  <1>0. s \in Mem /\ s.resume \subseteq Listed(s)
    BY DEF Good
  <1>1. Resume(s) = OrderQueue(w)
    BY DEF Resume, FoldSet, MapThenFoldSet, Resuming!SetFold, ResumeOp
  <1>2. /\ v \in Mem /\ ~v.ordering /\ v.downloads = s.downloads
        /\ v.tor = s.tor /\ v.resume = s.resume
    BY <1>0 DEF Mem
  <1> HIDE DEF v
  <1>3. v \in A
    BY <1>2 DEF Good, Same, Listed
  <1>4. IsFiniteSet(s.resume)
    BY <1>0, ListedFinite
  <1>5. ASSUME NEW t \in s.resume, NEW x \in A
        PROVE  ResumeOp(s, s, t, x) \in A
    <2>0. x \in Mem /\ Good(x) /\ Same(v, x) /\ t \in Listed(x) /\ t \in Torrents
      BY <1>0, <1>2, ListedIs DEF Same, Listed
    <2> DEFINE y == StartTorrent(x, t)
    <2>1. y \in Mem /\ Same(x, y) /\ Others(x, y, t)
      BY <2>0, StartFacts
    <2> HIDE DEF y
    <2>2. Good(y)
      BY <2>0, <2>1, GoodOne
    <2>3. Same(v, y)
      BY <2>0, <2>1 DEF Same
    <2>4. y \in A
      BY <2>1, <2>2, <2>3 DEF Others
    <2> QED BY <2>4 DEF ResumeOp, y
  <1>6. u \in A
    <2> HIDE DEF A
    <2> QED BY <1>3, <1>4, <1>5, Resuming!SetFoldIn, FiniteIn
  <1> HIDE DEF u
  <1>7. u \in Mem /\ Good(u) /\ ~u.ordering
        /\ \A t \in Torrents \ s.resume : u.tor[t] = s.tor[t]
    BY <1>2, <1>6 DEF Same
  <1>8. w \in Mem /\ ~w.ordering /\ w.downloads = u.downloads /\ w.tor = u.tor /\ w.resume = {}
    BY <1>7 DEF Mem
  <1> HIDE DEF w
  <1>9. Good(w)
    BY <1>7, <1>8 DEF Good, Listed
  <1>10. Result(s, OrderQueue(w), s.resume)
    BY <1>7, <1>8, <1>9, Ordered
  <1> QED BY <1>1, <1>10

-----------------------------------------------------------------------------
(* Changes of the list                                                      *)

WithoutOp(S, b, t, q) == IF t \in S THEN q ELSE Append(q, t)
Filter == INSTANCE FoldFacts WITH Op <- WithoutOp

\* The sequences without repetition of the torrents of S
Orders(S) == {q \in Seq(Torrents) : IsInjective(q) /\ ToSet(q) = S}

LEMMA AppendOrder ==
  ASSUME NEW S, NEW q \in Orders(S), NEW t \in Torrents \ S
  PROVE  Append(q, t) \in Orders(S \cup {t})
  <1> DEFINE r == Append(q, t)
             n == Len(q)
  <1>1. q \in Seq(Torrents) /\ IsInjective(q) /\ ToSet(q) = S
    BY DEF Orders
  <1>2. n \in Nat /\ DOMAIN q = 1 .. n
    BY <1>1
  <1>3. r \in Seq(Torrents) /\ Len(r) = n + 1 /\ DOMAIN r = 1 .. n + 1
    BY <1>1, <1>2
  <1>4. r[n + 1] = t /\ \A i \in 1 .. n : r[i] = q[i]
    BY <1>1, <1>2
  <1>5. \A i \in 1 .. n : q[i] \in S
    BY <1>1, <1>2 DEF ToSet
  <1> HIDE DEF r, n
  <1>6. 1 .. n + 1 = (1 .. n) \cup {n + 1}
    BY <1>2
  <1>7. IsInjective(r)
    BY <1>1, <1>2, <1>3, <1>4, <1>5, <1>6 DEF IsInjective
  <1>8. ToSet(r) = S \cup {t}
    <2>1. ToSet(q) = {q[i] : i \in 1 .. n}
      BY <1>2 DEF ToSet
    <2>2. ToSet(r) = {r[i] : i \in (1 .. n) \cup {n + 1}}
      BY <1>3, <1>6 DEF ToSet
    <2> QED BY <1>1, <1>4, <2>1, <2>2
  <1> QED BY <1>3, <1>7, <1>8 DEF Orders, r

\* What removeAll leaves of a list
LEMMA WithoutFacts ==
  ASSUME NEW q \in Seq(Torrents), IsInjective(q), NEW S
  PROVE  Without(q, S) \in Orders(ToSet(q) \ S)
  <1> DEFINE n == Len(q)
             first(k) == {q[i] : i \in 1 .. k}
             I == [k \in 0 .. n |-> Orders(first(k) \ S)]
  <1>1. n \in Nat /\ DOMAIN q = 1 .. n
    OBVIOUS
  <1>2. <<>> \in I[0]
    <2>1. first(0) \ S = {}
      OBVIOUS
    <2>2. <<>> \in Orders({})
      BY DEF Orders, IsInjective, ToSet
    <2>3. I[0] = Orders(first(0) \ S)
      <3> HIDE DEF first
      <3> QED BY <1>1
    <2> HIDE DEF first, I
    <2> QED BY <2>1, <2>2, <2>3
  <1>3. ASSUME NEW k \in 1 .. n, NEW r \in I[k - 1]
        PROVE  WithoutOp(S, S, q[k], r) \in I[k]
    <2>1. first(k) = first(k - 1) \cup {q[k]}
      <3>1. 1 .. k = (1 .. k - 1) \cup {k}
        OBVIOUS
      <3> QED BY <3>1
    <2>2. q[k] \in Torrents \ first(k - 1)
      BY <1>1 DEF IsInjective
    <2>3. r \in Orders(first(k - 1) \ S)
      BY <1>1
    <2> HIDE DEF first
    <2>4. CASE q[k] \in S
      <3>1. first(k) \ S = first(k - 1) \ S
        BY <2>1, <2>4
      <3> QED BY <2>3, <2>4, <3>1 DEF WithoutOp
    <2>5. CASE q[k] \notin S
      <3>1. first(k) \ S = (first(k - 1) \ S) \cup {q[k]}
        BY <2>1, <2>5
      <3>2. Append(r, q[k]) \in Orders(first(k) \ S)
        BY <2>2, <2>3, <3>1, AppendOrder
      <3> QED BY <2>5, <3>2 DEF WithoutOp
    <2> QED BY <2>4, <2>5
  <1>4. Filter!SeqFold(S, S, <<>>, q) \in I[n]
    <2> HIDE DEF I, n
    <2> QED BY <1>1, <1>2, <1>3, Filter!SeqFoldKeeps
  <1>5. Without(q, S) = Filter!SeqFold(S, S, <<>>, q)
    BY DEF Without, Filter!SeqFold, FoldLeft, MapThenFoldSet, Max, WithoutOp
  <1>6. first(n) = ToSet(q)
    BY <1>1 DEF ToSet
  <1> HIDE DEF first
  <1> QED BY <1>1, <1>4, <1>5, <1>6

LEMMA JoinedOrder ==
  ASSUME NEW S, NEW T, NEW p \in Orders(S), NEW q \in Orders(T), S \cap T = {}
  PROVE  p \o q \in Orders(S \cup T)
  <1> DEFINE r == p \o q
             n == Len(p)
             l == Len(q)
  <1>1. /\ p \in Seq(Torrents) /\ IsInjective(p) /\ ToSet(p) = S
        /\ q \in Seq(Torrents) /\ IsInjective(q) /\ ToSet(q) = T
    BY DEF Orders
  <1>2. n \in Nat /\ DOMAIN p = 1 .. n /\ l \in Nat /\ DOMAIN q = 1 .. l
    BY <1>1
  <1>3. r \in Seq(Torrents) /\ DOMAIN r = 1 .. n + l
    BY <1>1, <1>2
  <1>4. /\ \A i \in 1 .. n : r[i] = p[i]
        /\ \A i \in 1 .. n + l : ~(i <= n) => r[i] = q[i - n] /\ i - n \in 1 .. l
    BY <1>1, <1>2
  <1>5. /\ \A i \in 1 .. n : p[i] \in S
        /\ \A i \in 1 .. l : q[i] \in T
    BY <1>1, <1>2 DEF ToSet
  <1> HIDE DEF r, n, l
  <1>6. IsInjective(r)
    <2> SUFFICES ASSUME NEW i \in 1 .. n + l, NEW j \in 1 .. n + l, r[i] = r[j] PROVE i = j
      BY <1>3 DEF IsInjective
    <2>1. CASE i <= n /\ j <= n
      BY <1>1, <1>2, <1>4, <2>1 DEF IsInjective
    <2>2. CASE ~(i <= n) /\ ~(j <= n)
      <3>1. i - n = j - n
        BY <1>1, <1>2, <1>4, <2>2 DEF IsInjective
      <3> QED BY <1>2, <3>1
    <2>3. CASE i <= n /\ ~(j <= n)
      <3>1. i \in 1 .. n
        BY <1>2, <2>3
      <3> QED BY <1>4, <1>5, <2>3, <3>1
    <2>4. CASE ~(i <= n) /\ j <= n
      <3>1. j \in 1 .. n
        BY <1>2, <2>4
      <3> QED BY <1>4, <1>5, <2>4, <3>1
    <2> QED BY <2>1, <2>2, <2>3, <2>4
  <1>7. ToSet(r) = S \cup T
    <2>1. ASSUME NEW x \in ToSet(r) PROVE x \in S \cup T
      <3>1. PICK i \in 1 .. n + l : x = r[i]
        BY <1>3 DEF ToSet
      <3>2. CASE i <= n
        <4>1. i \in 1 .. n
          BY <1>2, <3>2
        <4> QED BY <1>4, <1>5, <3>1, <4>1
      <3>3. CASE ~(i <= n)
        BY <1>4, <1>5, <3>1, <3>3
      <3> QED BY <3>2, <3>3
    <2>2. ASSUME NEW x \in S PROVE x \in ToSet(r)
      <3>1. PICK i \in 1 .. n : x = p[i]
        BY <1>1, <1>2 DEF ToSet
      <3>2. i \in 1 .. n + l
        BY <1>2
      <3> QED BY <1>3, <1>4, <3>1, <3>2 DEF ToSet
    <2>3. ASSUME NEW x \in T PROVE x \in ToSet(r)
      <3>1. PICK i \in 1 .. l : x = q[i]
        BY <1>1, <1>2 DEF ToSet
      <3>2. i + n \in 1 .. n + l /\ ~(i + n <= n) /\ i + n - n = i
        BY <1>2
      <3>3. r[i + n] = q[i]
        <4> DEFINE k == i + n
        <4>1. k \in 1 .. n + l /\ ~(k <= n) /\ k - n = i
          BY <1>2
        <4> HIDE DEF k
        <4>2. r[k] = q[i]
          BY <1>4, <4>1
        <4> QED BY <4>2 DEF k
      <3> QED BY <1>3, <3>1, <3>2, <3>3 DEF ToSet
    <2> QED BY <2>1, <2>2, <2>3
  <1> QED BY <1>3, <1>6, <1>7 DEF Orders, r

\* A new order of the same torrents
LEMMA ReorderedResult ==
  ASSUME NEW s, Good(s), ~s.ordering, NEW order \in Orders(Listed(s))
  PROVE  Result(s, OrderQueue([s EXCEPT !.downloads = order]), {})
  <1> DEFINE v == [s EXCEPT !.downloads = order]
  <1>1. /\ v \in Mem /\ v.downloads = order /\ v.tor = s.tor /\ v.resume = s.resume
        /\ ~v.ordering /\ v.manual = s.manual
    BY DEF Good, Mem, Orders
  <1> HIDE DEF v
  <1>2. Good(v)
    BY <1>1 DEF Good, Listed, Orders
  <1>3. Result(s, OrderQueue(v), {})
    BY <1>1, <1>2, Ordered
  <1> QED BY <1>3 DEF v

LEMMA StalledResult ==
  ASSUME NEW s, Start(s), NEW S
  PROVE  Result(s, Stalled(s, S), {})
  <1> DEFINE others == Without(s.downloads, S)
             stalled == Without(s.downloads, Torrents \ S)
  <1>0. s \in Mem /\ IsInjective(s.downloads) /\ s.downloads \in Seq(Torrents)
    BY DEF Start, Good, Mem
  <1>1. others \in Orders(Listed(s) \ S) /\ stalled \in Orders(Listed(s) \ (Torrents \ S))
    BY <1>0, WithoutFacts DEF Listed
  <1>2. Listed(s) \subseteq Torrents
    BY <1>0, ListedIs
  <1> HIDE DEF others, stalled
  <1>3. /\ (Listed(s) \ S) \cap (Listed(s) \ (Torrents \ S)) = {}
        /\ (Listed(s) \ S) \cup (Listed(s) \ (Torrents \ S)) = Listed(s)
    BY <1>2
  <1>4. others \o stalled \in Orders(Listed(s))
    BY <1>1, <1>3, JoinedOrder
  <1>5. Result(s, OrderQueue([s EXCEPT !.downloads = others \o stalled]), {})
    BY <1>4, ReorderedResult DEF Start
  <1> QED BY <1>5, ResultSame DEF Stalled, others, stalled

-----------------------------------------------------------------------------
(* The operations of Core and of the JobQueue                               *)

\* A change of one torrent of the list
LEMMA EditGood ==
  ASSUME NEW s, Good(s), NEW t \in Listed(s), NEW y \in Torrent
  PROVE  LET v == [s EXCEPT !.tor[t] = y]
         IN  Good(v) /\ Same(s, v) /\ Others(s, v, t) /\ v.tor[t] = y
  <1> DEFINE v == [s EXCEPT !.tor[t] = y]
  <1>1. s \in Mem /\ t \in Torrents
    BY ListedIs DEF Good
  <1>2. v \in Mem /\ Same(s, v) /\ Others(s, v, t) /\ v.tor[t] = y
    BY <1>1, SetTor
  <1> HIDE DEF v
  <1>3. Good(v)
    BY <1>2, GoodOne
  <1> QED BY <1>2, <1>3 DEF v

\* A change of one torrent that is no matter to the order of the queue
LEMMA EditSound ==
  ASSUME NEW s, Start(s), NEW t \in Listed(s), NEW v, Good(v), Same(s, v), Others(s, v, t),
         v.tor[t].run = s.tor[t].run, v.tor[t].io = s.tor[t].io, v.tor[t].done = s.tor[t].done,
         v.tor[t].over = s.tor[t].over,
         Eligible(v, t) => Eligible(s, t)
  PROVE  Result(s, v, Torrents) /\ Start(v)
  <1>1. s \in Mem /\ v \in Mem /\ t \in Torrents
    BY ListedIs DEF Start, Good
  <1>2. \A x \in Torrents : Eligible(v, x) => Eligible(s, x)
    BY DEF Others, Eligible
  <1>3. \A x \in Torrents : Refused(v, x) = Refused(s, x)
    BY DEF Others, Refused, Same
  <1>4. \A x \in Torrents : /\ v.tor[x].run = s.tor[x].run /\ v.tor[x].io = s.tor[x].io
                           /\ v.tor[x].done = s.tor[x].done
    BY DEF Others
  <1>5. Sound(v)
    BY <1>1, <1>2, <1>3, <1>4, SoundKept DEF Start, Same
  <1>6. ~v.ordering
    BY DEF Start, Same
  <1> QED BY <1>5, <1>6 DEF Result, Start

LEMMA CoreRemoveResult ==
  ASSUME NEW s, Start(s), NEW t \in Listed(s)
  PROVE  LET u == CoreRemove(s, t)
         IN  /\ Result(s, u, {})
             /\ \A x \in Torrents : u.tor[x].run => u.tor[x].allowed = s.tor[x].allowed
             /\ u.manual = s.manual /\ u.paused = s.paused
  <1>0. Good(s) /\ ~s.ordering /\ s \in Mem /\ t \in Torrents
    BY ListedIs DEF Start, Good
  <1>1. CASE s.tor[t].job # NoJob
    <2> DEFINE y == [s.tor[t] EXCEPT !.doomed = TRUE]
               v == [s EXCEPT !.tor[t] = y]
    <2>1. y \in Torrent /\ y.run = s.tor[t].run /\ y.io = s.tor[t].io /\ y.done = s.tor[t].done
          /\ y.over = s.tor[t].over /\ y.allowed = s.tor[t].allowed /\ y.job = s.tor[t].job
      BY <1>0 DEF Mem, Torrent
    <2>2. CoreRemove(s, t) = v
      BY <1>0, <1>1 DEF CoreRemove, Mem, Torrent
    <2> HIDE DEF y
    <2>3. Good(v) /\ Same(s, v) /\ Others(s, v, t) /\ v.tor[t] = y
      BY <1>0, <2>1, EditGood
    <2> HIDE DEF v
    <2>4. ~Eligible(v, t)
      BY <1>1, <2>1, <2>3 DEF Eligible
    <2>5. Result(s, v, Torrents)
      BY <2>1, <2>3, <2>4, EditSound
    <2>6. \A x \in Torrents : v.tor[x].run = s.tor[x].run /\ v.tor[x].allowed = s.tor[x].allowed
      BY <2>1, <2>3 DEF Others
    <2> QED BY <2>2, <2>3, <2>5, <2>6 DEF Result, Same
  <1>2. CASE s.tor[t].job = NoJob
    <2> DEFINE u == QMStop(s, t)
               v == [u EXCEPT !.downloads = Without(@, {t}), !.resume = @ \ {t}, !.tor[t] = Fresh]
               w == OrderQueue(v)
    <2>1. CoreRemove(s, t) = w
      BY <1>2 DEF CoreRemove
    <2>2. /\ Result(s, u, {}) /\ Same(s, u)
          /\ \A x \in Torrents : x # t => u.tor[x].allowed = s.tor[x].allowed
      BY QMStopResult
    <2> HIDE DEF u
    <2>3. Good(u) /\ u \in Mem /\ IsInjective(u.downloads) /\ u.downloads \in Seq(Torrents)
          /\ ~u.ordering /\ u.resume \subseteq Torrents
      BY <2>2 DEF Result, Good, Mem
    <2>4. Without(u.downloads, {t}) \in Orders(Listed(u) \ {t})
      BY <2>3, WithoutFacts DEF Listed
    <2>5. /\ v \in Mem /\ v.downloads = Without(u.downloads, {t}) /\ v.resume = u.resume \ {t}
          /\ v.tor[t] = Fresh /\ Others(u, v, t) /\ ~v.ordering /\ v.manual = u.manual
          /\ v.paused = u.paused
      BY <1>0, <2>3, <2>4, FreshType DEF Mem, Orders, Others
    <2> HIDE DEF v
    <2>6. Listed(v) = Listed(u) \ {t} /\ IsInjective(v.downloads)
      BY <2>4, <2>5 DEF Listed, Orders
    <2>7. Good(v)
      BY <2>3, <2>5, <2>6 DEF Good, Others
    <2>8. \A x \in Torrents : ~s.tor[x].run /\ v.tor[x].run /\ ~v.manual => v.tor[x].allowed
      BY <2>2, <2>5, FreshType DEF Result, Others
    <2>9. Result(s, w, {})
      BY <2>5, <2>7, <2>8, Ordered
    <2>10. /\ Same(v, w) /\ \A x \in Torrents : Steady(v.tor[x], w.tor[x])
           /\ \A x \in Torrents : ~Eligible(v, x) => w.tor[x] = v.tor[x]
      BY <2>7, OrderQueueGood
    <2> HIDE DEF w
    <2>11. ~w.tor[t].run
      BY <1>0, <2>5, <2>10, FreshType DEF Eligible, Fresh
    <2>12. \A x \in Torrents : w.tor[x].run => w.tor[x].allowed = s.tor[x].allowed
      BY <2>2, <2>5, <2>10, <2>11 DEF Others, Steady
    <2> QED BY <2>1, <2>2, <2>5, <2>9, <2>10, <2>12 DEF Same
  <1> QED BY <1>1, <1>2

LEMMA AddedResult ==
  ASSUME NEW s, Start(s), NEW t \in Torrents \ Listed(s),
         NEW start \in BOOLEAN, NEW existing \in BOOLEAN
  PROVE  Result(s, Added(s, t, start, existing), {})
  <1> DEFINE y == [Fresh EXCEPT !.pre = TRUE, !.job = IF existing THEN "check" ELSE NoJob]
             u == [s EXCEPT !.downloads = Append(@, t), !.tor[t] = y]
             v == Allow(u, t, start)
  <1>0. Good(s) /\ ~s.ordering /\ s \in Mem
    BY DEF Start, Good
  <1>1. Added(s, t, start, existing) =
          IF s.manual THEN (IF start THEN QMStart(u, t) ELSE u) ELSE OrderQueue(v)
    BY DEF Added
  <1>2. y \in Torrent /\ ~y.run
    BY FreshType DEF Torrent, NoJob
  <1>3. s.downloads \in Orders(Listed(s))
    BY <1>0 DEF Good, Mem, Orders, Listed
  <1>4. Append(s.downloads, t) \in Orders(Listed(s) \cup {t})
    BY <1>3, AppendOrder
  <1> HIDE DEF y
  <1>5. /\ u \in Mem /\ u.downloads = Append(s.downloads, t) /\ u.tor[t] = y
        /\ Others(s, u, t) /\ u.resume = s.resume /\ u.manual = s.manual /\ ~u.ordering
    BY <1>0, <1>2, <1>4 DEF Mem, Orders, Others
  <1> HIDE DEF u
  <1>6. Listed(u) = Listed(s) \cup {t} /\ IsInjective(u.downloads)
    BY <1>4, <1>5 DEF Listed, Orders
  <1>7. Good(u)
    BY <1>0, <1>5, <1>6 DEF Good, Others
  <1>8. \A x \in Torrents : u.tor[x].run => s.tor[x].run
    BY <1>2, <1>5 DEF Others
  <1>9. CASE s.manual
    <2>1. Result(s, u, {}) /\ Start(u)
      BY <1>5, <1>7, <1>9 DEF Result, Start, Sound
    <2>2. Result(u, QMStart(u, t), {})
      BY <1>6, <2>1, QMStartResult
    <2>3. Result(s, QMStart(u, t), {})
      BY <1>8, <2>2, <1>5, <1>9 DEF Result
    <2> QED BY <1>1, <1>9, <2>1, <2>3
  <1>10. CASE ~s.manual
    <2>1. Good(v) /\ Same(u, v) /\ Unmoved(u, v)
      BY <1>6, <1>7, AllowGood
    <2> HIDE DEF v
    <2>2. Result(s, OrderQueue(v), {})
      BY <1>5, <1>8, <2>1, Ordered DEF Same, Unmoved
    <2> QED BY <1>1, <1>10, <2>2
  <1> QED BY <1>9, <1>10

LEMMA EnqueueResult ==
  ASSUME NEW s, Start(s), NEW t \in Listed(s)
  PROVE  Result(s, Enqueue(s, t), {})
  <1> DEFINE y == [s.tor[t] EXCEPT !.job = "check"]
             u == [s EXCEPT !.tor[t] = y]
             v == Stop(u, t)
             z == [v.tor[t] EXCEPT !.restart = TRUE]
             w == [v EXCEPT !.tor[t] = z]
  <1>0. Good(s) /\ ~s.ordering /\ s \in Mem /\ t \in Torrents
    BY ListedIs DEF Start, Good
  <1>1. y \in Torrent /\ y.run = s.tor[t].run /\ y.io = s.tor[t].io /\ y.done = s.tor[t].done
        /\ y.over = s.tor[t].over /\ y.allowed = s.tor[t].allowed /\ y.job # NoJob
    BY <1>0 DEF Mem, Torrent, NoJob
  <1>2. u = [s EXCEPT !.tor[t].job = "check"]
    BY <1>0 DEF Mem, Torrent
  <1> HIDE DEF y
  <1>3. Good(u) /\ Same(s, u) /\ Others(s, u, t) /\ u.tor[t] = y
    BY <1>0, <1>1, EditGood
  <1> HIDE DEF u
  <1>4. t \in Listed(u) /\ ~u.ordering /\ \A x \in Torrents : u.tor[x].run = s.tor[x].run
    BY <1>0, <1>1, <1>3 DEF Same, Listed, Others
  <1>5. CASE ~s.tor[t].run
    <2>1. Enqueue(s, t) = u
      BY <1>2, <1>5 DEF Enqueue
    <2>2. ~Eligible(u, t)
      BY <1>1, <1>3 DEF Eligible
    <2>3. Result(s, u, Torrents)
      BY <1>1, <1>3, <2>2, EditSound
    <2> QED BY <1>4, <2>1, <2>3 DEF Result
  <1>6. CASE s.tor[t].run
    <2>1. /\ Result(u, v, {}) /\ Same(u, v)
      BY <1>3, <1>4, StopGood
    <2>2. Enqueue(s, t) = [v EXCEPT !.tor[t].restart = TRUE]
      BY <1>2, <1>6 DEF Enqueue
    <2> HIDE DEF v
    <2>3. Start(v) /\ t \in Listed(v) /\ v \in Mem
      BY <1>4, <2>1 DEF Result, Start, Same, Listed, Good
    <2>a. v.tor[t] \in Torrent
      BY <1>0, <2>3 DEF Mem
    <2>4. z \in Torrent /\ z.run = v.tor[t].run /\ z.io = v.tor[t].io /\ z.done = v.tor[t].done
          /\ z.over = v.tor[t].over /\ z.allowed = v.tor[t].allowed /\ z.err = v.tor[t].err
          /\ z.job = v.tor[t].job
      BY <2>a DEF Torrent
    <2>5. Enqueue(s, t) = w
      BY <1>0, <2>2, <2>3 DEF Mem, Torrent
    <2> HIDE DEF z
    <2>6. Good(w) /\ Same(v, w) /\ Others(v, w, t) /\ w.tor[t] = z
      BY <2>3, <2>4, EditGood DEF Start
    <2> HIDE DEF w
    <2>7. Eligible(w, t) => Eligible(v, t)
      BY <2>4, <2>6 DEF Eligible
    <2>8. Result(v, w, Torrents)
      BY <2>3, <2>4, <2>6, <2>7, EditSound
    <2>9. \A x \in Torrents : w.tor[x].run = v.tor[x].run /\ w.tor[x].allowed = v.tor[x].allowed
      BY <2>4, <2>6 DEF Others
    <2>10. Result(s, w, {})
      BY <1>4, <2>1, <2>6, <2>8, <2>9 DEF Result, Same
    <2> QED BY <2>5, <2>10
  <1> QED BY <1>5, <1>6

\* A job's end starts again what the job had stopped, and what may run.
LEMMA JobDoneResult ==
  ASSUME NEW s, Good(s), ~s.ordering, NEW t \in Listed(s)
  PROVE  LET u == JobDone(s, t)
         IN  /\ Result(s, u, {x \in {t} : s.tor[x].restart})
             /\ \A x \in Torrents : u.tor[x].run => u.tor[x].allowed = s.tor[x].allowed
             /\ u.manual = s.manual /\ u.paused = s.paused
  <1> DEFINE X == {x \in {t} : s.tor[x].restart}
             y == [s.tor[t] EXCEPT !.job = NoJob]
             u == [s EXCEPT !.tor[t] = y]
             r == IF s.tor[t].restart THEN StartTorrent(u, t) ELSE u
             v == OrderQueue(r)
             z == [v.tor[t] EXCEPT !.restart = FALSE]
             w == [v EXCEPT !.tor[t] = z]
  <1>0. s \in Mem /\ t \in Torrents
    BY ListedIs DEF Good
  <1>1. y \in Torrent /\ y.run = s.tor[t].run /\ y.allowed = s.tor[t].allowed
    BY <1>0 DEF Mem, Torrent, NoJob
  <1>2. u = [s EXCEPT !.tor[t].job = NoJob]
    BY <1>0 DEF Mem, Torrent
  <1> HIDE DEF y
  <1>3. Good(u) /\ Same(s, u) /\ Others(s, u, t) /\ u.tor[t] = y
    BY <1>1, EditGood
  <1> HIDE DEF u
  <1>4. /\ Good(r) /\ Same(s, r) /\ \A x \in Torrents \ X : r.tor[x].run => s.tor[x].run
        /\ \A x \in Torrents : r.tor[x].allowed = s.tor[x].allowed
    <2>1. CASE s.tor[t].restart
      <3> DEFINE a == StartTorrent(u, t)
      <3>1. u \in Mem /\ t \in Listed(u)
        BY <1>3 DEF Good, Same, Listed
      <3>2. a \in Mem /\ Same(u, a) /\ Others(u, a, t) /\ a.tor[t].allowed = u.tor[t].allowed
        BY <1>0, <3>1, StartFacts DEF Steady
      <3> HIDE DEF a
      <3>3. Good(a)
        BY <1>3, <3>1, <3>2, GoodOne
      <3>4. r = a
        BY <2>1 DEF a
      <3> HIDE DEF r
      <3>5. \A x \in Torrents : r.tor[x].allowed = s.tor[x].allowed
        BY <1>1, <1>3, <3>2, <3>4 DEF Others
      <3>6. \A x \in Torrents \ X : r.tor[x].run => s.tor[x].run
        BY <1>0, <1>3, <2>1, <3>2, <3>4 DEF Others
      <3> QED BY <1>3, <3>2, <3>3, <3>4, <3>5, <3>6 DEF Same
    <2>2. CASE ~s.tor[t].restart
      <3>1. r = u
        BY <2>2
      <3> HIDE DEF r
      <3> QED BY <1>1, <1>3, <3>1 DEF Same, Others
    <2> QED BY <2>1, <2>2
  <1>5. JobDone(s, t) = LET n == [v EXCEPT !.tor[t].restart = FALSE]
                        IN  IF s.tor[t].doomed THEN CoreRemove(n, t) ELSE n
    BY <1>2 DEF JobDone
  <1> HIDE DEF r
  <1>6. /\ Result(s, v, X) /\ Same(r, v)
        /\ \A x \in Torrents : v.tor[x].allowed = s.tor[x].allowed
    <2> HIDE DEF X
    <2>1. Same(r, v) /\ \A x \in Torrents : Steady(r.tor[x], v.tor[x])
      BY <1>4, OrderQueueGood
    <2>2. Result(s, v, X)
      BY <1>4, Ordered DEF Same
    <2> QED BY <1>4, <2>1, <2>2 DEF Steady
  <1> HIDE DEF v, X
  <1>7. Start(v) /\ t \in Listed(v) /\ v \in Mem
    BY <1>4, <1>6 DEF Result, Start, Same, Listed, Good
  <1>a. v.tor[t] \in Torrent
    BY <1>0, <1>7 DEF Mem
  <1>8. z \in Torrent /\ z.run = v.tor[t].run /\ z.io = v.tor[t].io /\ z.done = v.tor[t].done
        /\ z.over = v.tor[t].over /\ z.allowed = v.tor[t].allowed /\ z.err = v.tor[t].err
        /\ z.job = v.tor[t].job
    BY <1>a DEF Torrent
  <1>9. [v EXCEPT !.tor[t].restart = FALSE] = w
    BY <1>0, <1>7 DEF Mem, Torrent
  <1> HIDE DEF z
  <1>10. Good(w) /\ Same(v, w) /\ Others(v, w, t) /\ w.tor[t] = z
    BY <1>7, <1>8, EditGood DEF Start
  <1> HIDE DEF w
  <1>11. Eligible(w, t) => Eligible(v, t)
    BY <1>8, <1>10 DEF Eligible
  <1>12. Result(v, w, Torrents) /\ Start(w)
    BY <1>7, <1>8, <1>10, <1>11, EditSound
  <1>13. \A x \in Torrents : w.tor[x].run = v.tor[x].run /\ w.tor[x].allowed = v.tor[x].allowed
    BY <1>8, <1>10 DEF Others
  <1>14. Result(s, w, X)
    BY <1>6, <1>10, <1>12, <1>13 DEF Result, Same
  <1>e. /\ \A x \in Torrents : w.tor[x].allowed = s.tor[x].allowed
        /\ w.manual = s.manual /\ w.paused = s.paused
    BY <1>4, <1>6, <1>10, <1>13 DEF Same
  <1>15. CASE ~s.tor[t].doomed
    BY <1>5, <1>9, <1>14, <1>15, <1>e DEF X
  <1>16. CASE s.tor[t].doomed
    <2> DEFINE c == CoreRemove(w, t)
    <2>1. JobDone(s, t) = c
      BY <1>5, <1>9, <1>16
    <2>2. t \in Listed(w)
      BY <1>7, <1>10 DEF Same, Listed
    <2>3. /\ Result(w, c, {})
          /\ \A x \in Torrents : c.tor[x].run => c.tor[x].allowed = w.tor[x].allowed
          /\ c.manual = w.manual /\ c.paused = w.paused
      BY <1>12, <2>2, CoreRemoveResult
    <2> HIDE DEF c
    <2>4. Result(s, c, X)
      BY <1>14, <2>3 DEF Result
    <2> QED BY <1>e, <2>1, <2>3, <2>4 DEF X
  <1> QED BY <1>15, <1>16

\* The states in the middle of a pause that began in s
Pausing(s) ==
    {u \in Mem : /\ Good(u) /\ u.paused /\ ~u.ordering /\ u.manual = s.manual
                 /\ \A x \in Torrents :
                      ~s.tor[x].run /\ u.tor[x].run /\ ~u.manual => u.tor[x].allowed}

\* The stop of a torrent that was removed already does nothing.
LEMMA StopPausing ==
  ASSUME NEW s, NEW u \in Pausing(s), NEW t \in Torrents
  PROVE  StopTorrent(u, t) \in Pausing(s)
  <1> DEFINE x == StopTorrent(u, t)
  <1>1. u \in Mem /\ Good(u) /\ u.paused /\ ~u.ordering /\ u.manual = s.manual
    BY DEF Pausing
  <1>2. x \in Mem /\ Same(u, x) /\ Others(u, x, t) /\ ~x.tor[t].run
    BY <1>1, StopFacts
  <1>3. CASE t \in Listed(u)
    <2> HIDE DEF x
    <2>1. Good(x)
      BY <1>1, <1>2, <1>3, GoodOne
    <2>2. x \in Pausing(s)
      BY <1>1, <1>2, <2>1 DEF Pausing, Same, Others
    <2> QED BY <2>2 DEF x
  <1>4. CASE t \notin Listed(u)
    <2> DEFINE y == [u.tor[t] EXCEPT !.run = FALSE]
               z == [u EXCEPT !.tor[t] = y]
    <2>1. u.tor[t] \in Torrent /\ ~u.tor[t].run /\ u.tor[t] = Fresh
      BY <1>1, <1>4, FreshType DEF Good
    <2>2. y = u.tor[t]
      BY <2>1 DEF Torrent
    <2>3. x = z
      BY <1>1 DEF StopTorrent, Mem, Torrent
    <2>4. y \in Torrent
      BY <2>1, <2>2
    <2> HIDE DEF y
    <2>5. x.tor[t] = u.tor[t]
      BY <1>1, <2>2, <2>3, <2>4, SetTor
    <2> HIDE DEF x
    <2>6. Good(x)
      BY <1>1, <1>2, <2>5 DEF Good, Same, Others, Listed
    <2>7. x \in Pausing(s)
      BY <1>1, <1>2, <2>6 DEF Pausing, Same, Others
    <2> QED BY <2>7 DEF x
  <1> QED BY <1>3, <1>4

LEMMA PauseResult ==
  ASSUME NEW s, Good(s), ~s.ordering
  PROVE  Result(s, Pause(s), {})
  <1> DEFINE running == {t \in Listed(s) : s.tor[t].run}
             v == [s EXCEPT !.paused = TRUE, !.resume = @ \cup running]
             u == Halt!SetFold(s, s, v, running)
  <1>0. s \in Mem
    BY DEF Good
  <1>1. Pause(s) = u
    BY DEF Pause, FoldSet, MapThenFoldSet, Halt!SetFold, HaltOp
  <1>2. /\ v \in Mem /\ v.paused /\ ~v.ordering /\ v.downloads = s.downloads
        /\ v.tor = s.tor /\ v.resume = s.resume \cup running /\ v.manual = s.manual
    BY <1>0, ListedIs DEF Mem
  <1> HIDE DEF v
  <1>3. v \in Pausing(s)
    BY <1>2 DEF Good, Pausing, Listed
  <1>4. IsFiniteSet(running)
    BY <1>0, ListedFinite
  <1>5. ASSUME NEW t \in running, NEW w \in Pausing(s)
        PROVE  HaltOp(s, s, t, w) \in Pausing(s)
    <2>0. t \in Torrents /\ s.tor[t].run /\ w \in Mem /\ Good(w)
      BY <1>0, ListedIs DEF Pausing
    <2>1. CASE w.tor[t].job # "prealloc"
      <3>1. HaltOp(s, s, t, w) = StopTorrent(w, t)
        BY <2>1 DEF HaltOp, PauseOne
      <3> QED BY <2>0, <3>1, StopPausing
    <2>2. CASE w.tor[t].job = "prealloc"
      <3> DEFINE j == JobDone(w, t)
      <3>1. HaltOp(s, s, t, w) = StopTorrent(j, t)
        BY <2>2 DEF HaltOp, PauseOne
      <3>2. t \in Listed(w)
        BY <2>0, <2>2 DEF Good, Fresh, NoJob
      <3>3. /\ Result(w, j, {x \in {t} : w.tor[x].restart})
            /\ \A x \in Torrents : j.tor[x].run => j.tor[x].allowed = w.tor[x].allowed
            /\ j.manual = w.manual /\ j.paused = w.paused
        BY <2>0, <3>2, JobDoneResult DEF Pausing
      <3> HIDE DEF j
      <3>4. ASSUME NEW x \in Torrents, ~s.tor[x].run, j.tor[x].run, ~j.manual
            PROVE  j.tor[x].allowed
        <4>1. x # t
          BY <2>0, <3>4
        <4>2. CASE w.tor[x].run
          BY <3>3, <3>4, <4>2 DEF Pausing
        <4>3. CASE ~w.tor[x].run
          BY <3>3, <3>4, <4>1, <4>3 DEF Result
        <4> QED BY <4>2, <4>3
      <3>5. j \in Pausing(s)
        BY <3>3, <3>4 DEF Pausing, Result, Good
      <3> QED BY <2>0, <3>1, <3>5, StopPausing
    <2> QED BY <2>1, <2>2
  <1>6. u \in Pausing(s)
    <2> HIDE DEF running
    <2> QED BY <1>3, <1>4, <1>5, Halt!SetFoldIn, FiniteIn
  <1> HIDE DEF u
  <1>7. Result(s, u, {})
    BY <1>6 DEF Pausing, Result, Sound
  <1> QED BY <1>1, <1>7

LEMMA CheckDoneResult ==
  ASSUME NEW s, Start(s), NEW t \in Listed(s), NEW done \in BOOLEAN
  PROVE  Result(s, CheckDone(s, t, done), {x \in Torrents : s.tor[x].restart})
  <1> DEFINE y == [s.tor[t] EXCEPT !.done = done]
             u == [s EXCEPT !.tor[t] = y]
  <1>0. s \in Mem /\ t \in Torrents /\ Good(s) /\ ~s.ordering
    BY ListedIs DEF Start, Good
  <1>1. y \in Torrent /\ y.run = s.tor[t].run /\ y.restart = s.tor[t].restart
    BY <1>0 DEF Mem, Torrent
  <1>2. u = [s EXCEPT !.tor[t].done = done]
    BY <1>0 DEF Mem, Torrent
  <1> HIDE DEF y
  <1>3. Good(u) /\ Same(s, u) /\ Others(s, u, t) /\ u.tor[t] = y
    BY <1>0, <1>1, EditGood
  <1>4. CheckDone(s, t, done) = JobDone(u, t)
    BY <1>2 DEF CheckDone
  <1> HIDE DEF u
  <1>5. t \in Listed(u) /\ ~u.ordering
    BY <1>0, <1>3 DEF Same, Listed
  <1>6. Result(u, JobDone(u, t), {x \in {t} : u.tor[x].restart})
    BY <1>3, <1>5, JobDoneResult
  <1>7. \A x \in Torrents : u.tor[x].run = s.tor[x].run /\ u.tor[x].restart = s.tor[x].restart
    BY <1>1, <1>3 DEF Others
  <1> QED BY <1>0, <1>4, <1>6, <1>7 DEF Result

LEMMA PreallocDoneResult ==
  ASSUME NEW s, Start(s), NEW t \in Listed(s), NEW ok \in BOOLEAN
  PROVE  Result(s, PreallocDone(s, t, ok), {x \in Torrents : s.tor[x].restart})
  <1> DEFINE y == IF ok THEN [s.tor[t] EXCEPT !.pre = FALSE]
                  ELSE [s.tor[t] EXCEPT !.err = TRUE, !.io = TRUE]
             u == [s EXCEPT !.tor[t] = y]
  <1>0. s \in Mem /\ t \in Torrents /\ Good(s) /\ ~s.ordering
    BY ListedIs DEF Start, Good
  <1>1. y \in Torrent /\ y.run = s.tor[t].run /\ y.restart = s.tor[t].restart
    <2>1. s.tor[t] \in Torrent
      BY <1>0 DEF Mem
    <2>2. CASE ok
      BY <2>1, <2>2 DEF Torrent
    <2>3. CASE ~ok
      BY <2>1, <2>3 DEF Torrent
    <2> QED BY <2>2, <2>3
  <1>2. u = IF ok THEN [s EXCEPT !.tor[t].pre = FALSE]
            ELSE [s EXCEPT !.tor[t].err = TRUE, !.tor[t].io = TRUE]
    BY <1>0 DEF Mem, Torrent
  <1> HIDE DEF y
  <1>3. Good(u) /\ Same(s, u) /\ Others(s, u, t) /\ u.tor[t] = y
    BY <1>0, <1>1, EditGood
  <1>4. PreallocDone(s, t, ok) = JobDone(u, t)
    BY <1>2 DEF PreallocDone
  <1> HIDE DEF u
  <1>5. t \in Listed(u) /\ ~u.ordering
    BY <1>0, <1>3 DEF Same, Listed
  <1>6. Result(u, JobDone(u, t), {x \in {t} : u.tor[x].restart})
    BY <1>3, <1>5, JobDoneResult
  <1>7. \A x \in Torrents : u.tor[x].run = s.tor[x].run /\ u.tor[x].restart = s.tor[x].restart
    BY <1>1, <1>3 DEF Others
  <1> QED BY <1>0, <1>4, <1>6, <1>7 DEF Result

-----------------------------------------------------------------------------
(* The specification                                                        *)

LEMMA SetToSeqsOrders ==
  ASSUME NEW S \in SUBSET Torrents, NEW order \in SetToSeqs(S)
  PROVE  order \in Orders(S)
  <1> DEFINE n == Cardinality(S)
  <1>1. IsFiniteSet(S) /\ n \in Nat
    BY QueueAssumption, FS_Subset, FS_CardinalityType
  <1>2. order \in [1 .. n -> S] /\ \A i, j \in 1 .. n : i # j => order[i] # order[j]
    BY DEF SetToSeqs
  <1> HIDE DEF n
  <1>3. IsInjective(order)
    BY <1>2 DEF IsInjective
  <1>4. Cardinality(1 .. n) = n
    BY <1>1, FS_Interval
  <1>5. order \in Surjection(1 .. n, S)
    <2>1. order \in Injection(1 .. n, S)
      BY <1>2, <1>3 DEF Injection
    <2> QED BY <1>1, <1>4, <2>1, FS_Injection DEF n
  <1>6. ToSet(order) = S
    BY <1>2, <1>5 DEF ToSet, Surjection
  <1>7. order \in Seq(Torrents)
    BY <1>1, <1>2
  <1> QED BY <1>3, <1>6, <1>7 DEF Orders

LEMMA LoadedGood ==
  ASSUME NEW s \in Loaded
  PROVE  Good(s) /\ ~s.ordering
  <1>1. PICK L \in {Torrents, {}} :
          s \in {LoadedFrom(L, D, order) : D \in SUBSET L, order \in SetToSeqs(L)}
    BY DEF Loaded
  <1>2. PICK D \in SUBSET L, order \in SetToSeqs(L) : s = LoadedFrom(L, D, order)
    BY <1>1
  <1> DEFINE y(t) == [Fresh EXCEPT !.allowed = TRUE, !.done = (t \in D), !.pre = (t \notin D)]
             tor == [t \in Torrents |-> IF t \in L THEN y(t) ELSE Fresh]
  <1>a. \A done, pre \in BOOLEAN :
          [Fresh EXCEPT !.allowed = TRUE, !.done = done, !.pre = pre] \in Torrent
    BY FreshType DEF Torrent
  <1>3. ASSUME NEW t PROVE y(t) \in Torrent
    <2> DEFINE done == t \in D
               pre == t \notin D
    <2>1. done \in BOOLEAN /\ pre \in BOOLEAN
      OBVIOUS
    <2> HIDE DEF done, pre
    <2>2. [Fresh EXCEPT !.allowed = TRUE, !.done = done, !.pre = pre] \in Torrent
      BY <1>a, <2>1
    <2> QED BY <2>2 DEF done, pre
  <1> HIDE DEF y
  <1>4. tor \in [Torrents -> Torrent] /\ \A t \in Torrents \ L : tor[t] = Fresh
    BY <1>3, FreshType
  <1>5. s = [tor |-> tor, downloads |-> order, paused |-> FALSE, resume |-> {},
             manual |-> FALSE, ordering |-> FALSE, low |-> FALSE]
    BY <1>2 DEF y, LoadedFrom
  <1> HIDE DEF tor
  <1>6. order \in Orders(L)
    BY SetToSeqsOrders
  <1>7. /\ s \in Mem /\ s.downloads = order /\ s.tor = tor /\ s.resume = {} /\ ~s.ordering
    BY <1>4, <1>5, <1>6 DEF Mem, Orders
  <1> QED BY <1>4, <1>6, <1>7 DEF Good, Listed, Orders

\* The inductive invariant: between two steps no loop of orderQueue is under way, the
\* memory is good, and the queue is in order.
IInv == Start(m) /\ events \in 0 .. MaxEvents

LEMMA InitInv == Init => IInv
  <1> SUFFICES ASSUME Init PROVE IInv
    OBVIOUS
  <1>1. PICK s \in Loaded : m = OrderQueue(s)
    BY DEF Init
  <1>2. Good(s) /\ ~s.ordering
    BY LoadedGood
  <1>3. Good(m) /\ Same(s, m) /\ Sound(m)
    BY <1>1, <1>2, OrderQueueGood
  <1>4. events \in 0 .. MaxEvents
    BY QueueAssumption DEF Init
  <1> QED BY <1>2, <1>3, <1>4 DEF IInv, Start, Same

\* Torrents that a step may start in spite of what is allowed
Excused == {t \in Torrents : t \in m.resume \/ m.tor[t].restart}

LEMMA TorrentStep ==
  ASSUME IInv, NEW t \in Torrents,
         \/ UserStarts(t) \/ UserStops(t) \/ UserAdds(t) \/ UserRemoves(t) \/ UserChecks(t)
         \/ Finishes(t) \/ WantsMore(t) \/ ReachesLimit(t) \/ RunsOutOfSpace(t)
         \/ FailsIO(t) \/ StopsByError(t) \/ JobEnds(t) \/ FilesVanish(t)
  PROVE  Result(m, m', Excused) /\ events' \in 0 .. MaxEvents
  <1>0. Start(m) /\ Good(m) /\ ~m.ordering /\ m \in Mem /\ Listed(m) \subseteq Torrents
        /\ m.tor[t] \in Torrent /\ events \in 0 .. MaxEvents /\ MaxEvents \in Nat
    BY ListedIs, QueueAssumption DEF IInv, Start, Good, Mem
  <1>l. m.tor[t].run \/ m.tor[t].job # NoJob => t \in Listed(m)
    BY <1>0, FreshType DEF Good, Fresh
  <1>e. \A s : Event(s) => m' = s /\ events' \in 0 .. MaxEvents
    BY <1>0 DEF Event
  <1>f. \A s : Follows(s) => m' = s /\ events' \in 0 .. MaxEvents
    BY <1>0 DEF Follows
  <1>w. \A s, u : Result(s, u, {}) => Result(s, u, Excused)
    BY DEF Result
  <1>1. CASE UserStarts(t)
    BY <1>0, <1>1, <1>e, <1>w, QMStartResult DEF UserStarts
  <1>2. CASE UserStops(t)
    BY <1>0, <1>2, <1>e, <1>w, QMStopResult DEF UserStops
  <1>3. CASE UserAdds(t)
    <2>1. PICK start \in BOOLEAN, existing \in BOOLEAN : Event(Added(m, t, start, existing))
      BY <1>3 DEF UserAdds
    <2>2. t \in Torrents \ Listed(m)
      BY <1>3 DEF UserAdds
    <2>3. Result(m, Added(m, t, start, existing), {})
      BY <1>0, <2>2, AddedResult
    <2> QED BY <1>e, <1>w, <2>1, <2>3
  <1>4. CASE UserRemoves(t)
    BY <1>0, <1>4, <1>e, <1>w, CoreRemoveResult DEF UserRemoves
  <1>5. CASE UserChecks(t)
    BY <1>0, <1>5, <1>e, <1>w, EnqueueResult DEF UserChecks
  <1>6. CASE Finishes(t)
    <2> DEFINE y == [m.tor[t] EXCEPT !.done = TRUE]
               v == [m EXCEPT !.tor[t] = y]
    <2>1. y \in Torrent /\ y.run = m.tor[t].run
      BY <1>0 DEF Torrent
    <2>2. Event(Finished(v, t)) /\ t \in Listed(m)
      BY <1>0, <1>6, <1>l DEF Finishes, Updated, Mem, Torrent
    <2> HIDE DEF y
    <2>3. Good(v) /\ Same(m, v) /\ Others(m, v, t) /\ v.tor[t] = y
      BY <1>0, <2>1, <2>2, EditGood
    <2> HIDE DEF v
    <2>4. Result(v, Finished(v, t), {})
      BY <1>0, <2>2, <2>3, FinishedResult DEF Same, Listed
    <2>5. \A x \in Torrents : v.tor[x].run = m.tor[x].run
      BY <2>1, <2>3 DEF Others
    <2>6. Result(m, Finished(v, t), {})
      BY <2>4, <2>5 DEF Result
    <2> QED BY <1>e, <1>w, <2>2, <2>6
  <1>7. CASE WantsMore(t)
    <2> DEFINE y == [m.tor[t] EXCEPT !.done = FALSE]
               v == [m EXCEPT !.tor[t] = y]
    <2>1. y \in Torrent /\ y.run = m.tor[t].run
      BY <1>0 DEF Torrent
    <2>2. Event(OrderQueue(v)) /\ t \in Listed(m)
      BY <1>0, <1>7, <1>l DEF WantsMore, Updated, Mem, Torrent
    <2> HIDE DEF y
    <2>3. Good(v) /\ Same(m, v) /\ Others(m, v, t) /\ v.tor[t] = y
      BY <1>0, <2>1, <2>2, EditGood
    <2> HIDE DEF v
    <2>5. \A x \in Torrents : v.tor[x].run = m.tor[x].run
      BY <2>1, <2>3 DEF Others
    <2>6. Result(m, OrderQueue(v), {})
      BY <1>0, <2>3, <2>5, Ordered DEF Same
    <2> QED BY <1>e, <1>w, <2>2, <2>6
  <1>8. CASE ReachesLimit(t)
    <2> DEFINE y == [m.tor[t] EXCEPT !.over = TRUE]
               v == [m EXCEPT !.tor[t] = y]
    <2>1. y \in Torrent /\ y.run = m.tor[t].run
      BY <1>0 DEF Torrent
    <2>2. Event(Stop(v, t)) /\ t \in Listed(m)
      BY <1>0, <1>8, <1>l DEF ReachesLimit, Updated, Mem, Torrent
    <2> HIDE DEF y
    <2>3. Good(v) /\ Same(m, v) /\ Others(m, v, t) /\ v.tor[t] = y
      BY <1>0, <2>1, <2>2, EditGood
    <2> HIDE DEF v
    <2>4. Result(v, Stop(v, t), {})
      BY <1>0, <2>2, <2>3, StopGood DEF Same, Listed
    <2>5. \A x \in Torrents : v.tor[x].run = m.tor[x].run
      BY <2>1, <2>3 DEF Others
    <2>6. Result(m, Stop(v, t), {})
      BY <2>4, <2>5 DEF Result
    <2> QED BY <1>e, <1>w, <2>2, <2>6
  <1>9. CASE RunsOutOfSpace(t)
    BY <1>0, <1>9, <1>e, <1>w, <1>l, LowDiskSpaceResult DEF RunsOutOfSpace, Updated
  <1>10. CASE FailsIO(t)
    <2> DEFINE y == [m.tor[t] EXCEPT !.err = TRUE, !.io = TRUE]
               v == [m EXCEPT !.tor[t] = y]
    <2>1. y \in Torrent /\ y.run = m.tor[t].run /\ y.io
      BY <1>0 DEF Torrent
    <2>2. Event(v) /\ t \in Listed(m) /\ m.tor[t].run
      BY <1>0, <1>10, <1>l DEF FailsIO, Updated, Mem, Torrent
    <2> HIDE DEF y
    <2>3. Good(v) /\ Same(m, v) /\ Others(m, v, t) /\ v.tor[t] = y
      BY <1>0, <2>1, <2>2, EditGood
    <2> HIDE DEF v
    <2>4. Sound(v)
      BY <2>1, <2>2, <2>3 DEF Sound
    <2>5. \A x \in Torrents : v.tor[x].run = m.tor[x].run
      BY <2>1, <2>3 DEF Others
    <2>6. Result(m, v, {})
      BY <1>0, <2>3, <2>4, <2>5 DEF Result, Same
    <2> QED BY <1>e, <1>w, <2>2, <2>6
  <1>11. CASE StopsByError(t)
    BY <1>0, <1>11, <1>f, <1>w, <1>l, StopGood DEF StopsByError, Updated
  <1>12. CASE JobEnds(t)
    <2>1. t \in Listed(m)
      BY <1>12, <1>l DEF JobEnds, NoJob
    <2>2. \A s : Result(m, s, {x \in Torrents : m.tor[x].restart}) => Result(m, s, Excused)
      BY DEF Result, Excused
    <2>3. CASE \E done \in BOOLEAN : Follows(CheckDone(m, t, done))
      <3>1. PICK done \in BOOLEAN : Follows(CheckDone(m, t, done))
        BY <2>3
      <3>2. Result(m, CheckDone(m, t, done), {x \in Torrents : m.tor[x].restart})
        BY <1>0, <2>1, CheckDoneResult
      <3> QED BY <1>f, <2>2, <3>1, <3>2
    <2>4. CASE \E ok \in BOOLEAN : Follows(PreallocDone(m, t, ok))
      <3>1. PICK ok \in BOOLEAN : Follows(PreallocDone(m, t, ok))
        BY <2>4
      <3>2. Result(m, PreallocDone(m, t, ok), {x \in Torrents : m.tor[x].restart})
        BY <1>0, <2>1, PreallocDoneResult
      <3> QED BY <1>f, <2>2, <3>1, <3>2
    <2> QED BY <1>12, <2>3, <2>4 DEF JobEnds
  <1>13. CASE FilesVanish(t)
    <2> DEFINE y == [m.tor[t] EXCEPT !.broken = TRUE]
               v == [m EXCEPT !.tor[t] = y]
    <2>1. y \in Torrent /\ y.run = m.tor[t].run /\ y.io = m.tor[t].io /\ y.done = m.tor[t].done
          /\ y.over = m.tor[t].over /\ y.allowed = m.tor[t].allowed /\ y.err = m.tor[t].err
          /\ y.job = m.tor[t].job
      BY <1>0 DEF Torrent
    <2>2. Event(v) /\ t \in Listed(m)
      BY <1>0, <1>13 DEF FilesVanish, Mem, Torrent
    <2> HIDE DEF y
    <2>3. Good(v) /\ Same(m, v) /\ Others(m, v, t) /\ v.tor[t] = y
      BY <1>0, <2>1, <2>2, EditGood
    <2> HIDE DEF v
    <2>4. Eligible(v, t) => Eligible(m, t)
      BY <2>1, <2>3 DEF Eligible
    <2>5. \A x \in Torrents : v.tor[x].run = m.tor[x].run
      BY <2>1, <2>3 DEF Others
    <2>6. Result(m, v, {})
      <3>1. Result(m, v, Torrents)
        BY <1>0, <2>1, <2>2, <2>3, <2>4, EditSound
      <3> QED BY <2>5, <3>1 DEF Result
    <2> QED BY <1>e, <1>w, <2>2, <2>6
  <1> QED BY <1>1, <1>2, <1>3, <1>4, <1>5, <1>6, <1>7, <1>8, <1>9, <1>10, <1>11, <1>12, <1>13

LEMMA ManyStep ==
  ASSUME IInv,
         \/ UserStartsSome \/ UserStartsAll \/ UserStopsSome \/ UserPauses \/ UserResumes
         \/ UserMoves \/ UserSwitches \/ (\E S \in SUBSET Torrents : Stalls(S)) \/ DiskFills
  PROVE  Result(m, m', Excused) /\ events' \in 0 .. MaxEvents
  <1>0. Start(m) /\ Good(m) /\ ~m.ordering /\ m \in Mem /\ Listed(m) \subseteq Torrents
        /\ events \in 0 .. MaxEvents /\ MaxEvents \in Nat
    BY ListedIs, QueueAssumption DEF IInv, Start, Good
  <1>e. \A s : Event(s) => m' = s /\ events' \in 0 .. MaxEvents
    BY <1>0 DEF Event
  <1>w. \A s, u : Result(s, u, {}) => Result(s, u, Excused)
    BY DEF Result
  <1>1. CASE UserStartsSome
    <2>0. PICK S \in SUBSET Listed(m) : \E yes \in SUBSET S : Event(QMStartList(m, S, yes))
      BY <1>1 DEF UserStartsSome
    <2>1. PICK yes \in SUBSET S : Event(QMStartList(m, S, yes))
      BY <2>0
    <2>2. Result(m, QMStartList(m, S, yes), {})
      BY <1>0, QMStartListResult
    <2> QED BY <1>e, <1>w, <2>1, <2>2
  <1>2. CASE UserStartsAll
    <2>1. PICK yes \in SUBSET Listed(m) : Event(QMStartAll(m, yes))
      BY <1>2 DEF UserStartsAll
    <2>2. Result(m, QMStartAll(m, yes), {})
      BY <1>0, QMStartAllResult
    <2> QED BY <1>e, <1>w, <2>1, <2>2
  <1>3. CASE UserStopsSome
    <2>1. PICK S \in SUBSET Listed(m) : Event(QMStopList(m, S))
      BY <1>3 DEF UserStopsSome
    <2>2. Result(m, QMStopList(m, S), {})
      BY <1>0, QMStopListResult
    <2> QED BY <1>e, <1>w, <2>1, <2>2
  <1>4. CASE UserPauses
    BY <1>0, <1>4, <1>e, <1>w, PauseResult DEF UserPauses
  <1>5. CASE UserResumes
    <2>1. Event(Resume(m)) /\ Result(m, Resume(m), m.resume)
      BY <1>0, <1>5, ResumeResult DEF UserResumes
    <2>2. Result(m, Resume(m), Excused)
      BY <2>1 DEF Result, Excused
    <2> QED BY <1>e, <2>1, <2>2
  <1>6. CASE UserMoves
    <2>1. PICK order \in SetToSeqs(Listed(m)) :
            Event(OrderQueue([m EXCEPT !.downloads = order]))
      BY <1>6 DEF UserMoves
    <2>2. order \in Orders(Listed(m))
      BY <1>0, SetToSeqsOrders
    <2>3. Result(m, OrderQueue([m EXCEPT !.downloads = order]), {})
      BY <1>0, <2>2, ReorderedResult
    <2> QED BY <1>e, <1>w, <2>1, <2>3
  <1>7. CASE UserSwitches
    <2> DEFINE v == [m EXCEPT !.manual = ~@]
    <2>1. /\ v \in Mem /\ v.downloads = m.downloads /\ v.tor = m.tor /\ v.resume = m.resume
          /\ ~v.ordering
      BY <1>0 DEF Mem
    <2>2. Event(OrderQueue(v))
      BY <1>7 DEF UserSwitches
    <2> HIDE DEF v
    <2>3. Good(v)
      BY <1>0, <2>1 DEF Good, Listed
    <2>4. Result(m, OrderQueue(v), {})
      BY <2>1, <2>3, Ordered
    <2> QED BY <1>e, <1>w, <2>2, <2>4
  <1>8. CASE \E S \in SUBSET Torrents : Stalls(S)
    <2>1. PICK S \in SUBSET Torrents : Event(Stalled(m, S))
      BY <1>8 DEF Stalls
    <2>2. Result(m, Stalled(m, S), {})
      BY <1>0, StalledResult
    <2> QED BY <1>e, <1>w, <2>1, <2>2
  <1>9. CASE DiskFills
    <2> DEFINE v == [m EXCEPT !.low = TRUE]
    <2>1. /\ v \in Mem /\ v.downloads = m.downloads /\ v.tor = m.tor /\ v.resume = m.resume
          /\ ~v.ordering /\ v.paused = m.paused /\ v.manual = m.manual /\ v.low
      BY <1>0 DEF Mem
    <2>2. Event(v)
      BY <1>9 DEF DiskFills
    <2> HIDE DEF v
    <2>3. Good(v)
      BY <1>0, <2>1 DEF Good, Listed
    <2>4. \A t \in Torrents : Eligible(v, t) = Eligible(m, t) /\ (Refused(m, t) => Refused(v, t))
      BY <2>1 DEF Eligible, Refused
    <2>5. Sound(v)
      BY <1>0, <2>1, <2>4, SoundKept DEF Start
    <2>6. Result(m, v, {})
      BY <2>1, <2>3, <2>5 DEF Result
    <2> QED BY <1>e, <1>w, <2>2, <2>6
  <1> QED BY <1>1, <1>2, <1>3, <1>4, <1>5, <1>6, <1>7, <1>8, <1>9

LEMMA NextResult ==
  ASSUME IInv, Next
  PROVE  Result(m, m', Excused) /\ events' \in 0 .. MaxEvents
  <1>1. CASE \E t \in Torrents :
                \/ UserStarts(t) \/ UserStops(t) \/ UserAdds(t) \/ UserRemoves(t)
                \/ UserChecks(t) \/ Finishes(t) \/ WantsMore(t) \/ ReachesLimit(t)
                \/ RunsOutOfSpace(t) \/ FailsIO(t) \/ StopsByError(t) \/ JobEnds(t)
                \/ FilesVanish(t)
    BY <1>1, TorrentStep
  <1>2. CASE \/ UserStartsSome \/ UserStartsAll \/ UserStopsSome \/ UserPauses
             \/ UserResumes \/ UserMoves \/ UserSwitches
             \/ (\E S \in SUBSET Torrents : Stalls(S)) \/ DiskFills
    BY <1>2, ManyStep
  <1> QED BY <1>1, <1>2 DEF Next

LEMMA StepInv == IInv /\ [Next]_vars => IInv'
  <1>1. ASSUME IInv, Next PROVE IInv'
    BY <1>1, NextResult DEF IInv, Start, Result
  <1>2. ASSUME IInv, UNCHANGED vars PROVE IInv'
    BY <1>2 DEF vars, IInv
  <1> QED BY <1>1, <1>2

LEMMA SpecInv == Spec => []IInv
  BY InitInv, StepInv, PTL DEF Spec

-----------------------------------------------------------------------------
(* The theorems                                                             *)

\* Whatever users, disks and peers do, the memory has its type, no torrent is twice in
\* the list, nothing is kept of a removed torrent (not in the list to resume either),
\* and between two events orderQueue is not under way.
THEOREM TypeCorrect == Spec => []TypeOK
  <1>1. IInv => TypeOK
    BY DEF IInv, Start, Good, Mem, TypeOK
  <1> QED BY <1>1, SpecInv, PTL

\* After every event the queue is in order: of the torrents that may run, one runs
\* exactly when fewer than the limit run before it in the list.
THEOREM InOrderAlways == Spec => []QueueInOrder
  <1>1. IInv => QueueInOrder
    BY DEF IInv, Start, Sound, InOrder, QueueInOrder, Settled, Rivals
  <1> QED BY <1>1, SpecInv, PTL

\* No event starts a torrent that the user has stopped, but the end of a pause or of a
\* job that had stopped it.
THEOREM StartsAsAllowed == Spec => StartedAsAllowed
  <1> DEFINE Act == \A t \in Torrents :
                ~m.tor[t].run /\ m'.tor[t].run /\ ~m'.manual =>
                    m'.tor[t].allowed \/ t \in m.resume \/ m.tor[t].restart
  <1>1. ASSUME IInv, Next PROVE Act
    BY <1>1, NextResult DEF Result, Excused
  <1>2. IInv /\ [Next]_vars => [Act]_vars
    BY <1>1
  <1> QED BY <1>2, SpecInv, PTL DEF Spec, StartedAsAllowed
=============================================================================
