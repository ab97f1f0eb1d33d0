-------------------------- MODULE Downloader_proofs --------------------------
(***************************************************************************)
(* What Downloader promises, for any number of chunks, pieces and peers,   *)
(* and any limits.                                                         *)
(*                                                                         *)
(* Sane (requests, peers and downloads agree) is kept by every operation,  *)
(* also within an action; Data (the hash so far, and who is to blame) by   *)
(* every one when the web seed is right. Each operation has a lemma that   *)
(* says what it keeps: Result when it changes at most who is asked for     *)
(* what, Same when the data is as before, Brings when a piece is written.  *)
(* Each loop has one that says so of its body and cites FoldFacts, each    *)
(* action one that puts these together. The theorems are at the end.       *)
(***************************************************************************)
EXTENDS Downloader, FiniteSetTheorems, TLAPS

\* The loops of the module
OpWithout(x, b, y, q) == IF y = x THEN q ELSE Append(q, y)
OpSend(c, b, p, s) == SendRequest(s, c, p)
OpRound(c, pds, n, s) == Round(s, c, pds)
OpCancel(c, p, i, s) == CancelRequest(s, p, <<c, i>>)
OpLetGo(c, b, p, s) == Drop(SendCancels(Release(s, p), c, p), c, p)
OpCancels(c, b, p, s) == SendCancels(s, c, p)
OpPiece(c, i, p, s) == CancelPiece(s, c, i, p)
OpRestore(q, b, c, s) ==
    UpdateHash([s EXCEPT !.disk[c][0] = q,
                         !.cur = [d \in {c} |-> [NewDownload EXCEPT !.got = {0},
                                                                    !.from = {Earlier}]]], c)
OpTend(slow, b, c, s) == Tend(s, c, slow)
OpFrom(p, order, n, s) == DownloadFrom(s, p, order)
OpTries(order, b, p, s) == Tries(s, p, order)
OpReject(p, b, c, s) == NotDownloaded(s, c, p)
OpDrop(p, b, c, s) == Drop(s, c, p)

FWithout == INSTANCE FoldFacts WITH Op <- OpWithout
FSend == INSTANCE FoldFacts WITH Op <- OpSend
FRound == INSTANCE FoldFacts WITH Op <- OpRound
FCancel == INSTANCE FoldFacts WITH Op <- OpCancel
FLetGo == INSTANCE FoldFacts WITH Op <- OpLetGo
FCancels == INSTANCE FoldFacts WITH Op <- OpCancels
FPiece == INSTANCE FoldFacts WITH Op <- OpPiece
FRestore == INSTANCE FoldFacts WITH Op <- OpRestore
FTend == INSTANCE FoldFacts WITH Op <- OpTend
FFrom == INSTANCE FoldFacts WITH Op <- OpFrom
FTries == INSTANCE FoldFacts WITH Op <- OpTries
FReject == INSTANCE FoldFacts WITH Op <- OpReject
FDrop == INSTANCE FoldFacts WITH Op <- OpDrop

-----------------------------------------------------------------------------
(* Numbers and sequences                                                    *)

LEMMA Sizes ==
  /\ NumChunks \in Nat \ {0} /\ NumPieces \in Nat \ {0} /\ MaxReqs \in Nat \ {0}
  /\ MaxWait \in Nat \ {0} /\ MaxGrab \in Nat \ {0} /\ WebRange \in Nat \ {0}
  BY DownloaderAssumption

LEMMA FiniteRequests ==
  /\ IsFiniteSet(Pieces) /\ IsFiniteSet(Chunks)
  /\ \A R \in SUBSET Requests : IsFiniteSet(R) /\ Cardinality(R) \in Nat
  <1>1. IsFiniteSet(Pieces) /\ IsFiniteSet(Chunks)
    BY Sizes, FS_Interval DEF Pieces, Chunks
  <1>2. IsFiniteSet(Requests)
    BY <1>1, FS_Product DEF Requests
  <1> QED BY <1>1, <1>2, FS_Subset, FS_CardinalityType

LEMMA MaxOfTwo ==
  ASSUME NEW a \in Int, NEW b \in Int
  PROVE  /\ Max({a, b}) = IF a >= b THEN a ELSE b
         /\ Min({a, b}) = IF a <= b THEN a ELSE b
  <1>1. (IF a >= b THEN a ELSE b) \in {a, b}
        /\ \A y \in {a, b} : (IF a >= b THEN a ELSE b) >= y
    OBVIOUS
  <1>2. (IF a <= b THEN a ELSE b) \in {a, b}
        /\ \A y \in {a, b} : (IF a <= b THEN a ELSE b) <= y
    OBVIOUS
  <1>3. \A x \in {a, b} : (\A y \in {a, b} : x >= y) => x = IF a >= b THEN a ELSE b
    OBVIOUS
  <1>4. \A x \in {a, b} : (\A y \in {a, b} : x <= y) => x = IF a <= b THEN a ELSE b
    OBVIOUS
  <1>5. Max({a, b}) = IF a >= b THEN a ELSE b
    BY <1>1, <1>3 DEF Max
  <1>6. Min({a, b}) = IF a <= b THEN a ELSE b
    BY <1>2, <1>4 DEF Min
  <1> QED BY <1>5, <1>6

LEMMA MinIn ==
  ASSUME NEW S, S \subseteq Nat, S # {}
  PROVE  Min(S) \in S /\ \A y \in S : Min(S) <= y
  <1>1. \E x \in S : \A y \in S : x <= y
    BY FWithout!LeastOf
  <1> QED BY <1>1 DEF Min

LEMMA AppendFacts ==
  ASSUME NEW X, NEW q \in Seq(X), NEW t \in X
  PROVE  /\ Append(q, t) \in Seq(X) /\ ToSet(Append(q, t)) = ToSet(q) \cup {t}
         /\ IsInjective(q) /\ t \notin ToSet(q) => IsInjective(Append(q, t))
  <1> DEFINE r == Append(q, t)
             n == Len(q)
  <1>1. n \in Nat /\ DOMAIN q = 1 .. n
    OBVIOUS
  <1>2. r \in Seq(X) /\ Len(r) = n + 1 /\ DOMAIN r = 1 .. n + 1
    BY <1>1
  <1>3. r[n + 1] = t /\ \A i \in 1 .. n : r[i] = q[i]
    BY <1>1
  <1> HIDE DEF r, n
  <1>4. 1 .. n + 1 = (1 .. n) \cup {n + 1}
    BY <1>1
  <1>5. IsInjective(q) /\ t \notin ToSet(q) => IsInjective(r)
    <2> SUFFICES ASSUME IsInjective(q), t \notin ToSet(q) PROVE IsInjective(r)
      OBVIOUS
    <2>1. \A i \in 1 .. n : q[i] # t
      BY <1>1 DEF ToSet
    <2> QED BY <1>1, <1>2, <1>3, <1>4, <2>1 DEF IsInjective
  <1>6. ToSet(r) = ToSet(q) \cup {t}
    <2>1. ToSet(q) = {q[i] : i \in 1 .. n}
      BY <1>1 DEF ToSet
    <2>2. ToSet(r) = {r[i] : i \in (1 .. n) \cup {n + 1}}
      BY <1>2, <1>4 DEF ToSet
    <2> QED BY <1>3, <2>1, <2>2
  <1> QED BY <1>2, <1>5, <1>6 DEF r

EmptyOnes(X) == {q \in Seq(X) : ToSet(q) = {} /\ IsInjective(q)}

LEMMA NoneListed == ASSUME NEW X PROVE <<>> \in EmptyOnes(X)
  BY DEF EmptyOnes, ToSet, IsInjective

LEMMA WithoutFacts ==
  ASSUME NEW X, NEW q \in Seq(X), NEW x
  PROVE  /\ Without(q, x) \in Seq(X) /\ ToSet(Without(q, x)) = ToSet(q) \ {x}
         /\ IsInjective(q) => IsInjective(Without(q, x))
  <1> DEFINE n == Len(q)
             first(k) == {q[i] : i \in 1 .. k}
             Surviving(k) == {r \in Seq(X) : /\ ToSet(r) = first(k) \ {x}
                                             /\ IsInjective(q) => IsInjective(r)}
             I == [k \in 0 .. n |-> Surviving(k)]
  <1>1. n \in Nat /\ DOMAIN q = 1 .. n
    OBVIOUS
  <1>2. <<>> \in I[0]
    <2>1. first(0) \ {x} = {}
      OBVIOUS
    <2>2. <<>> \in Surviving(0)
      <3> HIDE DEF first
      <3>1. EmptyOnes(X) \subseteq Surviving(0)
        BY <2>1 DEF EmptyOnes
      <3> HIDE DEF Surviving
      <3> QED BY <3>1, NoneListed
    <2>3. I[0] = Surviving(0)
      <3> HIDE DEF Surviving
      <3> QED BY <1>1
    <2> HIDE DEF Surviving, I
    <2> QED BY <2>2, <2>3
  <1>3. ASSUME NEW k \in 1 .. n, NEW r \in I[k - 1]
        PROVE  OpWithout(x, 0, q[k], r) \in I[k]
    <2>1. first(k) = first(k - 1) \cup {q[k]}
      <3>1. 1 .. k = (1 .. k - 1) \cup {k}
        OBVIOUS
      <3> QED BY <3>1
    <2>2. q[k] \in X /\ (IsInjective(q) => q[k] \notin first(k - 1))
      BY SMTT(30), <1>1 DEF IsInjective
    <2>3. I[k] = Surviving(k) /\ I[k - 1] = Surviving(k - 1)
      <3> HIDE DEF Surviving
      <3> QED BY <1>1
    <2>4. r \in Seq(X) /\ ToSet(r) = first(k - 1) \ {x} /\ (IsInjective(q) => IsInjective(r))
      BY <2>3
    <2> HIDE DEF first
    <2>5. CASE q[k] = x
      <3>1. first(k) \ {x} = first(k - 1) \ {x}
        BY <2>1, <2>5
      <3> QED BY <2>3, <2>4, <2>5, <3>1 DEF OpWithout
    <2>6. CASE q[k] # x
      <3>1. first(k) \ {x} = (first(k - 1) \ {x}) \cup {q[k]}
        BY <2>1, <2>6
      <3>2. Append(r, q[k]) \in Surviving(k)
        BY <2>2, <2>4, <3>1, AppendFacts
      <3> QED BY <2>3, <2>6, <3>2 DEF OpWithout
    <2> QED BY <2>5, <2>6
  <1>4. FWithout!SeqFold(x, 0, <<>>, q) \in I[n]
    <2> HIDE DEF I, n
    <2> QED BY <1>1, <1>2, <1>3, FWithout!SeqFoldKeeps
  <1>5. Without(q, x) = FWithout!SeqFold(x, 0, <<>>, q)
    BY DEF Without, FWithout!SeqFold, FoldLeft, MapThenFoldSet, Max, OpWithout
  <1>6. first(n) = ToSet(q)
    BY <1>1 DEF ToSet
  <1>7. I[n] = Surviving(n)
    <2> HIDE DEF Surviving
    <2> QED BY <1>1
  <1> HIDE DEF first, n, I
  <1> QED BY <1>4, <1>5, <1>6, <1>7

\* A sequence that is split in two
LEMMA SplitFacts ==
  ASSUME NEW X, NEW q \in Seq(X), NEW k \in 0 .. Len(q)
  PROVE  LET a == SubSeq(q, 1, k)
             b == SubSeq(q, k + 1, Len(q))
         IN  b \in Seq(X) /\ ToSet(a) \cup ToSet(b) = ToSet(q)
  <1> DEFINE n == Len(q)
             a == SubSeq(q, 1, k)
             b == SubSeq(q, k + 1, n)
  <1>1. n \in Nat /\ DOMAIN q = 1 .. n /\ k \in Nat /\ k <= n
    OBVIOUS
  <1>2. a \in Seq(X) /\ DOMAIN a = 1 .. k /\ \A i \in 1 .. k : a[i] = q[i]
    BY <1>1
  <1>3. b \in Seq(X) /\ DOMAIN b = 1 .. n - k /\ \A i \in 1 .. n - k : b[i] = q[k + i]
    BY <1>1
  <1> HIDE DEF a, b, n
  <1>4. ToSet(a) \subseteq ToSet(q) /\ ToSet(b) \subseteq ToSet(q)
    <2>1. \A i \in 1 .. k : i \in 1 .. n
      BY <1>1
    <2>2. \A i \in 1 .. n - k : k + i \in 1 .. n
      BY <1>1
    <2> QED BY <1>1, <1>2, <1>3, <2>1, <2>2 DEF ToSet
  <1>5. ASSUME NEW i \in 1 .. n PROVE q[i] \in ToSet(a) \cup ToSet(b)
    <2>1. CASE i <= k
      <3>1. i \in 1 .. k
        BY <1>1, <2>1
      <3> QED BY <1>2, <3>1 DEF ToSet
    <2>2. CASE ~(i <= k)
      <3>1. i - k \in 1 .. n - k /\ k + (i - k) = i
        BY <1>1, <2>2
      <3> QED BY <1>3, <3>1 DEF ToSet
    <2> QED BY <2>1, <2>2
  <1>6. ToSet(q) \subseteq ToSet(a) \cup ToSet(b)
    BY <1>1, <1>5 DEF ToSet
  <1> QED BY <1>3, <1>4, <1>6 DEF a, b, n

-----------------------------------------------------------------------------
(* The record m, during an action, and changes of one part of it            *)

Content == {"none", "good", "bad"}
AtPeer == [state : {"up", "killed", "gone"}, choked : BOOLEAN,
           grabbed : Nat, nearly : BOOLEAN, reqs : SUBSET Requests,
           wait : Seq(Requests), sent : SUBSET Requests]
CurMaps == UNION {[D -> Downloading] : D \in SUBSET Chunks}
WebState == [first : Nat, last : Nat, cur : Nat, n : Nat, failed : Nat]
Mem == [have : SUBSET Chunks, disk : [Chunks -> [Pieces -> Content]], cur : CurMaps,
        peer : [Peers -> AtPeer], list : Seq(Peers), banned : SUBSET Peers,
        web : WebState, webch : SUBSET Chunks]

Asks(s, p) == s.peer[p].reqs \cup ToSet(s.peer[p].wait)

LEMMA MemIs ==
  ASSUME NEW s \in Mem
  PROVE  /\ s.have \in SUBSET Chunks /\ s.disk \in [Chunks -> [Pieces -> Content]]
         /\ s.cur \in CurMaps /\ s.peer \in [Peers -> AtPeer] /\ s.list \in Seq(Peers)
         /\ s.banned \in SUBSET Peers /\ s.web \in WebState /\ s.webch \in SUBSET Chunks
         /\ Downloads(s) \in SUBSET Chunks /\ s.cur \in [Downloads(s) -> Downloading]
  BY DEF Mem, CurMaps, Downloads

LEMMA PeerIs ==
  ASSUME NEW s \in Mem, NEW p \in Peers
  PROVE  /\ s.peer[p] \in AtPeer /\ s.peer[p].state \in {"up", "killed", "gone"}
         /\ s.peer[p].choked \in BOOLEAN /\ s.peer[p].grabbed \in Nat
         /\ s.peer[p].nearly \in BOOLEAN /\ s.peer[p].reqs \in SUBSET Requests
         /\ s.peer[p].wait \in Seq(Requests) /\ s.peer[p].sent \in SUBSET Requests
         /\ Asks(s, p) \in SUBSET Requests
  <1>1. s.peer[p] \in AtPeer
    BY MemIs
  <1>2. /\ s.peer[p].state \in {"up", "killed", "gone"}
        /\ s.peer[p].choked \in BOOLEAN /\ s.peer[p].grabbed \in Nat
        /\ s.peer[p].nearly \in BOOLEAN /\ s.peer[p].reqs \in SUBSET Requests
        /\ s.peer[p].wait \in Seq(Requests) /\ s.peer[p].sent \in SUBSET Requests
    BY <1>1 DEF AtPeer
  <1>3. ToSet(s.peer[p].wait) \in SUBSET Requests
    BY <1>2 DEF ToSet
  <1> QED BY <1>1, <1>2, <1>3 DEF Asks

LEMMA CurIs ==
  ASSUME NEW s \in Mem, NEW c \in Downloads(s)
  PROVE  /\ c \in Chunks /\ s.cur[c] \in Downloading /\ s.cur[c].got \in SUBSET Pieces
         /\ s.cur[c].hashed \in 0 .. NumPieces /\ s.cur[c].right \in BOOLEAN
         /\ s.cur[c].from \in SUBSET (Peers \cup {Earlier}) /\ s.cur[c].pds \in Seq(Peers)
         /\ s.cur[c].ds \in [Peers -> SUBSET Pieces] /\ ToSet(s.cur[c].pds) \in SUBSET Peers
  <1>1. c \in Chunks /\ s.cur[c] \in Downloading
    BY MemIs
  <1>2. /\ s.cur[c].got \in SUBSET Pieces
        /\ s.cur[c].hashed \in 0 .. NumPieces /\ s.cur[c].right \in BOOLEAN
        /\ s.cur[c].from \in SUBSET (Peers \cup {Earlier}) /\ s.cur[c].pds \in Seq(Peers)
        /\ s.cur[c].ds \in [Peers -> SUBSET Pieces]
    BY <1>1 DEF Downloading
  <1>3. ToSet(s.cur[c].pds) \in SUBSET Peers
    BY <1>2 DEF ToSet
  <1> QED BY <1>1, <1>2, <1>3

\* Everything but peer and cur is the same
Rest(s, u) ==
    /\ u \in Mem
    /\ u.have = s.have /\ u.disk = s.disk /\ u.list = s.list
    /\ u.banned = s.banned /\ u.web = s.web /\ u.webch = s.webch

LEMMA PeerEdit ==
  ASSUME NEW s \in Mem, NEW p \in Peers, NEW pd \in AtPeer
  PROVE  LET u == [s EXCEPT !.peer[p] = pd]
         IN  /\ Rest(s, u) /\ u.cur = s.cur /\ u.peer[p] = pd
             /\ \A q \in Peers \ {p} : u.peer[q] = s.peer[q]
  <1> DEFINE f == [s.peer EXCEPT ![p] = pd]
             u == [s EXCEPT !.peer = f]
  <1>1. f \in [Peers -> AtPeer] /\ f[p] = pd /\ \A q \in Peers \ {p} : f[q] = s.peer[q]
    BY MemIs
  <1>2. [s EXCEPT !.peer[p] = pd] = u
    OBVIOUS
  <1> HIDE DEF f
  <1>3. Rest(s, u) /\ u.cur = s.cur /\ u.peer = f
    BY <1>1 DEF Mem, Rest
  <1> HIDE DEF u
  <1> QED BY <1>1, <1>2, <1>3

LEMMA CurEdit ==
  ASSUME NEW s \in Mem, NEW c \in Downloads(s), NEW cd \in Downloading
  PROVE  LET u == [s EXCEPT !.cur[c] = cd]
         IN  /\ Rest(s, u) /\ u.peer = s.peer /\ u.cur[c] = cd /\ Downloads(u) = Downloads(s)
             /\ \A d \in Downloads(s) \ {c} : u.cur[d] = s.cur[d]
  <1> DEFINE f == [s.cur EXCEPT ![c] = cd]
             u == [s EXCEPT !.cur = f]
             D == Downloads(s)
  <1>1. /\ f \in [D -> Downloading] /\ f[c] = cd /\ DOMAIN f = D
        /\ \A d \in D \ {c} : f[d] = s.cur[d]
    BY MemIs
  <1>2. f \in CurMaps
    <2>1. D \in SUBSET Chunks
      BY MemIs
    <2> HIDE DEF f, D
    <2> QED BY <1>1, <2>1 DEF CurMaps
  <1>3. [s EXCEPT !.cur[c] = cd] = u
    OBVIOUS
  <1> HIDE DEF f
  <1>4. Rest(s, u) /\ u.peer = s.peer /\ u.cur = f
    BY <1>2 DEF Mem, Rest
  <1> HIDE DEF u
  <1> QED BY <1>1, <1>3, <1>4 DEF Downloads

\* At most what peer p is asked and how many chunks it works on is different
AtOne(s, u, p) ==
    /\ Rest(s, u) /\ u.cur = s.cur
    /\ \A q \in Peers \ {p} : u.peer[q] = s.peer[q]
    /\ u.peer[p].state = s.peer[p].state /\ u.peer[p].choked = s.peer[p].choked

LEMMA AtOneSame ==
  ASSUME NEW s \in Mem, NEW p \in Peers
  PROVE  AtOne(s, s, p)
  BY DEF AtOne, Rest

LEMMA AtOneTwice ==
  ASSUME NEW s, NEW u, NEW v, NEW p, AtOne(s, u, p), AtOne(u, v, p)
  PROVE  AtOne(s, v, p)
  BY DEF AtOne, Rest

LEMMA CancelIs ==
  ASSUME NEW s \in Mem, NEW p \in Peers, NEW r
  PROVE  LET u == CancelRequest(s, p, r)
         IN  /\ AtOne(s, u, p) /\ u.peer[p].grabbed = s.peer[p].grabbed
             /\ Asks(u, p) = Asks(s, p) \ {r}
  <1> DEFINE a == Without(s.peer[p].wait, r)
             b == s.peer[p].reqs \ {r}
             pd == [s.peer[p] EXCEPT !.wait = a]
             v == [s EXCEPT !.peer[p] = pd]
             e == [v.peer[p] EXCEPT !.reqs = b]
             u == [v EXCEPT !.peer[p] = e]
  <1>1. a \in Seq(Requests) /\ ToSet(a) = ToSet(s.peer[p].wait) \ {r}
    BY PeerIs, WithoutFacts
  <1>2. b \in SUBSET Requests
    BY PeerIs
  <1> HIDE DEF a
  <1>3. /\ pd \in AtPeer /\ pd.state = s.peer[p].state /\ pd.choked = s.peer[p].choked
        /\ pd.grabbed = s.peer[p].grabbed /\ pd.reqs = s.peer[p].reqs /\ pd.wait = a
    BY <1>1, PeerIs DEF AtPeer
  <1> HIDE DEF pd
  <1>4. /\ Rest(s, v) /\ v.cur = s.cur /\ v.peer[p] = pd
        /\ \A q \in Peers \ {p} : v.peer[q] = s.peer[q]
    BY <1>3, PeerEdit
  <1>5. CancelRequest(s, p, r) = u
    <2>1. v.peer[p].reqs = s.peer[p].reqs
      BY <1>3, <1>4
    <2>2. CancelRequest(s, p, r) = [v EXCEPT !.peer[p].reqs = v.peer[p].reqs \ {r}]
      BY DEF CancelRequest, a, pd
    <2> HIDE DEF v
    <2> QED BY <2>1, <2>2
  <1> HIDE DEF v, b
  <1>6. /\ e \in AtPeer /\ e.state = pd.state /\ e.choked = pd.choked
        /\ e.grabbed = pd.grabbed /\ e.reqs = b /\ e.wait = pd.wait
    BY <1>2, <1>3, <1>4 DEF AtPeer
  <1> HIDE DEF e
  <1>7. /\ Rest(v, u) /\ u.cur = v.cur /\ u.peer[p] = e
        /\ \A q \in Peers \ {p} : u.peer[q] = v.peer[q]
    BY <1>4, <1>6, PeerEdit DEF Rest
  <1> HIDE DEF u
  <1>8. AtOne(s, u, p) /\ u.peer[p].grabbed = s.peer[p].grabbed
    BY <1>3, <1>4, <1>6, <1>7 DEF AtOne, Rest
  <1>9. Asks(u, p) = Asks(s, p) \ {r}
    BY <1>1, <1>3, <1>6, <1>7 DEF Asks, b
  <1> QED BY <1>5, <1>8, <1>9

LEMMA UpdatePDIs ==
  ASSUME NEW s \in Mem, NEW p \in Peers
  PROVE  LET u == UpdatePD(s, p)
         IN  /\ AtOne(s, u, p) /\ u.peer[p].grabbed = s.peer[p].grabbed
             /\ Asks(u, p) = Asks(s, p)
  <1> DEFINE pd == s.peer[p]
             room == MaxReqs - Cardinality(pd.reqs)
             k == Max({0, Min({room, Len(pd.wait)})})
             go == ToSet(SubSeq(pd.wait, 1, k))
             left == SubSeq(pd.wait, k + 1, Len(pd.wait))
             a == pd.reqs \cup go
             b == pd.sent \cup go
             e == [pd EXCEPT !.reqs = a]
             v == [s EXCEPT !.peer[p] = e]
             f == [e EXCEPT !.sent = b]
             w == [v EXCEPT !.peer[p] = f]
             g == [f EXCEPT !.wait = left]
             u == [w EXCEPT !.peer[p] = g]
  <1>1. k \in 0 .. Len(pd.wait)
    <2>1. pd.reqs \in SUBSET Requests /\ pd.wait \in Seq(Requests)
      BY PeerIs
    <2> DEFINE n == Len(pd.wait)
               x == Min({room, n})
    <2>2. room \in Int /\ n \in Nat /\ n \in Int
      BY <2>1, Sizes, FiniteRequests
    <2> HIDE DEF room, n
    <2>3. x = IF room <= n THEN room ELSE n
      BY <2>2, MaxOfTwo
    <2> HIDE DEF x
    <2>4. x \in Int /\ x <= n
      BY <2>2, <2>3
    <2>5. Max({0, x}) = IF 0 >= x THEN 0 ELSE x
      BY <2>4, MaxOfTwo
    <2>6. k = Max({0, x})
      BY DEF x, n
    <2> HIDE DEF k
    <2>7. k \in 0 .. n
      BY <2>2, <2>4, <2>5, <2>6
    <2> QED BY <2>7 DEF n
  <1>2. left \in Seq(Requests) /\ go \cup ToSet(left) = ToSet(pd.wait) /\ go \in SUBSET Requests
    <2>1. pd.wait \in Seq(Requests) /\ ToSet(pd.wait) \subseteq Requests
      BY PeerIs DEF ToSet
    <2> HIDE DEF k, pd
    <2>2. left \in Seq(Requests) /\ go \cup ToSet(left) = ToSet(pd.wait)
      BY <1>1, <2>1, SplitFacts
    <2> HIDE DEF go, left
    <2> QED BY <2>1, <2>2
  <1>3. a \in SUBSET Requests /\ b \in SUBSET Requests
    <2> HIDE DEF go
    <2> QED BY <1>2, PeerIs
  <1>4. Asks(s, p) = a \cup ToSet(left)
    <2> HIDE DEF go, left
    <2> QED BY <1>2 DEF Asks
  <1> HIDE DEF k, go, left
  <1>5. /\ e \in AtPeer /\ e.state = pd.state /\ e.choked = pd.choked /\ e.wait = pd.wait
        /\ e.grabbed = pd.grabbed /\ e.reqs = a /\ e.sent = pd.sent
    <2> HIDE DEF a
    <2> QED BY <1>3, PeerIs DEF AtPeer
  <1> HIDE DEF e
  <1>6. /\ Rest(s, v) /\ v.cur = s.cur /\ v.peer[p] = e
        /\ \A q \in Peers \ {p} : v.peer[q] = s.peer[q]
    BY <1>5, PeerEdit
  <1> HIDE DEF v
  <1>7. /\ f \in AtPeer /\ f.state = e.state /\ f.choked = e.choked /\ f.wait = e.wait
        /\ f.grabbed = e.grabbed /\ f.reqs = e.reqs
    <2> HIDE DEF b
    <2> QED BY <1>3, <1>5 DEF AtPeer
  <1> HIDE DEF f
  <1>8. /\ Rest(v, w) /\ w.cur = v.cur /\ w.peer[p] = f
        /\ \A q \in Peers \ {p} : w.peer[q] = v.peer[q]
    BY <1>6, <1>7, PeerEdit DEF Rest
  <1> HIDE DEF w
  <1>9. /\ g \in AtPeer /\ g.state = f.state /\ g.choked = f.choked /\ g.wait = left
        /\ g.grabbed = f.grabbed /\ g.reqs = f.reqs
    BY <1>2, <1>7 DEF AtPeer
  <1> HIDE DEF g
  <1>10. /\ Rest(w, u) /\ u.cur = w.cur /\ u.peer[p] = g
         /\ \A q \in Peers \ {p} : u.peer[q] = w.peer[q]
    BY <1>8, <1>9, PeerEdit DEF Rest
  <1>11. UpdatePD(s, p) = u
    <2>1. [s EXCEPT !.peer[p].reqs = @ \cup go, !.peer[p].sent = @ \cup go,
                    !.peer[p].wait = SubSeq(@, k + 1, Len(@))] = u
      <3>1. v = [s EXCEPT !.peer[p].reqs = a]
        BY DEF v, e
      <3>2. w = [v EXCEPT !.peer[p].sent = b]
        BY <1>6 DEF w, f
      <3>3. u = [w EXCEPT !.peer[p].wait = left]
        BY <1>8 DEF g
      <3>4. /\ a = s.peer[p].reqs \cup go /\ b = s.peer[p].sent \cup go
            /\ left = SubSeq(s.peer[p].wait, k + 1, Len(s.peer[p].wait))
        BY DEF b, left
      <3> HIDE DEF u, k, go, a, left
      <3> QED BY <3>1, <3>2, <3>3, <3>4
    <2> QED BY <2>1 DEF UpdatePD, k, go
  <1> HIDE DEF u
  <1>12. AtOne(s, u, p) /\ u.peer[p].grabbed = s.peer[p].grabbed
    BY <1>5, <1>6, <1>7, <1>8, <1>9, <1>10 DEF AtOne, Rest
  <1>13. Asks(u, p) = Asks(s, p)
    BY <1>4, <1>5, <1>7, <1>9, <1>10 DEF Asks
  <1> QED BY <1>11, <1>12, <1>13

LEMMA DownloadIs ==
  ASSUME NEW s \in Mem, NEW p \in Peers, NEW r \in Requests
  PROVE  LET u == Download(s, p, r)
         IN  /\ AtOne(s, u, p) /\ u.peer[p].grabbed = s.peer[p].grabbed
             /\ Asks(u, p) = Asks(s, p) \cup {r}
  <1> DEFINE a == Append(s.peer[p].wait, r)
             pd == [s.peer[p] EXCEPT !.wait = a]
             v == [s EXCEPT !.peer[p] = pd]
             u == UpdatePD(v, p)
  <1>1. a \in Seq(Requests) /\ ToSet(a) = ToSet(s.peer[p].wait) \cup {r}
    BY PeerIs, AppendFacts
  <1>2. Download(s, p, r) = u
    BY DEF Download
  <1> HIDE DEF a
  <1>3. /\ pd \in AtPeer /\ pd.state = s.peer[p].state /\ pd.choked = s.peer[p].choked
        /\ pd.grabbed = s.peer[p].grabbed /\ pd.reqs = s.peer[p].reqs /\ pd.wait = a
    BY <1>1, PeerIs DEF AtPeer
  <1> HIDE DEF pd
  <1>4. /\ Rest(s, v) /\ v.cur = s.cur /\ v.peer[p] = pd
        /\ \A q \in Peers \ {p} : v.peer[q] = s.peer[q]
    BY <1>3, PeerEdit
  <1> HIDE DEF v
  <1>5. /\ AtOne(v, u, p) /\ u.peer[p].grabbed = v.peer[p].grabbed
        /\ Asks(u, p) = Asks(v, p)
    BY <1>4, UpdatePDIs DEF Rest
  <1> HIDE DEF u
  <1>6. AtOne(s, v, p) /\ Asks(v, p) = Asks(s, p) \cup {r}
    BY <1>1, <1>3, <1>4 DEF AtOne, Asks
  <1>7. AtOne(s, u, p)
    BY <1>5, <1>6, AtOneTwice
  <1> QED BY <1>2, <1>3, <1>4, <1>5, <1>6, <1>7

Lower(n) == IF n > 0 THEN n - 1 ELSE 0

LEMMA ReleaseIs ==
  ASSUME NEW s \in Mem, NEW p \in Peers
  PROVE  LET u == Release(s, p)
         IN  /\ AtOne(s, u, p) /\ u.peer[p].grabbed = Lower(s.peer[p].grabbed)
             /\ Asks(u, p) = Asks(s, p)
  <1> DEFINE a == Max({0, s.peer[p].grabbed - 1})
             pd == [s.peer[p] EXCEPT !.grabbed = a]
             u == [s EXCEPT !.peer[p] = pd]
  <1>0. s.peer[p].grabbed \in Nat
    BY PeerIs
  <1>1. a \in Nat /\ a = Lower(s.peer[p].grabbed)
    <2>1. s.peer[p].grabbed - 1 \in Int /\ 0 \in Int
      BY <1>0
    <2>2. a = IF 0 >= s.peer[p].grabbed - 1 THEN 0 ELSE s.peer[p].grabbed - 1
      BY <2>1, MaxOfTwo
    <2> HIDE DEF a
    <2> QED BY <1>0, <2>2 DEF Lower
  <1>2. Release(s, p) = u
    BY DEF Release
  <1> HIDE DEF a
  <1>3. /\ pd \in AtPeer /\ pd.state = s.peer[p].state /\ pd.choked = s.peer[p].choked
        /\ pd.grabbed = a /\ pd.reqs = s.peer[p].reqs /\ pd.wait = s.peer[p].wait
    BY <1>1, PeerIs DEF AtPeer
  <1> HIDE DEF pd
  <1>4. /\ Rest(s, u) /\ u.cur = s.cur /\ u.peer[p] = pd
        /\ \A q \in Peers \ {p} : u.peer[q] = s.peer[q]
    BY <1>3, PeerEdit
  <1> HIDE DEF u
  <1> QED BY <1>1, <1>2, <1>3, <1>4 DEF AtOne, Asks

\* What a download knows of the data of its chunk is the same
Core(s, u, c) ==
    /\ u.cur[c].got = s.cur[c].got /\ u.cur[c].hashed = s.cur[c].hashed
    /\ u.cur[c].right = s.cur[c].right /\ u.cur[c].from = s.cur[c].from

\* At most what chunk c and peer p know of each other is different
Touched(s, u, c, p) ==
    /\ Rest(s, u) /\ Downloads(u) = Downloads(s)
    /\ \A d \in Downloads(s) \ {c} : u.cur[d] = s.cur[d]
    /\ \A q \in Peers \ {p} : u.peer[q] = s.peer[q] /\ u.cur[c].ds[q] = s.cur[c].ds[q]
    /\ u.peer[p].state = s.peer[p].state /\ u.peer[p].choked = s.peer[p].choked
    /\ Core(s, u, c)

LEMMA TouchedTwice ==
  ASSUME NEW s, NEW u, NEW v, NEW c, NEW p, Touched(s, u, c, p), Touched(u, v, c, p)
  PROVE  Touched(s, v, c, p)
  BY DEF Touched, Core, Rest

LEMMA TouchedSame ==
  ASSUME NEW s \in Mem, NEW c, NEW p
  PROVE  Touched(s, s, c, p)
  BY DEF Touched, Core, Rest

LEMMA AtOneTouched ==
  ASSUME NEW s, NEW u, NEW c, NEW p, AtOne(s, u, p)
  PROVE  Touched(s, u, c, p)
  BY DEF Touched, Core, AtOne, Downloads

LEMMA DsEdit ==
  ASSUME NEW s \in Mem, NEW c \in Downloads(s), NEW p \in Peers, NEW X \in SUBSET Pieces
  PROVE  LET u == [s EXCEPT !.cur[c].ds[p] = X]
         IN  /\ Touched(s, u, c, p) /\ u.peer = s.peer
             /\ u.cur[c].pds = s.cur[c].pds /\ u.cur[c].ds[p] = X
  <1> DEFINE ds == [s.cur[c].ds EXCEPT ![p] = X]
             cd == [s.cur[c] EXCEPT !.ds = ds]
             u == [s EXCEPT !.cur[c] = cd]
  <1>1. /\ ds \in [Peers -> SUBSET Pieces] /\ ds[p] = X
        /\ \A q \in Peers \ {p} : ds[q] = s.cur[c].ds[q]
    BY CurIs
  <1>2. [s EXCEPT !.cur[c].ds[p] = X] = u
    OBVIOUS
  <1> HIDE DEF ds
  <1>3. /\ cd \in Downloading /\ cd.got = s.cur[c].got /\ cd.hashed = s.cur[c].hashed
        /\ cd.right = s.cur[c].right /\ cd.from = s.cur[c].from
        /\ cd.pds = s.cur[c].pds /\ cd.ds = ds
    BY <1>1, CurIs DEF Downloading
  <1> HIDE DEF cd
  <1>4. /\ Rest(s, u) /\ u.peer = s.peer /\ u.cur[c] = cd /\ Downloads(u) = Downloads(s)
        /\ \A d \in Downloads(s) \ {c} : u.cur[d] = s.cur[d]
    BY <1>3, CurEdit
  <1> HIDE DEF u
  <1> QED BY <1>1, <1>2, <1>3, <1>4 DEF Touched, Core

WithPds(s, c, q) == [s EXCEPT !.cur[c].pds = q]

LEMMA PdsEdit ==
  ASSUME NEW s \in Mem, NEW c \in Downloads(s), NEW p \in Peers, NEW q \in Seq(Peers)
  PROVE  LET u == WithPds(s, c, q)
         IN  /\ Touched(s, u, c, p) /\ u.peer = s.peer
             /\ u.cur[c].pds = q /\ u.cur[c].ds = s.cur[c].ds
  <1> DEFINE cd == [s.cur[c] EXCEPT !.pds = q]
             u == [s EXCEPT !.cur[c] = cd]
  <1>1. WithPds(s, c, q) = u
    BY DEF WithPds
  <1>2. /\ cd \in Downloading /\ cd.got = s.cur[c].got /\ cd.hashed = s.cur[c].hashed
        /\ cd.right = s.cur[c].right /\ cd.from = s.cur[c].from
        /\ cd.pds = q /\ cd.ds = s.cur[c].ds
    BY CurIs DEF Downloading
  <1> HIDE DEF cd
  <1>3. /\ Rest(s, u) /\ u.peer = s.peer /\ u.cur[c] = cd /\ Downloads(u) = Downloads(s)
        /\ \A d \in Downloads(s) \ {c} : u.cur[d] = s.cur[d]
    BY <1>2, CurEdit
  <1> HIDE DEF u
  <1> QED BY <1>1, <1>2, <1>3 DEF Touched, Core

LEMMA BestIs ==
  ASSUME NEW s \in Mem, NEW c \in Downloads(s), NEW p \in Peers, Candidates(s.cur[c], p) # {}
  PROVE  BestPiece(s.cur[c], p) \in Candidates(s.cur[c], p)
  <1> DEFINE cd == s.cur[c]
             C == Candidates(cd, p)
             L == {AskedOf(cd, i) : i \in C}
             B == {i \in C : AskedOf(cd, i) = Min(L)}
  <1>1. C \subseteq Nat /\ C # {}
    BY DEF Candidates, Pieces
  <1>2. \A i \in C : AskedOf(cd, i) \in Nat
    <2>1. \A i : IsFiniteSet({q \in Peers : i \in cd.ds[q]})
      <3> SUFFICES ASSUME NEW i PROVE IsFiniteSet({q \in Peers : i \in cd.ds[q]})
        OBVIOUS
      <3>1. {q \in Peers : i \in cd.ds[q]} \subseteq Peers /\ IsFiniteSet(Peers)
        BY DownloaderAssumption
      <3> QED BY <3>1, FS_Subset
    <2> QED BY <2>1, FS_CardinalityType DEF AskedOf
  <1> HIDE DEF C
  <1>3. L \subseteq Nat /\ L # {}
    BY <1>1, <1>2
  <1>4. Min(L) \in L
    <2> HIDE DEF L
    <2> QED BY <1>3, MinIn
  <1>5. B \subseteq Nat /\ B # {} /\ B \subseteq C
    BY <1>1, <1>4
  <1>6. Min(B) \in B
    <2> HIDE DEF B
    <2> QED BY <1>5, MinIn
  <1>7. BestPiece(cd, p) = Min(B)
    BY DEF BestPiece, C
  <1> QED BY <1>5, <1>6, <1>7 DEF C

\* A peer that is not choked may get one more request, for a piece not asked of it
LEMMA SendRequestIs ==
  ASSUME NEW s \in Mem, NEW c \in Downloads(s), NEW p \in Peers
  PROVE  LET u == SendRequest(s, c, p)
         IN  /\ Touched(s, u, c, p) /\ u.peer[p].grabbed = s.peer[p].grabbed
             /\ u.cur[c].pds = s.cur[c].pds
             /\ \E N \in SUBSET (Pieces \ s.cur[c].ds[p]) :
                   /\ u.cur[c].ds[p] = s.cur[c].ds[p] \cup N
                   /\ Asks(u, p) = Asks(s, p) \cup ({c} \X N)
                   /\ s.peer[p].choked => N = {}
  <1> DEFINE cd == s.cur[c]
             i == BestPiece(cd, p)
             d == Download(s, p, <<c, i>>)
             X == s.cur[c].ds[p] \cup {i}
             t == [d EXCEPT !.cur[c].ds[p] = X]
             e == [t.peer[p] EXCEPT !.nearly = TRUE]
             w == [t EXCEPT !.peer[p] = e]
             Idles == s.peer[p].choked \/ Len(s.peer[p].wait) >= MaxWait \/ Candidates(cd, p) = {}
  <1>1. CASE Idles
    <2>1. SendRequest(s, c, p) = s
      BY <1>1 DEF SendRequest
    <2>2. Touched(s, s, c, p)
      BY TouchedSame
    <2>3. {} \in SUBSET (Pieces \ s.cur[c].ds[p]) /\ Asks(s, p) = Asks(s, p) \cup ({c} \X {})
      OBVIOUS
    <2> QED BY <2>1, <2>2, <2>3
  <1>2. CASE ~Idles
    <2>1. i \in Pieces /\ i \notin s.cur[c].ds[p] /\ ~s.peer[p].choked
      BY <1>2, BestIs DEF Candidates
    <2>2. c \in Chunks /\ s.cur[c].ds[p] \in SUBSET Pieces
      BY CurIs
    <2>3. <<c, i>> \in Requests /\ X \in SUBSET Pieces
      BY <2>1, <2>2 DEF Requests
    <2> HIDE DEF i
    <2>4. /\ AtOne(s, d, p) /\ d.peer[p].grabbed = s.peer[p].grabbed
          /\ Asks(d, p) = Asks(s, p) \cup {<<c, i>>}
      BY <2>3, DownloadIs
    <2>5. d \in Mem /\ d.cur = s.cur /\ Downloads(d) = Downloads(s)
      BY <2>4 DEF AtOne, Rest, Downloads
    <2>6. SendRequest(s, c, p) = IF NumPieces - Cardinality(cd.got) = 1 THEN w ELSE t
      <3>1. SendRequest(s, c, p) =
              IF NumPieces - Cardinality(cd.got) = 1
              THEN [[d EXCEPT !.cur[c].ds[p] = d.cur[c].ds[p] \cup {i}] EXCEPT !.peer[p].nearly = TRUE]
              ELSE [d EXCEPT !.cur[c].ds[p] = d.cur[c].ds[p] \cup {i}]
        BY <1>2 DEF SendRequest, i
      <3> HIDE DEF d
      <3> QED BY <2>5, <3>1
    <2> HIDE DEF d, X
    <2>7. /\ Touched(d, t, c, p) /\ t.peer = d.peer
          /\ t.cur[c].pds = d.cur[c].pds /\ t.cur[c].ds[p] = X
      BY <2>3, <2>5, DsEdit
    <2>8. t \in Mem
      BY <2>7 DEF Touched, Rest
    <2> HIDE DEF t
    <2>9. /\ e \in AtPeer /\ e.state = t.peer[p].state /\ e.choked = t.peer[p].choked
          /\ e.grabbed = t.peer[p].grabbed /\ e.reqs = t.peer[p].reqs /\ e.wait = t.peer[p].wait
      BY <2>8, PeerIs DEF AtPeer
    <2> HIDE DEF e
    <2>10. /\ Rest(t, w) /\ w.cur = t.cur /\ w.peer[p] = e
           /\ \A q \in Peers \ {p} : w.peer[q] = t.peer[q]
      BY <2>8, <2>9, PeerEdit
    <2> HIDE DEF w
    <2>11. AtOne(t, w, p) /\ Asks(w, p) = Asks(t, p) /\ w.peer[p].grabbed = t.peer[p].grabbed
      BY <2>9, <2>10 DEF AtOne, Asks
    <2>12. Touched(s, t, c, p) /\ Touched(s, w, c, p)
      <3>1. Touched(s, d, c, p) /\ Touched(t, w, c, p)
        BY <2>4, <2>11, AtOneTouched
      <3> QED BY <2>7, <3>1, TouchedTwice
    <2>13. Asks(t, p) = Asks(s, p) \cup ({c} \X {i})
      BY <2>4, <2>7 DEF Asks
    <2> DEFINE u == SendRequest(s, c, p)
    <2>14. u = t \/ u = w
      BY <2>6
    <2> HIDE DEF u
    <2>15. /\ Touched(s, u, c, p) /\ u.peer[p].grabbed = s.peer[p].grabbed
           /\ u.cur[c].pds = s.cur[c].pds
           /\ u.cur[c].ds[p] = X /\ Asks(u, p) = Asks(s, p) \cup ({c} \X {i})
      BY <2>4, <2>5, <2>7, <2>10, <2>11, <2>12, <2>13, <2>14
    <2> QED BY <2>1, <2>15 DEF X, u
  <1> QED BY <1>1, <1>2

\* The requests for pieces of c that were asked of p are taken back
CancelThese(s, c, p, S) == FoldSet(LAMBDA i, t : CancelRequest(t, p, <<c, i>>), s, S)

LEMMA CancelAskedIs ==
  ASSUME NEW s \in Mem, NEW c, NEW p \in Peers, NEW S, S \subseteq Pieces
  PROVE  LET u == CancelThese(s, c, p, S)
         IN  /\ AtOne(s, u, p) /\ u.peer[p].grabbed = s.peer[p].grabbed
             /\ Asks(u, p) = Asks(s, p) \ ({c} \X S)
  <1> DEFINE u == CancelThese(s, c, p, S)
             Less(T) == {v \in Mem : /\ AtOne(s, v, p) /\ v.peer[p].grabbed = s.peer[p].grabbed
                                     /\ Asks(v, p) = Asks(s, p) \ ({c} \X T)}
             I == [T \in SUBSET S |-> Less(T)]
  <1>1. u = FCancel!SetFold(c, p, s, S)
    BY DEF CancelThese, FoldSet, MapThenFoldSet, FCancel!SetFold, OpCancel
  <1>2. FCancel!IsFiniteSet(S)
    <2>1. IsFiniteSet(S)
      BY FiniteRequests, FS_Subset
    <2> QED BY <2>1 DEF IsFiniteSet, FCancel!IsFiniteSet
  <1>3. s \in I[{}]
    BY AtOneSame
  <1>4. \A T \in SUBSET S : \A i \in S \ T : \A v \in I[T] : OpCancel(c, p, i, v) \in I[T \cup {i}]
    <2> SUFFICES ASSUME NEW T \in SUBSET S, NEW i \in S \ T, NEW v \in Less(T)
                 PROVE  CancelRequest(v, p, <<c, i>>) \in Less(T \cup {i})
      BY DEF OpCancel
    <2> DEFINE w == CancelRequest(v, p, <<c, i>>)
    <2>1. v \in Mem /\ AtOne(s, v, p) /\ v.peer[p].grabbed = s.peer[p].grabbed
          /\ Asks(v, p) = Asks(s, p) \ ({c} \X T)
      OBVIOUS
    <2>2. /\ AtOne(v, w, p) /\ w.peer[p].grabbed = v.peer[p].grabbed
          /\ Asks(w, p) = Asks(v, p) \ {<<c, i>>}
      BY <2>1, CancelIs
    <2> HIDE DEF w
    <2>3. AtOne(s, w, p) /\ w \in Mem
      BY <2>1, <2>2, AtOneTwice DEF AtOne, Rest
    <2>4. Asks(w, p) = Asks(s, p) \ ({c} \X (T \cup {i}))
      BY <2>1, <2>2
    <2>5. w.peer[p].grabbed = s.peer[p].grabbed
      BY <2>1, <2>2
    <2>6. w \in Less(T \cup {i})
      BY <2>3, <2>4, <2>5
    <2> QED BY <2>6 DEF w
  <1> HIDE DEF I
  <1>5. FCancel!SetFold(c, p, s, S) \in I[S]
    BY <1>2, <1>3, <1>4, FCancel!SetFoldKeeps
  <1>6. u \in Less(S)
    BY <1>1, <1>5 DEF I
  <1> HIDE DEF u
  <1>7. /\ AtOne(s, u, p) /\ u.peer[p].grabbed = s.peer[p].grabbed
        /\ Asks(u, p) = Asks(s, p) \ ({c} \X S)
    BY <1>6
  <1> QED BY <1>7 DEF u

LEMMA SendCancelsIs ==
  ASSUME NEW s \in Mem, NEW c \in Downloads(s), NEW p \in Peers
  PROVE  LET u == SendCancels(s, c, p)
         IN  /\ Touched(s, u, c, p) /\ u.peer[p].grabbed = s.peer[p].grabbed
             /\ u.cur[c].pds = s.cur[c].pds /\ u.cur[c].ds[p] = {}
             /\ Asks(u, p) = Asks(s, p) \ ({c} \X s.cur[c].ds[p])
  <1> DEFINE S == s.cur[c].ds[p]
             none == {}
             v == CancelThese(s, c, p, S)
             u == [v EXCEPT !.cur[c].ds[p] = none]
  <1>1. SendCancels(s, c, p) = u
    BY DEF SendCancels, CancelThese
  <1>2. S \subseteq Pieces
    BY CurIs
  <1>3. /\ AtOne(s, v, p) /\ v.peer[p].grabbed = s.peer[p].grabbed
        /\ Asks(v, p) = Asks(s, p) \ ({c} \X S)
    <2> HIDE DEF S
    <2> QED BY <1>2, CancelAskedIs
  <1> HIDE DEF v
  <1>4. v \in Mem /\ v.cur = s.cur /\ c \in Downloads(v)
    BY <1>3 DEF AtOne, Rest, Downloads
  <1>5. /\ Touched(v, u, c, p) /\ u.peer = v.peer
        /\ u.cur[c].pds = v.cur[c].pds /\ u.cur[c].ds[p] = none
    <2>1. none \in SUBSET Pieces
      OBVIOUS
    <2> HIDE DEF none
    <2> QED BY <1>4, <2>1, DsEdit
  <1> HIDE DEF u
  <1>6. Touched(s, u, c, p)
    BY <1>3, <1>5, AtOneTouched, TouchedTwice
  <1> QED BY <1>1, <1>3, <1>4, <1>5, <1>6 DEF Asks

LEMMA DropIs ==
  ASSUME NEW s \in Mem, NEW c \in Downloads(s), NEW p \in Peers
  PROVE  LET u == Drop(s, c, p)
         IN  /\ Touched(s, u, c, p) /\ u.peer = s.peer
             /\ u.cur[c].pds = Without(s.cur[c].pds, p) /\ u.cur[c].ds[p] = {}
  <1> DEFINE none == {}
             v == [s EXCEPT !.cur[c].ds[p] = none]
             q == Without(s.cur[c].pds, p)
             u == WithPds(v, c, q)
  <1>1. /\ Touched(s, v, c, p) /\ v.peer = s.peer
        /\ v.cur[c].pds = s.cur[c].pds /\ v.cur[c].ds[p] = none
    <2>1. none \in SUBSET Pieces
      OBVIOUS
    <2> HIDE DEF none
    <2> QED BY <2>1, DsEdit
  <1>2. Drop(s, c, p) = u
    <2>1. Drop(s, c, p) = [v EXCEPT !.cur[c].pds = Without(v.cur[c].pds, p)]
      BY DEF Drop
    <2> HIDE DEF v
    <2> QED BY <1>1, <2>1 DEF WithPds
  <1> HIDE DEF v
  <1>3. v \in Mem /\ c \in Downloads(v) /\ q \in Seq(Peers)
    BY <1>1, CurIs, WithoutFacts DEF Touched, Rest
  <1> HIDE DEF q
  <1>4. /\ Touched(v, u, c, p) /\ u.peer = v.peer
        /\ u.cur[c].pds = q /\ u.cur[c].ds = v.cur[c].ds
    BY <1>3, PdsEdit
  <1> HIDE DEF u
  <1>5. Touched(s, u, c, p)
    BY <1>1, <1>4, TouchedTwice
  <1> QED BY <1>1, <1>2, <1>4, <1>5 DEF q

\* A peer is released from a chunk: its requests are cancelled, and it is dropped
LetGo(s, c, p) == Drop(SendCancels(Release(s, p), c, p), c, p)

LEMMA LetGoIs ==
  ASSUME NEW s \in Mem, NEW c \in Downloads(s), NEW p \in Peers
  PROVE  LET u == LetGo(s, c, p)
         IN  /\ Touched(s, u, c, p) /\ u.peer[p].grabbed = Lower(s.peer[p].grabbed)
             /\ u.cur[c].pds = Without(s.cur[c].pds, p) /\ u.cur[c].ds[p] = {}
             /\ Asks(u, p) = Asks(s, p) \ ({c} \X s.cur[c].ds[p])
  <1> DEFINE v == Release(s, p)
             w == SendCancels(v, c, p)
             u == Drop(w, c, p)
  <1>1. /\ AtOne(s, v, p) /\ v.peer[p].grabbed = Lower(s.peer[p].grabbed)
        /\ Asks(v, p) = Asks(s, p)
    BY ReleaseIs
  <1> HIDE DEF v
  <1>2. v \in Mem /\ v.cur = s.cur /\ c \in Downloads(v)
    BY <1>1 DEF AtOne, Rest, Downloads
  <1>3. /\ Touched(v, w, c, p) /\ w.peer[p].grabbed = v.peer[p].grabbed
        /\ w.cur[c].pds = v.cur[c].pds /\ w.cur[c].ds[p] = {}
        /\ Asks(w, p) = Asks(v, p) \ ({c} \X v.cur[c].ds[p])
    BY <1>2, SendCancelsIs
  <1> HIDE DEF w
  <1>4. w \in Mem /\ c \in Downloads(w)
    BY <1>2, <1>3 DEF Touched, Rest
  <1>5. /\ Touched(w, u, c, p) /\ u.peer = w.peer
        /\ u.cur[c].pds = Without(w.cur[c].pds, p) /\ u.cur[c].ds[p] = {}
    BY <1>4, DropIs
  <1> HIDE DEF u
  <1>6. Touched(s, u, c, p)
    BY <1>1, <1>3, <1>5, AtOneTouched, TouchedTwice
  <1>7. Asks(u, p) = Asks(w, p)
    BY <1>5 DEF Asks
  <1>8. LetGo(s, c, p) = u
    BY DEF LetGo, u, v, w
  <1> QED BY <1>1, <1>2, <1>3, <1>5, <1>6, <1>7, <1>8

LEMMA CancelPieceIs ==
  ASSUME NEW s \in Mem, NEW c \in Downloads(s), NEW p \in Peers, NEW i \in Pieces
  PROVE  LET u == CancelPiece(s, c, i, p)
         IN  /\ Touched(s, u, c, p) /\ u.peer[p].grabbed = s.peer[p].grabbed
             /\ u.cur[c].pds = s.cur[c].pds /\ u.cur[c].ds[p] = s.cur[c].ds[p] \ {i}
             /\ i \notin s.cur[c].ds[p] => u = s
             /\ i \in s.cur[c].ds[p] => Asks(u, p) = Asks(s, p) \ {<<c, i>>}
  <1>1. CASE i \notin s.cur[c].ds[p]
    <2>1. CancelPiece(s, c, i, p) = s
      BY <1>1 DEF CancelPiece
    <2>2. s.cur[c].ds[p] \ {i} = s.cur[c].ds[p]
      BY <1>1
    <2> QED BY <1>1, <2>1, <2>2, TouchedSame
  <1>2. CASE i \in s.cur[c].ds[p]
    <2> DEFINE v == CancelRequest(s, p, <<c, i>>)
               X == s.cur[c].ds[p] \ {i}
               u == [v EXCEPT !.cur[c].ds[p] = X]
    <2>1. /\ AtOne(s, v, p) /\ v.peer[p].grabbed = s.peer[p].grabbed
          /\ Asks(v, p) = Asks(s, p) \ {<<c, i>>}
      BY CancelIs
    <2>2. CancelPiece(s, c, i, p) = [v EXCEPT !.cur[c].ds[p] = v.cur[c].ds[p] \ {i}]
      BY <1>2 DEF CancelPiece
    <2> HIDE DEF v
    <2>3. v \in Mem /\ v.cur = s.cur /\ c \in Downloads(v)
      BY <2>1 DEF AtOne, Rest, Downloads
    <2>4. X \in SUBSET Pieces
      BY CurIs
    <2>5. /\ Touched(v, u, c, p) /\ u.peer = v.peer
          /\ u.cur[c].pds = v.cur[c].pds /\ u.cur[c].ds[p] = X
      <3> HIDE DEF X
      <3> QED BY <2>3, <2>4, DsEdit
    <2>6. CancelPiece(s, c, i, p) = u
      BY <2>2, <2>3
    <2> HIDE DEF u
    <2>7. Touched(s, u, c, p)
      BY <2>1, <2>5, AtOneTouched, TouchedTwice
    <2> QED BY <1>2, <2>1, <2>3, <2>5, <2>6, <2>7 DEF Asks
  <1> QED BY <1>1, <1>2

LEMMA MaxIn ==
  ASSUME NEW n \in Nat, NEW S, S \subseteq 0 .. n, S # {}
  PROVE  Max(S) \in S /\ \A y \in S : Max(S) >= y
  <1> DEFINE D == {n - x : x \in S}
  <1>1. D \subseteq Nat /\ D # {}
    <2>1. \A x \in S : n - x \in Nat
      OBVIOUS
    <2>2. PICK x \in S : TRUE
      OBVIOUS
    <2>3. n - x \in D
      BY <2>2
    <2> QED BY <2>1, <2>3
  <1>2. PICK d \in D : \A e \in D : d <= e
    <2> HIDE DEF D
    <2> QED BY <1>1, FWithout!LeastOf
  <1>3. PICK x \in S : d = n - x
    OBVIOUS
  <1>4. \A y \in S : n - y \in D /\ x >= y
    BY <1>2, <1>3
  <1> QED BY <1>3, <1>4 DEF Max

\* The pieces are hashed up to the first one that is missing
LEMMA HashIs ==
  ASSUME NEW s \in Mem, NEW c \in Downloads(s)
  PROVE  LET u == UpdateHash(s, c)
             n == u.cur[c].hashed
         IN  /\ Rest(s, u) /\ u.peer = s.peer /\ Downloads(u) = Downloads(s)
             /\ \A d \in Downloads(s) \ {c} : u.cur[d] = s.cur[d]
             /\ u.cur[c].got = s.cur[c].got /\ u.cur[c].from = s.cur[c].from
             /\ u.cur[c].pds = s.cur[c].pds /\ u.cur[c].ds = s.cur[c].ds
             /\ \A i \in 0 .. n - 1 : i \in s.cur[c].got
             /\ s.cur[c].got = Pieces => n = NumPieces
             /\ u.cur[c].right <=> /\ s.cur[c].right
                                   /\ \A i \in s.cur[c].hashed .. n - 1 : s.disk[c][i] = "good"
  <1> DEFINE K == {k \in 0 .. NumPieces : \A i \in 0 .. k - 1 : i \in s.cur[c].got}
             n == Max(K)
             b == s.cur[c].right /\ \A i \in s.cur[c].hashed .. n - 1 : s.disk[c][i] = "good"
             x == [s.cur[c] EXCEPT !.hashed = n]
             v == [s EXCEPT !.cur[c] = x]
             y == [x EXCEPT !.right = b]
             u == [v EXCEPT !.cur[c] = y]
  <1>1. NumPieces \in Nat
    BY Sizes
  <1>2. n \in K /\ \A k \in K : n >= k
    <2>1. 0 \in K
      BY <1>1
    <2>2. K \subseteq 0 .. NumPieces /\ K # {}
      BY <2>1
    <2> HIDE DEF K
    <2> QED BY <1>1, <2>2, MaxIn
  <1>3. n \in 0 .. NumPieces /\ \A i \in 0 .. n - 1 : i \in s.cur[c].got
    BY <1>2
  <1>4. s.cur[c].got = Pieces => n = NumPieces
    <2> SUFFICES ASSUME s.cur[c].got = Pieces PROVE n = NumPieces
      OBVIOUS
    <2>1. NumPieces \in K
      BY <1>1 DEF Pieces
    <2>2. n >= NumPieces
      BY <1>2, <2>1
    <2> HIDE DEF n
    <2> QED BY <1>1, <1>3, <2>2
  <1>5. UpdateHash(s, c) =
          [v EXCEPT !.cur[c].right = v.cur[c].right
                       /\ \A i \in s.cur[c].hashed .. n - 1 : s.disk[c][i] = "good"]
    BY DEF UpdateHash
  <1> HIDE DEF n
  <1>6. /\ x \in Downloading /\ x.got = s.cur[c].got /\ x.hashed = n
        /\ x.right = s.cur[c].right /\ x.from = s.cur[c].from
        /\ x.pds = s.cur[c].pds /\ x.ds = s.cur[c].ds
    BY <1>3, CurIs DEF Downloading
  <1> HIDE DEF x
  <1>7. /\ Rest(s, v) /\ v.peer = s.peer /\ v.cur[c] = x /\ Downloads(v) = Downloads(s)
        /\ \A d \in Downloads(s) \ {c} : v.cur[d] = s.cur[d]
    BY <1>6, CurEdit
  <1> HIDE DEF v
  <1>8. UpdateHash(s, c) = u
    BY <1>5, <1>6, <1>7
  <1>9. b \in BOOLEAN
    OBVIOUS
  <1> HIDE DEF b
  <1>10. /\ y \in Downloading /\ y.got = x.got /\ y.hashed = n /\ y.right = b
         /\ y.from = x.from /\ y.pds = x.pds /\ y.ds = x.ds
    BY <1>6, <1>9 DEF Downloading
  <1> HIDE DEF y
  <1>11. /\ Rest(v, u) /\ u.peer = v.peer /\ u.cur[c] = y /\ Downloads(u) = Downloads(v)
         /\ \A d \in Downloads(v) \ {c} : u.cur[d] = v.cur[d]
    BY <1>7, <1>10, CurEdit DEF Rest
  <1> HIDE DEF u
  <1>12. Rest(s, u)
    BY <1>7, <1>11 DEF Rest
  <1>13. u.cur[c].hashed = n /\ (u.cur[c].right <=> b)
    BY <1>10, <1>11
  <1>14. \A i \in 0 .. n - 1 : i \in s.cur[c].got
    BY <1>3
  <1> QED BY <1>4, <1>6, <1>7, <1>8, <1>10, <1>11, <1>12, <1>13, <1>14 DEF b

-----------------------------------------------------------------------------
(* Downloads and peers agree on what was asked, during an action too        *)

\* What download c believes to have asked of p is asked of it
AskedOk(s, c, p) == \A i \in s.cur[c].ds[p] \ s.cur[c].got : <<c, i>> \in Asks(s, p)

\* All of it but that chunk k has asked something of peer o
WorksBut(s, k, o) ==
    /\ s \in Mem
    /\ \A c \in Downloads(s), p \in Peers :
          /\ s.cur[c].ds[p] # {} => p \in ToSet(s.cur[c].pds)
          /\ c # k \/ p # o => AskedOk(s, c, p)
    /\ \A p \in Peers : \A r \in Asks(s, p) : r[1] \in Downloads(s) /\ r[2] \in s.cur[r[1]].ds[p]
    /\ \A c \in Downloads(s) : IsInjective(s.cur[c].pds)

Works(s) == WorksBut(s, NumChunks, 0)

LEMMA WorksIs ==
  ASSUME NEW s \in Mem
  PROVE  Works(s) <=>
           /\ \A c \in Downloads(s), p \in Peers :
                 /\ s.cur[c].ds[p] # {} => p \in ToSet(s.cur[c].pds)
                 /\ AskedOk(s, c, p)
           /\ \A p \in Peers : \A r \in Asks(s, p) :
                 r[1] \in Downloads(s) /\ r[2] \in s.cur[r[1]].ds[p]
           /\ \A c \in Downloads(s) : IsInjective(s.cur[c].pds)
  <1>1. \A c \in Downloads(s) : c # NumChunks
    BY MemIs, Sizes DEF Chunks
  <1> QED BY <1>1 DEF Works, WorksBut

LEMMA WorksButOne ==
  ASSUME NEW s, Works(s), NEW k, NEW o
  PROVE  WorksBut(s, k, o)
  <1>1. s \in Mem
    BY DEF Works, WorksBut
  <1> QED BY <1>1, WorksIs DEF WorksBut

\* What has to be shown of a step that touches chunk c and peer p alone
LEMMA TouchedWorks ==
  ASSUME NEW s, NEW c \in Downloads(s), NEW p \in Peers, WorksBut(s, c, p),
         NEW u, Touched(s, u, c, p),
         IsInjective(u.cur[c].pds),
         ToSet(s.cur[c].pds) \ {p} \subseteq ToSet(u.cur[c].pds),
         u.cur[c].ds[p] # {} => p \in ToSet(u.cur[c].pds),
         AskedOk(u, c, p),
         \A r \in Requests : r[1] # c => (r \in Asks(u, p) <=> r \in Asks(s, p)),
         \A r \in Asks(u, p) : r[1] = c => r[2] \in u.cur[c].ds[p]
  PROVE  Works(u)
  <1>1. u \in Mem /\ s \in Mem /\ Downloads(u) = Downloads(s)
    BY DEF Touched, Rest, WorksBut
  <1>2. \A q \in Peers \ {p} : Asks(u, q) = Asks(s, q)
    BY DEF Touched, Asks
  <1>3. ASSUME NEW d \in Downloads(u), NEW q \in Peers
        PROVE  (u.cur[d].ds[q] # {} => q \in ToSet(u.cur[d].pds)) /\ AskedOk(u, d, q)
    <2>1. CASE d = c /\ q = p
      BY <2>1
    <2>2. CASE d = c /\ q # p
      <3>1. u.cur[c].ds[q] = s.cur[c].ds[q] /\ u.cur[c].got = s.cur[c].got /\ Asks(u, q) = Asks(s, q)
        BY <1>2, <2>2 DEF Touched, Core
      <3>2. s.cur[c].ds[q] # {} => q \in ToSet(s.cur[c].pds)
        BY DEF WorksBut
      <3>3. AskedOk(s, c, q)
        BY <2>2 DEF WorksBut
      <3> QED BY <2>2, <3>1, <3>2, <3>3 DEF AskedOk
    <2>3. CASE d # c
      <3>1. u.cur[d] = s.cur[d] /\ d \in Downloads(s)
        BY <1>1, <2>3 DEF Touched
      <3>2. (s.cur[d].ds[q] # {} => q \in ToSet(s.cur[d].pds)) /\ AskedOk(s, d, q)
        BY <2>3, <3>1 DEF WorksBut
      <3>3. \A i \in s.cur[d].ds[q] : <<d, i>> \in Requests
        BY <1>1, <3>1, CurIs DEF Requests
      <3>4. \A i \in s.cur[d].ds[q] : <<d, i>> \in Asks(s, q) => <<d, i>> \in Asks(u, q)
        BY <1>2, <2>3, <3>3
      <3> QED BY <3>1, <3>2, <3>4 DEF AskedOk
    <2> QED BY <2>1, <2>2, <2>3
  <1>4. ASSUME NEW q \in Peers, NEW r \in Asks(u, q)
        PROVE  r[1] \in Downloads(u) /\ r[2] \in u.cur[r[1]].ds[q]
    <2>1. r \in Requests
      BY <1>1, PeerIs
    <2>2. CASE q = p /\ r[1] = c
      BY <1>1, <2>2
    <2>3. CASE q # p \/ r[1] # c
      <3>1. r \in Asks(s, q)
        BY <1>2, <2>1, <2>3
      <3>2. r[1] \in Downloads(s) /\ r[2] \in s.cur[r[1]].ds[q]
        BY <3>1 DEF WorksBut
      <3>3. u.cur[r[1]].ds[q] = s.cur[r[1]].ds[q]
        BY <2>3, <3>2 DEF Touched
      <3> QED BY <1>1, <3>2, <3>3
    <2> QED BY <2>2, <2>3
  <1>5. \A d \in Downloads(u) : IsInjective(u.cur[d].pds)
    BY <1>1 DEF Touched, WorksBut
  <1> QED BY <1>1, <1>3, <1>4, <1>5, WorksIs

\* The count of chunks a peer works on
Exact(s) == \A p \in Peers : s.peer[p].grabbed = Cardinality(Uses(s, p))

LEMMA UsesIs ==
  ASSUME NEW s \in Mem, NEW p \in Peers
  PROVE  /\ Uses(s, p) = {c \in Downloads(s) : p \in ToSet(s.cur[c].pds)}
         /\ IsFiniteSet(Uses(s, p)) /\ Cardinality(Uses(s, p)) \in Nat
  <1>1. \A c \in Downloads(s) : Contains(s.cur[c].pds, p) <=> p \in ToSet(s.cur[c].pds)
    <2> SUFFICES ASSUME NEW c \in Downloads(s)
                 PROVE  Contains(s.cur[c].pds, p) <=> p \in ToSet(s.cur[c].pds)
      OBVIOUS
    <2>1. s.cur[c].pds \in Seq(Peers)
      BY CurIs
    <2>2. DOMAIN s.cur[c].pds = 1 .. Len(s.cur[c].pds)
      BY <2>1
    <2> QED BY <2>2 DEF Contains, ToSet
  <1>2. Uses(s, p) = {c \in Downloads(s) : p \in ToSet(s.cur[c].pds)}
    BY <1>1 DEF Uses
  <1>3. Uses(s, p) \subseteq Chunks
    BY <1>2, MemIs
  <1>4. IsFiniteSet(Uses(s, p))
    BY <1>3, FiniteRequests, FS_Subset
  <1> QED BY <1>2, <1>4, FS_CardinalityType

LEMMA InUses ==
  ASSUME NEW s \in Mem, NEW p \in Peers
  PROVE  \A c : c \in Uses(s, p) <=> c \in Downloads(s) /\ p \in ToSet(s.cur[c].pds)
  <1>1. Uses(s, p) = {c \in Downloads(s) : p \in ToSet(s.cur[c].pds)}
    BY UsesIs
  <1> QED BY <1>1

LEMMA ExactSame ==
  ASSUME NEW s \in Mem, NEW u \in Mem, Downloads(u) = Downloads(s),
         \A p \in Peers : u.peer[p].grabbed = s.peer[p].grabbed,
         \A c \in Downloads(s) : ToSet(u.cur[c].pds) = ToSet(s.cur[c].pds),
         Exact(s)
  PROVE  Exact(u)
  <1>1. ASSUME NEW p \in Peers PROVE Uses(u, p) = Uses(s, p)
    <2>1. \A c : c \in Uses(u, p) <=> c \in Uses(s, p)
      BY InUses
    <2> QED BY <2>1
  <1> QED BY <1>1 DEF Exact

\* A peer that works on chunk c is released and dropped
LEMMA ExactLess ==
  ASSUME NEW s \in Mem, NEW c \in Downloads(s), NEW p \in Peers, NEW u, Touched(s, u, c, p),
         p \in ToSet(s.cur[c].pds), ToSet(u.cur[c].pds) = ToSet(s.cur[c].pds) \ {p},
         u.peer[p].grabbed = Lower(s.peer[p].grabbed), Exact(s)
  PROVE  Exact(u)
  <1>0. u \in Mem /\ Downloads(u) = Downloads(s)
    BY DEF Touched, Rest
  <1>1. ASSUME NEW q \in Peers \ {p} PROVE Uses(u, q) = Uses(s, q) /\ u.peer[q] = s.peer[q]
    <2>1. \A d \in Downloads(s) : q \in ToSet(u.cur[d].pds) <=> q \in ToSet(s.cur[d].pds)
      BY DEF Touched
    <2>2. \A d : d \in Uses(u, q) <=> d \in Uses(s, q)
      BY <1>0, <2>1, InUses
    <2> QED BY <2>2 DEF Touched
  <1>2. Uses(u, p) = Uses(s, p) \ {c} /\ c \in Uses(s, p)
    BY <1>0, UsesIs DEF Touched
  <1>3. Cardinality(Uses(u, p)) = Cardinality(Uses(s, p)) - 1
    <2>1. IsFiniteSet(Uses(s, p))
      BY UsesIs
    <2> QED BY ONLY <1>2, <2>1, FS_RemoveElement
  <1>4. Cardinality(Uses(u, p)) \in Nat /\ Cardinality(Uses(s, p)) \in Nat
    BY <1>0, UsesIs
  <1>5. u.peer[p].grabbed = Cardinality(Uses(u, p))
    BY <1>3, <1>4 DEF Lower, Exact
  <1> QED BY <1>1, <1>5 DEF Exact

\* A peer that does not work on chunk c yet is put to it
LEMMA ExactMore ==
  ASSUME NEW s \in Mem, NEW c \in Downloads(s), NEW p \in Peers, NEW u, Touched(s, u, c, p),
         p \notin ToSet(s.cur[c].pds), ToSet(u.cur[c].pds) = ToSet(s.cur[c].pds) \cup {p},
         u.peer[p].grabbed = s.peer[p].grabbed + 1, Exact(s)
  PROVE  Exact(u)
  <1>0. u \in Mem /\ Downloads(u) = Downloads(s)
    BY DEF Touched, Rest
  <1>1. ASSUME NEW q \in Peers \ {p} PROVE Uses(u, q) = Uses(s, q) /\ u.peer[q] = s.peer[q]
    <2>1. \A d \in Downloads(s) : q \in ToSet(u.cur[d].pds) <=> q \in ToSet(s.cur[d].pds)
      BY DEF Touched
    <2>2. \A d : d \in Uses(u, q) <=> d \in Uses(s, q)
      BY <1>0, <2>1, InUses
    <2> QED BY <2>2 DEF Touched
  <1>2. Uses(u, p) = Uses(s, p) \cup {c} /\ c \notin Uses(s, p)
    BY <1>0, UsesIs DEF Touched
  <1>3. Cardinality(Uses(u, p)) = Cardinality(Uses(s, p)) + 1
    BY <1>2, UsesIs, FS_AddElement
  <1>5. u.peer[p].grabbed = Cardinality(Uses(u, p))
    BY <1>3 DEF Exact
  <1> QED BY <1>1, <1>5 DEF Exact

\* What a call keeps: all but who is asked for what; and nobody new works on a
\* chunk, and a peer that is choked is asked nothing
Result(s, u) ==
    /\ Rest(s, u) /\ Works(u) /\ Downloads(u) = Downloads(s)
    /\ Exact(s) => Exact(u)
    /\ \A c \in Downloads(s) : Core(s, u, c) /\ ToSet(u.cur[c].pds) \subseteq ToSet(s.cur[c].pds)
    /\ \A p \in Peers : /\ u.peer[p].state = s.peer[p].state
                        /\ u.peer[p].choked = s.peer[p].choked
                        /\ s.peer[p].choked => Asks(u, p) \subseteq Asks(s, p)

LEMMA ResultSame == ASSUME NEW s, Works(s) PROVE Result(s, s)
  <1>1. s \in Mem
    BY DEF Works, WorksBut
  <1> QED BY <1>1 DEF Result, Rest, Core

LEMMA ResultTwice ==
  ASSUME NEW s, NEW u, NEW v, Result(s, u), Result(u, v)
  PROVE  Result(s, v)
  BY DEF Result, Rest, Core

LEMMA SendRequestWorks ==
  ASSUME NEW s, Works(s), NEW c \in Downloads(s), NEW p \in ToSet(s.cur[c].pds)
  PROVE  LET u == SendRequest(s, c, p)
         IN  Result(s, u) /\ u.cur[c].pds = s.cur[c].pds
  <1> DEFINE u == SendRequest(s, c, p)
  <1>0. s \in Mem /\ p \in Peers
    BY CurIs DEF Works, WorksBut
  <1>1. /\ Touched(s, u, c, p) /\ u.peer[p].grabbed = s.peer[p].grabbed
        /\ u.cur[c].pds = s.cur[c].pds
        /\ \E N \in SUBSET (Pieces \ s.cur[c].ds[p]) :
              /\ u.cur[c].ds[p] = s.cur[c].ds[p] \cup N
              /\ Asks(u, p) = Asks(s, p) \cup ({c} \X N)
              /\ s.peer[p].choked => N = {}
    BY ZenonT(30), <1>0, SendRequestIs
  <1> HIDE DEF u
  <1>2. PICK N \in SUBSET (Pieces \ s.cur[c].ds[p]) :
              /\ u.cur[c].ds[p] = s.cur[c].ds[p] \cup N
              /\ Asks(u, p) = Asks(s, p) \cup ({c} \X N)
              /\ s.peer[p].choked => N = {}
    BY <1>1
  <1>3. Works(u)
    <2>1. WorksBut(s, c, p)
      BY WorksButOne
    <2>2. IsInjective(u.cur[c].pds)
      BY <1>1, <2>1 DEF WorksBut
    <2>3. AskedOk(u, c, p)
      <3>1. AskedOk(s, c, p) /\ u.cur[c].got = s.cur[c].got
        BY <1>0, <1>1, WorksIs DEF Touched, Core
      <3> QED BY <1>2, <3>1 DEF AskedOk
    <2>4. ASSUME NEW r \in Asks(u, p), r[1] = c PROVE r[2] \in u.cur[c].ds[p]
      <3>1. CASE r \in Asks(s, p)
        <4>1. r[2] \in s.cur[r[1]].ds[p]
          BY <1>0, <3>1, WorksIs
        <4> QED BY <1>2, <2>4, <4>1
      <3>2. CASE r \in {c} \X N
        BY <1>2, <3>2
      <3> QED BY <1>2, <3>1, <3>2
    <2>5. \A r \in Requests : r[1] # c => (r \in Asks(u, p) <=> r \in Asks(s, p))
      BY <1>2
    <2> QED BY <1>0, <1>1, <2>1, <2>2, <2>3, <2>4, <2>5, TouchedWorks
  <1>4. Exact(s) => Exact(u)
    <2>1. u \in Mem
      BY <1>1 DEF Touched, Rest
    <2> QED BY <1>0, <1>1, <2>1, ExactSame DEF Touched
  <1>5. \A q \in Peers : s.peer[q].choked => Asks(u, q) \subseteq Asks(s, q)
    BY <1>1, <1>2 DEF Touched, Asks
  <1> QED BY <1>1, <1>3, <1>4, <1>5 DEF Result, Touched, Core, u

-----------------------------------------------------------------------------
(* Loops of requests, and peers that are let go                             *)

LEMMA InOwnRange == ASSUME NEW X, NEW q \in Seq(X) PROVE q \in Seq(ToSet(q))
  <1>1. q \in [1 .. Len(q) -> X] /\ Len(q) \in Nat
    OBVIOUS
  <1>2. \A i \in 1 .. Len(q) : q[i] \in ToSet(q)
    BY DEF ToSet
  <1> DEFINE n == Len(q)
             Y == ToSet(q)
  <1> HIDE DEF n, Y
  <1>3. q \in [1 .. n -> Y]
    BY <1>1, <1>2 DEF n, Y
  <1>4. n \in Nat
    BY <1>1 DEF n
  <1> QED BY <1>3, <1>4 DEF Y

\* Nothing but requests came of it, to the peers that work on chunk c
Asked(s, c) == {t \in Mem : Result(s, t) /\ t.cur[c].pds = s.cur[c].pds}

LEMMA RoundWorks ==
  ASSUME NEW s, Works(s), NEW c \in Downloads(s), NEW t \in Asked(s, c), NEW q \in Seq(Peers),
         ToSet(q) \subseteq ToSet(s.cur[c].pds)
  PROVE  Round(t, c, q) \in Asked(s, c)
  <1> DEFINE A == Asked(s, c)
             u == Round(t, c, q)
  <1>1. u = FSend!SeqFold(c, 0, t, q)
    BY DEF Round, FSend!SeqFold, FoldLeft, MapThenFoldSet, Max, OpSend
  <1>2. \A p \in ToSet(q) : \A v \in A : OpSend(c, 0, p, v) \in A
    <2> SUFFICES ASSUME NEW p \in ToSet(q), NEW v \in A PROVE SendRequest(v, c, p) \in A
      BY DEF OpSend
    <2> DEFINE w == SendRequest(v, c, p)
    <2>1. Result(s, v) /\ v.cur[c].pds = s.cur[c].pds
      BY DEF Asked
    <2>2. Works(v) /\ c \in Downloads(v) /\ p \in ToSet(v.cur[c].pds)
      BY <2>1 DEF Result
    <2>3. Result(v, w) /\ w.cur[c].pds = v.cur[c].pds
      BY <2>2, SendRequestWorks
    <2> HIDE DEF w
    <2>4. Result(s, w) /\ w \in Mem
      <3>1. Result(s, w)
        BY <2>1, <2>3, ResultTwice
      <3> QED BY <3>1 DEF Result, Rest
    <2>5. w \in Asked(s, c)
      BY <2>1, <2>3, <2>4 DEF Asked
    <2> QED BY <2>5 DEF w
  <1>3. q \in Seq(ToSet(q))
    BY InOwnRange
  <1> HIDE DEF A, u
  <1>4. FSend!SeqFold(c, 0, t, q) \in A
    <2> DEFINE X == ToSet(q)
    <2>1. t \in A /\ q \in Seq(X) /\ \A p \in X : \A v \in A : OpSend(c, 0, p, v) \in A
      BY <1>2, <1>3 DEF A
    <2> HIDE DEF X
    <2> QED BY <2>1, FSend!SeqFoldIn
  <1> QED BY <1>1, <1>4 DEF A, u

LEMMA SendRequestsWorks ==
  ASSUME NEW s, Works(s), NEW c \in Downloads(s)
  PROVE  SendRequests(s, c) \in Asked(s, c)
  <1> DEFINE A == Asked(s, c)
             q == s.cur[c].pds
             N == [n \in 1 .. NumPieces |-> n]
             u == SendRequests(s, c)
  <1>0. s \in Mem /\ q \in Seq(Peers)
    BY CurIs DEF Works, WorksBut
  <1>1. u = FRound!SeqFold(c, q, s, N)
    BY DEF SendRequests, FRound!SeqFold, FoldLeft, MapThenFoldSet, Max, OpRound
  <1>2. \A n \in Nat : \A v \in A : OpRound(c, q, n, v) \in A
    BY <1>0, RoundWorks DEF OpRound
  <1>3. N \in Seq(Nat)
    BY Sizes
  <1>4. s \in A
    BY <1>0, ResultSame DEF Asked
  <1> HIDE DEF A, u, q, N
  <1>5. FRound!SeqFold(c, q, s, N) \in A
    BY <1>2, <1>3, <1>4, FRound!SeqFoldIn
  <1> QED BY <1>1, <1>5 DEF A, u

\* Peer p, and nobody else, no longer works on chunk c
LeftBy(s, u, c, p) == Result(s, u) /\ ToSet(u.cur[c].pds) = ToSet(s.cur[c].pds) \ {p}

LEMMA LetGoWorks ==
  ASSUME NEW s, NEW c \in Downloads(s), NEW p \in ToSet(s.cur[c].pds), WorksBut(s, c, p)
  PROVE  LeftBy(s, LetGo(s, c, p), c, p)
  <1> DEFINE u == LetGo(s, c, p)
  <1>0. s \in Mem /\ p \in Peers
    BY CurIs DEF WorksBut
  <1>1. /\ Touched(s, u, c, p) /\ u.peer[p].grabbed = Lower(s.peer[p].grabbed)
        /\ u.cur[c].pds = Without(s.cur[c].pds, p) /\ u.cur[c].ds[p] = {}
        /\ Asks(u, p) = Asks(s, p) \ ({c} \X s.cur[c].ds[p])
    BY <1>0, LetGoIs
  <1> HIDE DEF u
  <1>2. /\ ToSet(u.cur[c].pds) = ToSet(s.cur[c].pds) \ {p}
        /\ IsInjective(u.cur[c].pds)
    <2>1. s.cur[c].pds \in Seq(Peers) /\ IsInjective(s.cur[c].pds)
      BY <1>0, CurIs DEF WorksBut
    <2> QED BY <1>1, <2>1, WithoutFacts
  <1>3. Works(u)
    <2>1. AskedOk(u, c, p)
      BY <1>1 DEF AskedOk
    <2>2. \A r \in Requests : r[1] # c => (r \in Asks(u, p) <=> r \in Asks(s, p))
      BY <1>1
    <2>3. \A r \in Asks(u, p) : r[1] = c => r[2] \in u.cur[c].ds[p]
      <3> SUFFICES ASSUME NEW r \in Asks(u, p), r[1] = c PROVE FALSE
        OBVIOUS
      <3>1. r \in Asks(s, p) /\ r \in Requests
        BY <1>0, <1>1, PeerIs
      <3>2. r[2] \in s.cur[c].ds[p]
        BY <1>0, <3>1 DEF WorksBut
      <3>3. r = <<c, r[2]>>
        BY <3>1 DEF Requests
      <3> QED BY <1>1, <3>2, <3>3
    <2>4. ToSet(s.cur[c].pds) \ {p} \subseteq ToSet(u.cur[c].pds)
      BY <1>2
    <2> QED BY <1>0, <1>1, <1>2, <2>1, <2>2, <2>3, <2>4, TouchedWorks
  <1>4. Exact(s) => Exact(u)
    BY <1>0, <1>1, <1>2, ExactLess
  <1>5. \A d \in Downloads(s) : Core(s, u, d) /\ ToSet(u.cur[d].pds) \subseteq ToSet(s.cur[d].pds)
    BY <1>1, <1>2 DEF Touched, Core
  <1>6. \A q \in Peers : Asks(u, q) \subseteq Asks(s, q)
    BY <1>1 DEF Touched, Asks
  <1> QED BY <1>1, <1>2, <1>3, <1>4, <1>5, <1>6 DEF Result, Touched, LeftBy, u

\* A request that is late or rejected: p is let go, or does not work on c anyway
LEMMA NotDownloadedWorks ==
  ASSUME NEW s, NEW c, NEW p \in Peers, WorksBut(s, c, p)
  PROVE  LET u == NotDownloaded(s, c, p)
         IN  Result(s, u) /\ (c \in Downloads(s) => p \notin ToSet(u.cur[c].pds))
  <1> DEFINE u == NotDownloaded(s, c, p)
             v == LetGo(s, c, p)
  <1>0. s \in Mem
    BY DEF WorksBut
  <1>1. CASE c \notin Downloads(s) \/ p \notin ToSet(s.cur[c].pds)
    <2>1. u = s
      BY <1>1 DEF NotDownloaded
    <2>2. Works(s)
      <3>1. \A d \in Downloads(s), q \in Peers : d = c /\ q = p => AskedOk(s, d, q)
        <4>1. c \in Downloads(s) => s.cur[c].ds[p] = {}
          BY <1>1 DEF WorksBut
        <4> QED BY <4>1 DEF AskedOk
      <3>2. \A d \in Downloads(s), q \in Peers : AskedOk(s, d, q)
        BY <3>1 DEF WorksBut
      <3> QED BY <1>0, <3>2, WorksIs DEF WorksBut
    <2> HIDE DEF u
    <2> QED BY <1>1, <2>1, <2>2, ResultSame DEF u
  <1>2. CASE c \in Downloads(s) /\ p \in ToSet(s.cur[c].pds)
    <2>1. u = SendRequests(v, c)
      BY <1>2 DEF NotDownloaded, LetGo
    <2>2. Result(s, v) /\ ToSet(v.cur[c].pds) = ToSet(s.cur[c].pds) \ {p}
      BY <1>2, LetGoWorks DEF LeftBy
    <2> HIDE DEF u, v
    <2>3. Works(v) /\ c \in Downloads(v)
      BY <1>2, <2>2 DEF Result
    <2>4. Result(v, u) /\ u.cur[c].pds = v.cur[c].pds
      BY <2>1, <2>3, SendRequestsWorks DEF Asked
    <2>5. Result(s, u)
      BY <2>2, <2>4, ResultTwice
    <2> QED BY <2>2, <2>4, <2>5 DEF u
  <1> QED BY <1>1, <1>2

\* All peers that work on chunk c are let go
LEMMA ReleaseAllWorks ==
  ASSUME NEW s, Works(s), NEW c \in Downloads(s)
  PROVE  LET u == ReleaseAll(s, c)
         IN  Result(s, u) /\ ToSet(u.cur[c].pds) = {}
  <1> DEFINE q == s.cur[c].pds
             n == Len(q)
             rest(k) == {q[i] : i \in k + 1 .. n}
             G(k) == {t \in Mem : Result(s, t) /\ ToSet(t.cur[c].pds) = rest(k)}
             I == [k \in 0 .. n |-> G(k)]
             u == ReleaseAll(s, c)
  <1>0. s \in Mem /\ q \in Seq(Peers) /\ IsInjective(q)
    BY CurIs DEF Works, WorksBut
  <1>1. n \in Nat /\ DOMAIN q = 1 .. n
    BY <1>0
  <1>2. u = FLetGo!SeqFold(c, 0, s, q)
    BY DEF ReleaseAll, FLetGo!SeqFold, FoldLeft, MapThenFoldSet, Max, OpLetGo
  <1>3. s \in G(0)
    <2>1. ToSet(q) = rest(0)
      BY <1>1 DEF ToSet
    <2>2. Result(s, s)
      BY ResultSame
    <2> HIDE DEF rest
    <2> QED BY <1>0, <2>1, <2>2
  <1>4. ASSUME NEW k \in 1 .. n, NEW t \in G(k - 1)
        PROVE  OpLetGo(c, 0, q[k], t) \in G(k)
    <2> DEFINE p == q[k]
               w == LetGo(t, c, p)
    <2>1. OpLetGo(c, 0, p, t) = w
      BY DEF OpLetGo, LetGo
    <2>2. rest(k - 1) = rest(k) \cup {p} /\ p \notin rest(k)
      <3>1. (k - 1) + 1 .. n = (k + 1 .. n) \cup {k}
        BY <1>1
      <3>2. \A i \in k + 1 .. n : q[i] # q[k]
        BY <1>0, <1>1 DEF IsInjective
      <3> QED BY <3>1, <3>2
    <2>3. t \in Mem /\ Result(s, t) /\ ToSet(t.cur[c].pds) = rest(k - 1)
      OBVIOUS
    <2> HIDE DEF rest, p, w
    <2>4. Works(t) /\ c \in Downloads(t) /\ p \in ToSet(t.cur[c].pds)
      BY <2>2, <2>3 DEF Result
    <2>5. WorksBut(t, c, p)
      BY <2>4, WorksButOne
    <2>6. Result(t, w) /\ ToSet(w.cur[c].pds) = ToSet(t.cur[c].pds) \ {p}
      BY SMTT(30), <2>4, <2>5, LetGoWorks DEF w, LeftBy
    <2>7. ToSet(w.cur[c].pds) = rest(k)
      BY <2>2, <2>3, <2>6
    <2>8. Result(s, w) /\ w \in Mem
      <3>1. Result(s, w)
        BY <2>3, <2>6, ResultTwice
      <3> QED BY <3>1 DEF Result, Rest
    <2>9. w \in G(k)
      BY <2>7, <2>8
    <2> HIDE DEF G
    <2> QED BY <2>1, <2>9 DEF p
  <1>5. s \in I[0] /\ \A k \in 1 .. n : \A t \in I[k - 1] : OpLetGo(c, 0, q[k], t) \in I[k]
    <2> HIDE DEF G
    <2> QED BY <1>1, <1>3, <1>4
  <1>6. FLetGo!SeqFold(c, 0, s, q) \in I[n]
    <2> HIDE DEF I, n
    <2> QED BY <1>1, <1>5, FLetGo!SeqFoldKeeps
  <1>7. u \in G(n)
    <2> HIDE DEF G, u
    <2> QED BY <1>1, <1>2, <1>6
  <1>8. rest(n) = {}
    BY <1>1
  <1> HIDE DEF u, rest
  <1> QED BY <1>7, <1>8 DEF u

LEMMA SendCancelsWorks ==
  ASSUME NEW s, Works(s), NEW c \in Downloads(s), NEW p \in Peers
  PROVE  LET u == SendCancels(s, c, p)
         IN  /\ u \in Asked(s, c) /\ u.cur[c].ds[p] = {}
             /\ \A q \in Peers \ {p} : u.cur[c].ds[q] = s.cur[c].ds[q]
  <1> DEFINE u == SendCancels(s, c, p)
  <1>0. s \in Mem
    BY DEF Works, WorksBut
  <1>1. /\ Touched(s, u, c, p) /\ u.peer[p].grabbed = s.peer[p].grabbed
        /\ u.cur[c].pds = s.cur[c].pds /\ u.cur[c].ds[p] = {}
        /\ Asks(u, p) = Asks(s, p) \ ({c} \X s.cur[c].ds[p])
    BY <1>0, SendCancelsIs
  <1> HIDE DEF u
  <1>2. Works(u)
    <2>1. WorksBut(s, c, p)
      BY WorksButOne
    <2>2. AskedOk(u, c, p)
      BY <1>1 DEF AskedOk
    <2>3. \A r \in Requests : r[1] # c => (r \in Asks(u, p) <=> r \in Asks(s, p))
      BY <1>1
    <2>4. \A r \in Asks(u, p) : r[1] = c => r[2] \in u.cur[c].ds[p]
      <3> SUFFICES ASSUME NEW r \in Asks(u, p), r[1] = c PROVE FALSE
        OBVIOUS
      <3>1. r \in Asks(s, p) /\ r \in Requests
        BY <1>0, <1>1, PeerIs
      <3>2. r[2] \in s.cur[c].ds[p]
        BY <2>1, <3>1 DEF WorksBut
      <3>3. r = <<c, r[2]>>
        BY <3>1 DEF Requests
      <3> QED BY <1>1, <3>2, <3>3
    <2>5. IsInjective(u.cur[c].pds)
      BY <1>1, <2>1 DEF WorksBut
    <2> QED BY <1>0, <1>1, <2>1, <2>2, <2>3, <2>4, <2>5, TouchedWorks
  <1>3. Exact(s) => Exact(u)
    <2>1. u \in Mem
      BY <1>1 DEF Touched, Rest
    <2> QED BY <1>0, <1>1, <2>1, ExactSame DEF Touched
  <1>4. \A q \in Peers : Asks(u, q) \subseteq Asks(s, q)
    BY <1>1 DEF Touched, Asks
  <1>5. Result(s, u) /\ u \in Mem
    BY <1>1, <1>2, <1>3, <1>4 DEF Result, Touched, Core, Rest
  <1> QED BY <1>1, <1>5 DEF Touched, Asked, u

\* Everything asked for chunk c is taken back
LEMMA CancelAllWorks ==
  ASSUME NEW s, Works(s), NEW c \in Downloads(s)
  PROVE  LET u == CancelAll(s, c)
         IN  Result(s, u) /\ \A p \in Peers : u.cur[c].ds[p] = {}
  <1> DEFINE q == s.cur[c].pds
             n == Len(q)
             G(k) == {t \in Asked(s, c) : \A i \in 1 .. k : t.cur[c].ds[q[i]] = {}}
             I == [k \in 0 .. n |-> G(k)]
             u == CancelAll(s, c)
  <1>0. s \in Mem /\ q \in Seq(Peers) /\ \A i \in 1 .. n : q[i] \in Peers
    BY CurIs DEF Works, WorksBut
  <1>1. n \in Nat /\ DOMAIN q = 1 .. n
    BY <1>0
  <1>2. u = FCancels!SeqFold(c, 0, s, q)
    BY DEF CancelAll, FCancels!SeqFold, FoldLeft, MapThenFoldSet, Max, OpCancels
  <1>3. s \in G(0)
    BY <1>0, ResultSame DEF Asked
  <1>4. ASSUME NEW k \in 1 .. n, NEW t \in G(k - 1)
        PROVE  OpCancels(c, 0, q[k], t) \in G(k)
    <2> DEFINE p == q[k]
               w == SendCancels(t, c, p)
    <2>1. OpCancels(c, 0, p, t) = w
      BY DEF OpCancels
    <2>2. Result(s, t) /\ t.cur[c].pds = s.cur[c].pds
      BY DEF Asked
    <2>3. \A i \in 1 .. k - 1 : t.cur[c].ds[q[i]] = {}
      OBVIOUS
    <2>4. p \in Peers /\ Works(t) /\ c \in Downloads(t)
      BY <1>0, <2>2 DEF Result
    <2>5. /\ w \in Asked(t, c) /\ w.cur[c].ds[p] = {}
          /\ \A o \in Peers \ {p} : w.cur[c].ds[o] = t.cur[c].ds[o]
      <3> HIDE DEF p
      <3> QED BY <2>4, SendCancelsWorks
    <2> HIDE DEF w
    <2>6. w \in Asked(s, c)
      BY <2>2, <2>5, ResultTwice DEF Asked
    <2>7. \A i \in 1 .. k : w.cur[c].ds[q[i]] = {}
      <3> SUFFICES ASSUME NEW i \in 1 .. k PROVE w.cur[c].ds[q[i]] = {}
        OBVIOUS
      <3>1. q[i] \in Peers
        BY <1>0, <1>1
      <3>2. CASE q[i] = p
        BY <2>5, <3>2
      <3>3. CASE q[i] # p
        <4>1. i \in 1 .. k - 1
          BY <1>1, <3>3
        <4> HIDE DEF p
        <4> QED BY <2>3, <2>5, <3>1, <3>3, <4>1
      <3> QED BY <3>2, <3>3
    <2> QED BY <2>1, <2>6, <2>7
  <1>5. s \in I[0] /\ \A k \in 1 .. n : \A t \in I[k - 1] : OpCancels(c, 0, q[k], t) \in I[k]
    <2> HIDE DEF G
    <2> QED BY <1>1, <1>3, <1>4
  <1>6. FCancels!SeqFold(c, 0, s, q) \in I[n]
    <2> HIDE DEF I, n
    <2> QED BY <1>1, <1>5, FCancels!SeqFoldKeeps
  <1>7. u \in G(n)
    <2> HIDE DEF G, u
    <2> QED BY <1>1, <1>2, <1>6
  <1> HIDE DEF u
  <1>8. Result(s, u) /\ u.cur[c].pds = q
    BY <1>7 DEF Asked
  <1>9. ASSUME NEW p \in Peers PROVE u.cur[c].ds[p] = {}
    <2>1. CASE p \in ToSet(q)
      BY <1>1, <1>7, <2>1 DEF ToSet
    <2>2. CASE p \notin ToSet(q)
      BY <1>8, <2>2 DEF Result, Works, WorksBut
    <2> QED BY <2>1, <2>2
  <1> QED BY <1>8, <1>9 DEF u

\* A chunk download nobody works on is forgotten
Forgotten(s, u, c) ==
    /\ Rest(s, u) /\ u.peer = s.peer /\ Downloads(u) = Downloads(s) \ {c}
    /\ \A d \in Downloads(u) : u.cur[d] = s.cur[d]

LEMMA ForgetIs ==
  ASSUME NEW s \in Mem, NEW c
  PROVE  Forgotten(s, Forget(s, c), c)
  <1> DEFINE D == Downloads(s) \ {c}
             f == [d \in D |-> s.cur[d]]
             u == [s EXCEPT !.cur = f]
  <1>1. D \in SUBSET Chunks /\ f \in [D -> Downloading] /\ DOMAIN f = D
        /\ \A d \in D : f[d] = s.cur[d]
    BY MemIs
  <1>2. Forget(s, c) = u
    BY DEF Forget
  <1> HIDE DEF D, f
  <1>3. f \in CurMaps
    BY <1>1 DEF CurMaps
  <1>4. Rest(s, u) /\ u.peer = s.peer /\ u.cur = f
    BY <1>3 DEF Mem, Rest
  <1> HIDE DEF u
  <1> QED BY <1>1, <1>2, <1>4 DEF D, Forgotten, Downloads

LEMMA ForgetWorks ==
  ASSUME NEW s, Works(s), NEW c, c \in Downloads(s) => \A p \in Peers : s.cur[c].ds[p] = {}
  PROVE  LET u == Forget(s, c)
         IN  /\ Works(u) /\ Forgotten(s, u, c)
             /\ (c \in Downloads(s) => ToSet(s.cur[c].pds) = {}) /\ Exact(s) => Exact(u)
  <1> DEFINE u == Forget(s, c)
  <1>0. s \in Mem
    BY DEF Works, WorksBut
  <1>1. Forgotten(s, u, c)
    BY <1>0, ForgetIs
  <1> HIDE DEF u
  <1>2. u \in Mem /\ \A p \in Peers : Asks(u, p) = Asks(s, p)
    BY <1>1 DEF Forgotten, Rest, Asks
  <1>3. Works(u)
    <2>1. \A p \in Peers : \A r \in Asks(u, p) :
             r[1] \in Downloads(u) /\ r[2] \in u.cur[r[1]].ds[p]
      <3> SUFFICES ASSUME NEW p \in Peers, NEW r \in Asks(u, p)
                   PROVE  r[1] \in Downloads(u) /\ r[2] \in u.cur[r[1]].ds[p]
        OBVIOUS
      <3>1. r[1] \in Downloads(s) /\ r[2] \in s.cur[r[1]].ds[p]
        BY <1>0, <1>2, WorksIs
      <3>2. r[1] # c
        BY <3>1
      <3> QED BY <1>1, <3>1, <3>2 DEF Forgotten
    <2>2. \A d \in Downloads(u), p \in Peers :
             /\ u.cur[d].ds[p] # {} => p \in ToSet(u.cur[d].pds)
             /\ AskedOk(u, d, p)
      BY <1>0, <1>1, <1>2, WorksIs DEF Forgotten, AskedOk
    <2>3. \A d \in Downloads(u) : IsInjective(u.cur[d].pds)
      BY <1>0, <1>1, WorksIs DEF Forgotten
    <2> QED BY <1>2, <2>1, <2>2, <2>3, WorksIs
  <1>4. (c \in Downloads(s) => ToSet(s.cur[c].pds) = {}) /\ Exact(s) => Exact(u)
    <2> SUFFICES ASSUME c \in Downloads(s) => ToSet(s.cur[c].pds) = {}, Exact(s)
                 PROVE  Exact(u)
      OBVIOUS
    <2>1. ASSUME NEW p \in Peers PROVE Uses(u, p) = Uses(s, p)
      <3>1. ASSUME NEW d PROVE d \in Uses(u, p) <=> d \in Uses(s, p)
        <4>1. CASE d = c
          BY <1>0, <1>1, <1>2, <4>1, InUses DEF Forgotten
        <4>2. CASE d # c
          BY <1>0, <1>1, <1>2, <4>2, InUses DEF Forgotten
        <4> QED BY <4>1, <4>2
      <3> QED BY <3>1
    <2> QED BY <1>1, <2>1 DEF Exact, Forgotten
  <1> QED BY <1>1, <1>3, <1>4 DEF u

LEMMA EndgameCancelWorks ==
  ASSUME NEW s, Works(s), NEW c \in Downloads(s), NEW i \in Pieces
  PROVE  EndgameCancel(s, c, i) \in Asked(s, c)
  <1> DEFINE A == Asked(s, c)
             q == s.cur[c].pds
             u == EndgameCancel(s, c, i)
  <1>0. s \in Mem /\ q \in Seq(Peers)
    BY CurIs DEF Works, WorksBut
  <1>1. u = FPiece!SeqFold(c, i, s, q)
    BY DEF EndgameCancel, FPiece!SeqFold, FoldLeft, MapThenFoldSet, Max, OpPiece
  <1>2. ASSUME NEW p \in Peers, NEW v \in A PROVE OpPiece(c, i, p, v) \in A
    <2> DEFINE w == CancelPiece(v, c, i, p)
    <2>1. v \in Mem /\ Result(s, v) /\ v.cur[c].pds = s.cur[c].pds
      BY DEF Asked
    <2>2. Works(v) /\ c \in Downloads(v) /\ WorksBut(v, c, p)
      BY <2>1, WorksButOne DEF Result
    <2>3. /\ Touched(v, w, c, p) /\ w.peer[p].grabbed = v.peer[p].grabbed
          /\ w.cur[c].pds = v.cur[c].pds /\ w.cur[c].ds[p] = v.cur[c].ds[p] \ {i}
          /\ i \notin v.cur[c].ds[p] => w = v
          /\ i \in v.cur[c].ds[p] => Asks(w, p) = Asks(v, p) \ {<<c, i>>}
      BY <2>1, <2>2, CancelPieceIs
    <2> HIDE DEF w
    <2>4. CASE i \notin v.cur[c].ds[p]
      BY <2>3, <2>4 DEF OpPiece, w
    <2>5. CASE i \in v.cur[c].ds[p]
      <3>1. AskedOk(w, c, p)
        <4>1. AskedOk(v, c, p) /\ w.cur[c].got = v.cur[c].got
          BY <2>1, <2>2, <2>3, WorksIs DEF Touched, Core
        <4> QED BY <2>3, <2>5, <4>1 DEF AskedOk
      <3>2. \A r \in Requests : r[1] # c => (r \in Asks(w, p) <=> r \in Asks(v, p))
        BY <2>3, <2>5
      <3>3. \A r \in Asks(w, p) : r[1] = c => r[2] \in w.cur[c].ds[p]
        <4> SUFFICES ASSUME NEW r \in Asks(w, p), r[1] = c PROVE r[2] \in w.cur[c].ds[p]
          OBVIOUS
        <4>1. r \in Asks(v, p) /\ r \in Requests /\ r # <<c, i>>
          BY <2>1, <2>3, <2>5, PeerIs
        <4>2. r[2] \in v.cur[c].ds[p]
          BY <2>2, <4>1 DEF WorksBut
        <4>3. r = <<c, r[2]>>
          BY <4>1 DEF Requests
        <4> QED BY <2>3, <4>1, <4>2, <4>3
      <3>4. IsInjective(w.cur[c].pds)
        BY <2>2, <2>3 DEF WorksBut
      <3>5. w.cur[c].ds[p] # {} => p \in ToSet(w.cur[c].pds)
        BY <2>2, <2>3 DEF WorksBut
      <3>6. Works(w) /\ w \in Mem
        BY <2>2, <2>3, <3>1, <3>2, <3>3, <3>4, <3>5, TouchedWorks DEF Touched, Rest
      <3>7. Exact(v) => Exact(w)
        BY <2>1, <2>3, <3>6, ExactSame DEF Touched
      <3>8. \A o \in Peers : Asks(w, o) \subseteq Asks(v, o)
        BY <2>3, <2>5 DEF Touched, Asks
      <3>9. Result(v, w)
        BY <2>3, <3>6, <3>7, <3>8 DEF Result, Touched, Core
      <3>10. Result(s, w)
        BY <2>1, <3>9, ResultTwice
      <3> QED BY <2>1, <2>3, <3>6, <3>10 DEF Asked, OpPiece, w
    <2> QED BY <2>4, <2>5
  <1>3. s \in A
    BY <1>0, ResultSame DEF Asked
  <1> HIDE DEF A, q, u
  <1>4. FPiece!SeqFold(c, i, s, q) \in A
    BY <1>0, <1>2, <1>3, FPiece!SeqFoldIn
  <1> QED BY <1>1, <1>4 DEF A, u

-----------------------------------------------------------------------------
(* A piece arrives                                                          *)

\* The request for a piece that nobody misses is taken back
LEMMA CancelWorks ==
  ASSUME NEW s, Works(s), NEW p \in Peers, NEW r \in Requests,
         r[1] \notin Downloads(s) \/ r[2] \in s.cur[r[1]].got
  PROVE  Result(s, CancelRequest(s, p, r))
  <1> DEFINE u == CancelRequest(s, p, r)
  <1>0. s \in Mem
    BY DEF Works, WorksBut
  <1>1. /\ AtOne(s, u, p) /\ u.peer[p].grabbed = s.peer[p].grabbed
        /\ Asks(u, p) = Asks(s, p) \ {r}
    BY <1>0, CancelIs
  <1> HIDE DEF u
  <1>2. u \in Mem /\ u.cur = s.cur /\ Downloads(u) = Downloads(s)
    BY <1>1 DEF AtOne, Rest, Downloads
  <1>3. \A q \in Peers \ {p} : Asks(u, q) = Asks(s, q) /\ u.peer[q] = s.peer[q]
    BY <1>1 DEF AtOne, Asks
  <1>4. \A q \in Peers : Asks(u, q) \subseteq Asks(s, q)
    BY <1>1, <1>3
  <1>5. ASSUME NEW c \in Downloads(s), NEW q \in Peers PROVE AskedOk(u, c, q)
    <2> SUFFICES ASSUME NEW i \in s.cur[c].ds[q] \ s.cur[c].got PROVE <<c, i>> \in Asks(u, q)
      BY <1>2 DEF AskedOk
    <2>1. <<c, i>> \in Asks(s, q)
      BY <1>0, WorksIs DEF AskedOk
    <2>2. <<c, i>> # r
      OBVIOUS
    <2> QED BY <1>1, <1>3, <2>1, <2>2
  <1>6. Works(u)
    <2>1. \A c \in Downloads(u), q \in Peers :
            u.cur[c].ds[q] # {} => q \in ToSet(u.cur[c].pds)
      BY <1>0, <1>2, WorksIs
    <2>2. \A q \in Peers : \A x \in Asks(u, q) :
            x[1] \in Downloads(u) /\ x[2] \in u.cur[x[1]].ds[q]
      BY <1>0, <1>2, <1>4, WorksIs
    <2>3. \A c \in Downloads(u) : IsInjective(u.cur[c].pds)
      BY <1>0, <1>2, WorksIs
    <2> QED BY <1>2, <1>5, <2>1, <2>2, <2>3, WorksIs
  <1>7. Exact(s) => Exact(u)
    <2>1. \A q \in Peers : u.peer[q].grabbed = s.peer[q].grabbed
      BY <1>1, <1>3
    <2> QED BY <1>0, <1>2, <2>1, ExactSame
  <1>8. /\ Rest(s, u)
        /\ \A q \in Peers : u.peer[q].state = s.peer[q].state /\ u.peer[q].choked = s.peer[q].choked
    BY <1>1, <1>3 DEF AtOne
  <1> QED BY <1>2, <1>4, <1>6, <1>7, <1>8 DEF Result, Core, u

LEMMA UpdatePDWorks ==
  ASSUME NEW s, Works(s), NEW p \in Peers
  PROVE  Result(s, UpdatePD(s, p))
  <1> DEFINE u == UpdatePD(s, p)
  <1>0. s \in Mem
    BY DEF Works, WorksBut
  <1>1. /\ AtOne(s, u, p) /\ u.peer[p].grabbed = s.peer[p].grabbed
        /\ Asks(u, p) = Asks(s, p)
    BY <1>0, UpdatePDIs
  <1> HIDE DEF u
  <1>2. u \in Mem /\ u.cur = s.cur /\ Downloads(u) = Downloads(s)
    BY <1>1 DEF AtOne, Rest, Downloads
  <1>3. \A q \in Peers : Asks(u, q) = Asks(s, q)
    BY <1>1 DEF AtOne, Asks
  <1>4. Works(u)
    BY <1>0, <1>2, <1>3, WorksIs DEF AskedOk
  <1>5. /\ Rest(s, u)
        /\ \A q \in Peers : /\ u.peer[q].state = s.peer[q].state
                            /\ u.peer[q].choked = s.peer[q].choked
                            /\ u.peer[q].grabbed = s.peer[q].grabbed
    BY <1>1 DEF AtOne
  <1>6. Exact(s) => Exact(u)
    BY <1>0, <1>2, <1>5, ExactSame
  <1> QED BY <1>2, <1>3, <1>4, <1>5, <1>6 DEF Result, Core, u

LEMMA DiskEdit ==
  ASSUME NEW s \in Mem, NEW c \in Chunks, NEW i \in Pieces, NEW q \in Content
  PROVE  LET u == [s EXCEPT !.disk[c][i] = q]
         IN  /\ u \in Mem /\ u.have = s.have /\ u.list = s.list /\ u.banned = s.banned
             /\ u.web = s.web /\ u.webch = s.webch /\ u.cur = s.cur /\ u.peer = s.peer
             /\ u.disk = [s.disk EXCEPT ![c][i] = q]
  <1> DEFINE f == [s.disk EXCEPT ![c][i] = q]
             u == [s EXCEPT !.disk = f]
  <1>1. f \in [Chunks -> [Pieces -> Content]]
    BY MemIs
  <1>2. [s EXCEPT !.disk[c][i] = q] = u
    OBVIOUS
  <1> HIDE DEF f
  <1>3. /\ u \in Mem /\ u.have = s.have /\ u.list = s.list /\ u.banned = s.banned
        /\ u.web = s.web /\ u.webch = s.webch /\ u.cur = s.cur /\ u.peer = s.peer
        /\ u.disk = f
    BY <1>1 DEF Mem
  <1> HIDE DEF u
  <1> QED BY <1>2, <1>3 DEF f

\* Nothing but the data of chunk c, the peers and the downloads is different
Aside(s, u) ==
    /\ u \in Mem /\ u.have = s.have /\ u.list = s.list /\ u.banned = s.banned
    /\ u.web = s.web /\ u.webch = s.webch /\ Downloads(u) = Downloads(s)

\* What the first lines of piece do, with the request for the piece taken back
Put(s, c, p, i, q) ==
    [CancelRequest(s, p, <<c, i>>) EXCEPT
       !.cur[c].ds[p] = @ \ {i}, !.disk[c][i] = q,
       !.cur[c].got = @ \cup {i}, !.cur[c].from = @ \cup {p}]

PutBy(s, u, c, p, i, q) ==
    /\ Aside(s, u) /\ u.disk = [s.disk EXCEPT ![c][i] = q]
    /\ \A d \in Downloads(s) \ {c} : u.cur[d] = s.cur[d]
    /\ u.cur[c].got = s.cur[c].got \cup {i} /\ u.cur[c].from = s.cur[c].from \cup {p}
    /\ u.cur[c].hashed = s.cur[c].hashed /\ u.cur[c].right = s.cur[c].right
    /\ u.cur[c].pds = s.cur[c].pds /\ u.cur[c].ds[p] = s.cur[c].ds[p] \ {i}
    /\ \A o \in Peers \ {p} : /\ u.cur[c].ds[o] = s.cur[c].ds[o]
                              /\ u.peer[o] = s.peer[o]
    /\ u.peer[p].state = s.peer[p].state /\ u.peer[p].choked = s.peer[p].choked
    /\ u.peer[p].grabbed = s.peer[p].grabbed
    /\ Asks(u, p) = Asks(s, p) \ {<<c, i>>}

LEMMA PutIs ==
  ASSUME NEW s \in Mem, NEW c \in Downloads(s), NEW p \in Peers, NEW i \in Pieces,
         NEW q \in Content
  PROVE  PutBy(s, Put(s, c, p, i, q), c, p, i, q)
  <1> DEFINE a == CancelRequest(s, p, <<c, i>>)
             X == s.cur[c].ds[p] \ {i}
             b == [a EXCEPT !.cur[c].ds[p] = X]
             d == [b EXCEPT !.disk[c][i] = q]
             G == s.cur[c].got \cup {i}
             x == [d.cur[c] EXCEPT !.got = G]
             e == [d EXCEPT !.cur[c] = x]
             F == s.cur[c].from \cup {p}
             y == [e.cur[c] EXCEPT !.from = F]
             u == [e EXCEPT !.cur[c] = y]
  <1>1. /\ AtOne(s, a, p) /\ a.peer[p].grabbed = s.peer[p].grabbed
        /\ Asks(a, p) = Asks(s, p) \ {<<c, i>>}
    BY CancelIs
  <1>2. Put(s, c, p, i, q) =
          [a EXCEPT !.cur[c].ds[p] = @ \ {i}, !.disk[c][i] = q,
                    !.cur[c].got = @ \cup {i}, !.cur[c].from = @ \cup {p}]
    BY DEF Put
  <1> HIDE DEF a
  <1>3. a \in Mem /\ a.cur = s.cur /\ c \in Downloads(a) /\ c \in Chunks
    BY <1>1, MemIs DEF AtOne, Rest, Downloads
  <1>4. X \in SUBSET Pieces /\ G \in SUBSET Pieces /\ F \in SUBSET (Peers \cup {Earlier})
    BY CurIs
  <1>5. /\ Touched(a, b, c, p) /\ b.peer = a.peer
        /\ b.cur[c].pds = a.cur[c].pds /\ b.cur[c].ds[p] = X
    <2> HIDE DEF X
    <2> QED BY <1>3, <1>4, DsEdit
  <1>6. b = [a EXCEPT !.cur[c].ds[p] = a.cur[c].ds[p] \ {i}]
    BY <1>3
  <1> HIDE DEF b
  <1>7. b \in Mem /\ Downloads(b) = Downloads(a)
    BY <1>5 DEF Touched, Rest
  <1>8. /\ d \in Mem /\ d.have = b.have /\ d.list = b.list /\ d.banned = b.banned
        /\ d.web = b.web /\ d.webch = b.webch /\ d.cur = b.cur /\ d.peer = b.peer
        /\ d.disk = [b.disk EXCEPT ![c][i] = q]
    BY <1>3, <1>7, DiskEdit
  <1> HIDE DEF d
  <1>9. c \in Downloads(d) /\ Downloads(d) = Downloads(s)
    BY <1>3, <1>7, <1>8 DEF Downloads
  <1>10. d.cur[c].got = s.cur[c].got /\ d.cur[c].from = s.cur[c].from
         /\ d.cur[c].hashed = s.cur[c].hashed /\ d.cur[c].right = s.cur[c].right
    BY <1>3, <1>5, <1>8 DEF Touched, Core
  <1>11. /\ x \in Downloading /\ x.got = G /\ x.hashed = d.cur[c].hashed
         /\ x.right = d.cur[c].right /\ x.from = d.cur[c].from
         /\ x.pds = d.cur[c].pds /\ x.ds = d.cur[c].ds
    <2> HIDE DEF G
    <2> QED BY <1>4, <1>8, <1>9, CurIs DEF Downloading
  <1> HIDE DEF x
  <1>12. /\ Rest(d, e) /\ e.peer = d.peer /\ e.cur[c] = x /\ Downloads(e) = Downloads(d)
         /\ \A o \in Downloads(d) \ {c} : e.cur[o] = d.cur[o]
    BY <1>8, <1>9, <1>11, CurEdit
  <1>13. e = [d EXCEPT !.cur[c].got = d.cur[c].got \cup {i}]
    BY <1>10 DEF x
  <1> HIDE DEF e
  <1>14. /\ y \in Downloading /\ y.got = x.got /\ y.hashed = x.hashed
         /\ y.right = x.right /\ y.from = F /\ y.pds = x.pds /\ y.ds = x.ds
    <2> HIDE DEF F
    <2> QED BY <1>4, <1>11, <1>12 DEF Downloading
  <1> HIDE DEF y
  <1>15. /\ Rest(e, u) /\ u.peer = e.peer /\ u.cur[c] = y /\ Downloads(u) = Downloads(e)
         /\ \A o \in Downloads(e) \ {c} : u.cur[o] = e.cur[o]
    BY <1>9, <1>12, <1>14, CurEdit DEF Rest
  <1>16. u = [e EXCEPT !.cur[c].from = e.cur[c].from \cup {p}]
    BY <1>10, <1>11, <1>12 DEF y
  <1>17. Put(s, c, p, i, q) = u
    <2> DEFINE A == a.cur[c].ds[p] \ {i}
               B == d.cur[c].got \cup {i}
               C == e.cur[c].from \cup {p}
    <2>1. b = [a EXCEPT !.cur[c].ds[p] = A]
      BY <1>6
    <2>2. d = [b EXCEPT !.disk[c][i] = q]
      BY DEF d
    <2>3. e = [d EXCEPT !.cur[c].got = B]
      BY <1>13
    <2>4. u = [e EXCEPT !.cur[c].from = C]
      BY <1>16
    <2>5. Put(s, c, p, i, q) =
            [a EXCEPT !.cur[c].ds[p] = A, !.disk[c][i] = q, !.cur[c].got = B, !.cur[c].from = C]
      <3>1. a.cur[c].got = d.cur[c].got /\ a.cur[c].from = e.cur[c].from
        BY <1>3, <1>10, <1>11, <1>12
      <3> HIDE DEF u
      <3> QED BY <1>2, <3>1
    <2> HIDE DEF u, A, B, C
    <2> QED BY <2>1, <2>2, <2>3, <2>4, <2>5
  <1> HIDE DEF u, X, G, F
  <1>18. Aside(s, u) /\ u.disk = [s.disk EXCEPT ![c][i] = q]
    BY <1>1, <1>5, <1>8, <1>9, <1>12, <1>15 DEF Aside, Rest, AtOne, Touched
  <1>19. \A o \in Downloads(s) \ {c} : u.cur[o] = s.cur[o]
    BY <1>3, <1>5, <1>8, <1>9, <1>12, <1>15 DEF Touched, Downloads
  <1>20. /\ u.cur[c].got = G /\ u.cur[c].from = F
         /\ u.cur[c].hashed = s.cur[c].hashed /\ u.cur[c].right = s.cur[c].right
         /\ u.cur[c].pds = s.cur[c].pds /\ u.cur[c].ds[p] = X
         /\ \A o \in Peers \ {p} : u.cur[c].ds[o] = s.cur[c].ds[o]
    BY <1>3, <1>5, <1>8, <1>10, <1>11, <1>14, <1>15 DEF Touched
  <1>21. u.peer = a.peer
    BY <1>5, <1>8, <1>12, <1>15
  <1>22. /\ \A o \in Peers \ {p} : u.peer[o] = s.peer[o]
         /\ u.peer[p].state = s.peer[p].state /\ u.peer[p].choked = s.peer[p].choked
         /\ u.peer[p].grabbed = s.peer[p].grabbed
         /\ Asks(u, p) = Asks(s, p) \ {<<c, i>>}
    BY <1>1, <1>21 DEF AtOne, Asks
  <1> QED BY <1>17, <1>18, <1>19, <1>20, <1>22 DEF X, G, F, PutBy

LEMMA PutWorks ==
  ASSUME NEW s, Works(s), NEW c \in Downloads(s), NEW p \in Peers, NEW i \in Pieces,
         NEW q \in Content
  PROVE  LET u == Put(s, c, p, i, q)
         IN  Works(u) /\ (Exact(s) => Exact(u))
  <1> DEFINE u == Put(s, c, p, i, q)
             r == <<c, i>>
  <1>0. s \in Mem
    BY DEF Works, WorksBut
  <1>1. /\ Aside(s, u)
        /\ \A d \in Downloads(s) \ {c} : u.cur[d] = s.cur[d]
        /\ u.cur[c].got = s.cur[c].got \cup {i}
        /\ u.cur[c].pds = s.cur[c].pds /\ u.cur[c].ds[p] = s.cur[c].ds[p] \ {i}
        /\ \A o \in Peers \ {p} : /\ u.cur[c].ds[o] = s.cur[c].ds[o]
                                  /\ u.peer[o] = s.peer[o]
        /\ u.peer[p].grabbed = s.peer[p].grabbed
        /\ Asks(u, p) = Asks(s, p) \ {r}
    <2>1. PutBy(s, u, c, p, i, q)
      BY <1>0, PutIs
    <2> HIDE DEF u
    <2> QED BY <2>1 DEF PutBy
  <1> HIDE DEF u
  <1>2. u \in Mem /\ Downloads(u) = Downloads(s)
    BY <1>1 DEF Aside
  <1>3. \A o \in Peers \ {p} : Asks(u, o) = Asks(s, o)
    BY <1>1 DEF Asks
  <1>4. ASSUME NEW d \in Downloads(u), NEW o \in Peers
        PROVE  (u.cur[d].ds[o] # {} => o \in ToSet(u.cur[d].pds)) /\ AskedOk(u, d, o)
    <2>1. u.cur[d].ds[o] \subseteq s.cur[d].ds[o] /\ u.cur[d].pds = s.cur[d].pds
          /\ s.cur[d].got \subseteq u.cur[d].got /\ (d = c => i \in u.cur[d].got)
      BY <1>1, <1>2
    <2>2. (s.cur[d].ds[o] # {} => o \in ToSet(s.cur[d].pds)) /\ AskedOk(s, d, o)
      BY <1>0, <1>2, WorksIs
    <2>3. ASSUME NEW j \in u.cur[d].ds[o] \ u.cur[d].got PROVE <<d, j>> \in Asks(u, o)
      <3>1. <<d, j>> \in Asks(s, o)
        BY <2>1, <2>2 DEF AskedOk
      <3>2. <<d, j>> # r
        BY <2>1
      <3> HIDE DEF r
      <3> QED BY <1>1, <1>3, <3>1, <3>2
    <2> QED BY <2>1, <2>2, <2>3 DEF AskedOk
  <1>5. ASSUME NEW o \in Peers, NEW x \in Asks(u, o)
        PROVE  x[1] \in Downloads(u) /\ x[2] \in u.cur[x[1]].ds[o]
    <2>1. x \in Asks(s, o) /\ (o = p => x # r)
      <3> HIDE DEF r
      <3> QED BY <1>1, <1>3
    <2>2. x[1] \in Downloads(s) /\ x[2] \in s.cur[x[1]].ds[o]
      BY <1>0, <2>1, WorksIs
    <2>3. x \in Requests
      BY <1>0, <2>1, PeerIs
    <2>4. CASE x[1] = c /\ o = p
      <3>1. x[2] # i
        BY <2>1, <2>3, <2>4 DEF Requests
      <3> QED BY <1>1, <1>2, <2>2, <2>4, <3>1
    <2>5. CASE ~(x[1] = c /\ o = p)
      BY <1>1, <1>2, <2>2, <2>5
    <2> QED BY <2>4, <2>5
  <1>6. \A d \in Downloads(u) : IsInjective(u.cur[d].pds)
    BY <1>0, <1>1, <1>2, WorksIs
  <1>7. Works(u)
    BY <1>2, <1>4, <1>5, <1>6, WorksIs
  <1>8. Exact(s) => Exact(u)
    <2>1. \A o \in Peers : u.peer[o].grabbed = s.peer[o].grabbed
      BY <1>1
    <2>2. \A d \in Downloads(s) : ToSet(u.cur[d].pds) = ToSet(s.cur[d].pds)
      BY <1>1
    <2> QED BY <1>0, <1>2, <2>1, <2>2, ExactSame
  <1> QED BY <1>7, <1>8 DEF u

\* Piece i of chunk c came from p, and is stored
Stored(s, u, c, p, i, q) ==
    /\ Aside(s, u) /\ Works(u) /\ (Exact(s) => Exact(u))
    /\ u.disk = [s.disk EXCEPT ![c][i] = q]
    /\ \A d \in Downloads(s) \ {c} : Core(s, u, d)
    /\ u.cur[c].got = s.cur[c].got \cup {i} /\ u.cur[c].from = s.cur[c].from \cup {p}
    /\ \A j \in 0 .. u.cur[c].hashed - 1 : j \in u.cur[c].got
    /\ u.cur[c].got = Pieces => u.cur[c].hashed = NumPieces /\ ToSet(u.cur[c].pds) = {}
    /\ u.cur[c].right <=>
         s.cur[c].right /\ \A j \in s.cur[c].hashed .. u.cur[c].hashed - 1 : u.disk[c][j] = "good"
    /\ \A o \in Peers : u.peer[o].state = s.peer[o].state

LEMMA StoreWorks ==
  ASSUME NEW s, Works(s), NEW c \in Downloads(s), NEW p \in Peers, NEW i \in Pieces,
         NEW q \in Content
  PROVE  Stored(s, StorePiece(CancelRequest(s, p, <<c, i>>), c, p, i, q), c, p, i, q)
  <1> DEFINE t == Put(s, c, p, i, q)
             u == IF Len(t.cur[c].pds) > 1 THEN EndgameCancel(t, c, i) ELSE t
             v == UpdateHash(u, c)
             w == IF v.cur[c].got = Pieces THEN ReleaseAll(v, c) ELSE SendRequests(v, c)
  <1>0. s \in Mem
    BY DEF Works, WorksBut
  <1>1. StorePiece(CancelRequest(s, p, <<c, i>>), c, p, i, q) = w
    BY DEF StorePiece, Put
  <1>2. /\ Aside(s, t) /\ t.disk = [s.disk EXCEPT ![c][i] = q]
        /\ \A d \in Downloads(s) \ {c} : t.cur[d] = s.cur[d]
        /\ t.cur[c].got = s.cur[c].got \cup {i} /\ t.cur[c].from = s.cur[c].from \cup {p}
        /\ t.cur[c].hashed = s.cur[c].hashed /\ t.cur[c].right = s.cur[c].right
        /\ \A o \in Peers \ {p} : t.peer[o] = s.peer[o]
        /\ t.peer[p].state = s.peer[p].state
    <2>1. PutBy(s, t, c, p, i, q)
      BY <1>0, PutIs
    <2> HIDE DEF t
    <2> QED BY <2>1 DEF PutBy
  <1>3. Works(t) /\ (Exact(s) => Exact(t))
    BY PutWorks
  <1> HIDE DEF t
  <1>4. c \in Downloads(t)
    BY <1>2 DEF Aside
  <1>5. Result(t, u)
    <2>1. EndgameCancel(t, c, i) \in Asked(t, c)
      BY <1>3, <1>4, EndgameCancelWorks
    <2>2. Result(t, t)
      BY <1>3, ResultSame
    <2> QED BY <2>1, <2>2 DEF Asked
  <1> HIDE DEF u
  <1>6. u \in Mem /\ Works(u) /\ c \in Downloads(u)
    BY <1>4, <1>5 DEF Result, Rest
  <1>7. /\ Rest(u, v) /\ v.peer = u.peer /\ Downloads(v) = Downloads(u)
        /\ \A d \in Downloads(u) \ {c} : v.cur[d] = u.cur[d]
        /\ v.cur[c].got = u.cur[c].got /\ v.cur[c].from = u.cur[c].from
        /\ v.cur[c].pds = u.cur[c].pds /\ v.cur[c].ds = u.cur[c].ds
        /\ \A j \in 0 .. v.cur[c].hashed - 1 : j \in u.cur[c].got
        /\ u.cur[c].got = Pieces => v.cur[c].hashed = NumPieces
        /\ v.cur[c].right <=> /\ u.cur[c].right
                              /\ \A j \in u.cur[c].hashed .. v.cur[c].hashed - 1 : u.disk[c][j] = "good"
    BY <1>6, HashIs
  <1> HIDE DEF v
  <1>8. Works(v) /\ (Exact(u) => Exact(v))
    <2>1. v \in Mem /\ \A o \in Peers : Asks(v, o) = Asks(u, o)
      BY <1>7 DEF Rest, Asks
    <2>2. \A d \in Downloads(u) : /\ v.cur[d].pds = u.cur[d].pds /\ v.cur[d].ds = u.cur[d].ds
                                  /\ v.cur[d].got = u.cur[d].got
      BY <1>7
    <2>3. Works(v)
      BY <1>6, <1>7, <2>1, <2>2, WorksIs DEF AskedOk
    <2>4. Exact(u) => Exact(v)
      BY <1>6, <1>7, <2>1, <2>2, ExactSame
    <2> QED BY <2>3, <2>4
  <1>9. Result(v, w) /\ (v.cur[c].got = Pieces => ToSet(w.cur[c].pds) = {})
    <2>1. c \in Downloads(v)
      BY <1>6, <1>7
    <2>2. Result(v, ReleaseAll(v, c)) /\ ToSet(ReleaseAll(v, c).cur[c].pds) = {}
      BY <1>8, <2>1, ReleaseAllWorks
    <2>3. SendRequests(v, c) \in Asked(v, c)
      BY <1>8, <2>1, SendRequestsWorks
    <2> QED BY <2>2, <2>3 DEF Asked
  <1> HIDE DEF w
  <1>10. Aside(s, w) /\ Works(w) /\ (Exact(s) => Exact(w)) /\ w.disk = t.disk
    BY <1>2, <1>3, <1>5, <1>7, <1>8, <1>9 DEF Aside, Result, Rest
  <1>11. \A d \in Downloads(s) \ {c} : Core(s, w, d)
    <2>1. Downloads(t) = Downloads(s) /\ Downloads(u) = Downloads(s) /\ Downloads(v) = Downloads(s)
      BY <1>2, <1>5, <1>7 DEF Aside, Result
    <2>2. \A d \in Downloads(s) : Core(t, u, d) /\ Core(v, w, d)
      BY <1>5, <1>9, <2>1 DEF Result
    <2> QED BY <1>2, <1>7, <2>1, <2>2 DEF Core
  <1>12. Core(t, u, c) /\ Core(v, w, c) /\ u.disk = t.disk
    BY <1>4, <1>5, <1>6, <1>7, <1>9 DEF Result, Rest
  <1>13. /\ w.cur[c].got = s.cur[c].got \cup {i} /\ w.cur[c].from = s.cur[c].from \cup {p}
         /\ \A j \in 0 .. w.cur[c].hashed - 1 : j \in w.cur[c].got
         /\ w.cur[c].got = Pieces => w.cur[c].hashed = NumPieces /\ ToSet(w.cur[c].pds) = {}
    BY <1>2, <1>7, <1>9, <1>12 DEF Core
  <1>14. w.cur[c].right <=>
           s.cur[c].right /\ \A j \in s.cur[c].hashed .. w.cur[c].hashed - 1 : w.disk[c][j] = "good"
    <2>1. w.cur[c].right = v.cur[c].right /\ w.cur[c].hashed = v.cur[c].hashed
          /\ u.cur[c].right = s.cur[c].right /\ u.cur[c].hashed = s.cur[c].hashed
          /\ w.disk = u.disk
      BY <1>2, <1>10, <1>12 DEF Core
    <2> QED BY <1>7, <2>1
  <1>15. \A o \in Peers : w.peer[o].state = s.peer[o].state
    BY <1>2, <1>5, <1>7, <1>9 DEF Result
  <1> QED BY <1>1, <1>2, <1>10, <1>11, <1>13, <1>14, <1>15 DEF Stored

-----------------------------------------------------------------------------
(* The invariant, of the record                                             *)

WebOk(s) ==
    /\ s.web.n \in 0 .. NumPieces - 1
    /\ Busy(s) => s.web.first <= s.web.cur /\ s.web.cur <= s.web.last /\ s.web.last < NumChunks
    /\ ~WebSeeds => ~Busy(s)

\* Requests, peers and downloads agree, and what is downloaded is missing
Sane(s) ==
    /\ Works(s) /\ WebOk(s) /\ Downloads(s) \cap s.have = {}
    /\ ~WebSeeds => Exact(s)

\* The hash is right only when the pieces it is made of are there and good
HashOk(s, c) ==
    s.cur[c].right => \A i \in 0 .. s.cur[c].hashed - 1 :
                         i \in s.cur[c].got /\ s.disk[c][i] = "good"

\* If there is a wrong piece, one of those who gave the pieces is in L
BlameOk(s, c, L) ==
    ~s.cur[c].right \/ (\E i \in s.cur[c].got : s.disk[c][i] # "good")
      => s.cur[c].from \cap L # {}

Data(s, L) == \A c \in Downloads(s) : HashOk(s, c) /\ BlameOk(s, c, L)

\* One piece of a chunk that is missing is written, and the chunk may be whole by it
Writes(s, u, c, i) ==
    /\ c \notin s.have
    /\ \E q \in Content \ {"none"} : u.disk = [s.disk EXCEPT ![c][i] = q]
    /\ \/ u.have = s.have
       \/ u.have = s.have \cup {c} /\ \A j \in Pieces : u.disk[c][j] = "good"
Moves(s, u) ==
    \/ u.have = s.have /\ u.disk = s.disk
    \/ \E c \in Chunks, i \in Pieces : Writes(s, u, c, i)

LEMMA MovesSame ==
  ASSUME NEW s, NEW u, NEW v, Moves(s, u), v.have = u.have, v.disk = u.disk
  PROVE  Moves(s, v)
  <1>1. CASE u.have = s.have /\ u.disk = s.disk
    BY <1>1 DEF Moves
  <1>2. CASE \E c \in Chunks, i \in Pieces : Writes(s, u, c, i)
    <2>1. PICK c \in Chunks, i \in Pieces : Writes(s, u, c, i)
      BY <1>2
    <2>2. Writes(s, v, c, i)
      BY <2>1 DEF Writes
    <2> QED BY <2>2 DEF Moves
  <1> QED BY <1>1, <1>2 DEF Moves

LEMMA WorksSame ==
  ASSUME NEW s, Works(s), NEW u \in Mem, u.cur = s.cur,
         \A p \in Peers : Asks(u, p) = Asks(s, p) /\ u.peer[p].grabbed = s.peer[p].grabbed
  PROVE  Works(u) /\ (Exact(s) => Exact(u))
  <1>0. s \in Mem /\ Downloads(u) = Downloads(s)
    BY DEF Works, WorksBut, Downloads
  <1>1. Works(u)
    BY <1>0, WorksIs DEF AskedOk
  <1>2. Exact(s) => Exact(u)
    BY <1>0, ExactSame
  <1> QED BY <1>1, <1>2

\* At most the web seed's part is different
WebOnly(s, u) ==
    /\ u \in Mem /\ u.have = s.have /\ u.disk = s.disk /\ u.cur = s.cur
    /\ u.peer = s.peer /\ u.list = s.list /\ u.banned = s.banned

WithWeb(s, w, h) == [s EXCEPT !.web = w, !.webch = h]

LEMMA WebEdit ==
  ASSUME NEW s \in Mem, NEW w \in WebState, NEW h \in SUBSET Chunks
  PROVE  WebOnly(s, WithWeb(s, w, h)) /\ WithWeb(s, w, h).web = w
  BY DEF Mem, WebOnly, WithWeb

LEMMA ResetIs ==
  ASSUME NEW s \in Mem
  PROVE  LET u == ResetWeb(s)
         IN  WebOnly(s, u) /\ WebOk(u) /\ ~Busy(u) /\ u.web = Idle
  <1> DEFINE u == ResetWeb(s)
  <1>1. Idle \in WebState
    BY Sizes DEF Idle, WebState
  <1>2. WebOnly(s, u) /\ u.web = Idle
    <2> DEFINE h == {}
    <2>1. u = WithWeb(s, Idle, h)
      BY DEF ResetWeb, WithWeb
    <2>2. h \in SUBSET Chunks
      OBVIOUS
    <2> HIDE DEF u, h
    <2> QED BY <1>1, <2>1, <2>2, WebEdit
  <1> HIDE DEF u
  <1>3. ~Busy(u)
    BY <1>2, Sizes DEF Busy, Idle
  <1>4. u.web.n \in 0 .. NumPieces - 1
    BY <1>2, Sizes DEF Idle
  <1> QED BY <1>2, <1>3, <1>4 DEF WebOk, u

LEMMA TellIs ==
  ASSUME NEW s \in Mem, NEW c
  PROVE  LET u == TellWeb(s, c)
         IN  WebOnly(s, u) /\ (u = s \/ (WebOk(u) /\ ~Busy(u)))
  <1>1. WebOnly(s, s)
    BY DEF WebOnly
  <1> QED BY <1>1, ResetIs DEF TellWeb

LEMMA HaveEdit ==
  ASSUME NEW s \in Mem, NEW c \in Chunks
  PROVE  LET u == [s EXCEPT !.have = @ \cup {c}]
         IN  /\ u \in Mem /\ u.disk = s.disk /\ u.cur = s.cur /\ u.peer = s.peer
             /\ u.list = s.list /\ u.banned = s.banned /\ u.web = s.web /\ u.webch = s.webch
             /\ u.have = s.have \cup {c}
  <1> DEFINE h == s.have \cup {c}
             u == [s EXCEPT !.have = h]
  <1>1. h \in SUBSET Chunks
    BY MemIs
  <1>2. [s EXCEPT !.have = @ \cup {c}] = u
    OBVIOUS
  <1> HIDE DEF h
  <1>3. /\ u \in Mem /\ u.disk = s.disk /\ u.cur = s.cur /\ u.peer = s.peer
        /\ u.list = s.list /\ u.banned = s.banned /\ u.web = s.web /\ u.webch = s.webch
        /\ u.have = h
    BY <1>1 DEF Mem
  <1> HIDE DEF u
  <1> QED BY <1>2, <1>3 DEF h

\* The chunk is taken, with its download gone
LEMMA TakeWorks ==
  ASSUME NEW s, Works(s), Downloads(s) \cap s.have = {},
         NEW c \in Chunks, c \notin Downloads(s)
  PROVE  LET u == [TellWeb(s, c) EXCEPT !.have = @ \cup {c}]
         IN  /\ Works(u) /\ Downloads(u) \cap u.have = {}
             /\ Exact(s) => Exact(u)
             /\ u.have = s.have \cup {c} /\ u.disk = s.disk /\ u.cur = s.cur /\ u.banned = s.banned
             /\ u.peer = s.peer /\ (u.web = s.web \/ (WebOk(u) /\ ~Busy(u)))
  <1> DEFINE t == TellWeb(s, c)
             u == [t EXCEPT !.have = @ \cup {c}]
  <1>0. s \in Mem
    BY DEF Works, WorksBut
  <1>1. WebOnly(s, t) /\ (t = s \/ (WebOk(t) /\ ~Busy(t)))
    BY <1>0, TellIs
  <1> HIDE DEF t
  <1>2. /\ u \in Mem /\ u.disk = t.disk /\ u.cur = t.cur /\ u.peer = t.peer
        /\ u.list = t.list /\ u.banned = t.banned /\ u.web = t.web /\ u.webch = t.webch
        /\ u.have = t.have \cup {c}
    BY <1>1, HaveEdit DEF WebOnly
  <1> HIDE DEF u
  <1>3. /\ u.have = s.have \cup {c} /\ u.disk = s.disk /\ u.cur = s.cur /\ u.banned = s.banned
        /\ u.peer = s.peer
    BY <1>1, <1>2 DEF WebOnly
  <1>4. Works(u) /\ (Exact(s) => Exact(u))
    <2>1. \A p \in Peers : Asks(u, p) = Asks(s, p) /\ u.peer[p].grabbed = s.peer[p].grabbed
      BY <1>3 DEF Asks
    <2> QED BY <1>2, <1>3, <2>1, WorksSame
  <1>5. u.web = s.web \/ (WebOk(u) /\ ~Busy(u))
    BY <1>1, <1>2 DEF WebOk, Busy
  <1>6. Downloads(u) \cap u.have = {}
    BY <1>3 DEF Downloads
  <1> QED BY <1>3, <1>4, <1>5, <1>6 DEF u, t

\* The provider of all of a chunk is banned and cut off
Banned(s, B) ==
    [s EXCEPT !.banned = @ \cup B,
              !.peer = [p \in Peers |-> IF p \in B THEN [s.peer[p] EXCEPT !.state = "killed"]
                                        ELSE s.peer[p]]]

LEMMA BannedIs ==
  ASSUME NEW s \in Mem, NEW B \in SUBSET Peers
  PROVE  LET u == Banned(s, B)
         IN  /\ u \in Mem /\ u.have = s.have /\ u.disk = s.disk /\ u.cur = s.cur
             /\ u.list = s.list /\ u.web = s.web /\ u.webch = s.webch
             /\ u.banned = s.banned \cup B
             /\ \A p \in Peers : Asks(u, p) = Asks(s, p) /\ u.peer[p].grabbed = s.peer[p].grabbed
  <1> DEFINE b == s.banned \cup B
             f == [p \in Peers |-> IF p \in B THEN [s.peer[p] EXCEPT !.state = "killed"]
                                   ELSE s.peer[p]]
             u == [s EXCEPT !.banned = b, !.peer = f]
  <1>1. b \in SUBSET Peers
    BY MemIs
  <1>2. ASSUME NEW p \in Peers
        PROVE  f[p] \in AtPeer /\ f[p].reqs = s.peer[p].reqs /\ f[p].wait = s.peer[p].wait
               /\ f[p].grabbed = s.peer[p].grabbed
    BY PeerIs DEF AtPeer
  <1>3. f \in [Peers -> AtPeer]
    BY <1>2
  <1>4. Banned(s, B) = u
    BY DEF Banned
  <1> HIDE DEF b, f
  <1>5. /\ u \in Mem /\ u.have = s.have /\ u.disk = s.disk /\ u.cur = s.cur
        /\ u.list = s.list /\ u.web = s.web /\ u.webch = s.webch /\ u.banned = b /\ u.peer = f
    BY <1>1, <1>3 DEF Mem
  <1> HIDE DEF u
  <1>6. \A p \in Peers : Asks(u, p) = Asks(s, p) /\ u.peer[p].grabbed = s.peer[p].grabbed
    BY <1>2, <1>5 DEF Asks
  <1> QED BY <1>4, <1>5, <1>6 DEF b

LEMMA FinishWorks ==
  ASSUME NEW s, Works(s), WebOk(s), Downloads(s) \cap s.have = {},
         NEW c \in Downloads(s), ToSet(s.cur[c].pds) = {}
  PROVE  LET u == Finish(s, c)
         IN  /\ Works(u) /\ WebOk(u) /\ Downloads(u) \cap u.have = {} /\ (Exact(s) => Exact(u))
             /\ u.disk = s.disk /\ Downloads(u) = Downloads(s) \ {c}
             /\ \A d \in Downloads(u) : u.cur[d] = s.cur[d]
             /\ s.cur[c].right => u.have = s.have \cup {c} /\ u.banned = s.banned
             /\ ~s.cur[c].right => /\ u.have = s.have
                                   /\ u.banned \subseteq
                                        s.banned \cup {p \in Peers : s.cur[c].from = {p}}
  <1> DEFINE t == Forget(s, c)
             only == OnlyDownloader(s, s.cur[c])
             v == [TellWeb(t, c) EXCEPT !.have = @ \cup {c}]
             w == Banned(t, only)
             u == Finish(s, c)
  <1>0. s \in Mem /\ c \in Chunks /\ s.cur[c].right \in BOOLEAN
    BY CurIs DEF Works, WorksBut
  <1>1. \A p \in Peers : s.cur[c].ds[p] = {}
    BY <1>0, WorksIs
  <1>2. Works(t) /\ Forgotten(s, t, c) /\ (Exact(s) => Exact(t))
    BY <1>1, ForgetWorks
  <1>3. u = IF s.cur[c].right THEN v ELSE w
    BY DEF Finish, Banned
  <1> HIDE DEF t
  <1>4. /\ t \in Mem /\ t.have = s.have /\ t.disk = s.disk /\ t.banned = s.banned
        /\ t.web = s.web /\ c \notin Downloads(t) /\ Downloads(t) = Downloads(s) \ {c}
        /\ \A d \in Downloads(t) : t.cur[d] = s.cur[d]
    BY <1>2 DEF Forgotten, Rest
  <1>5. WebOk(t) /\ Downloads(t) \cap t.have = {}
    BY <1>4 DEF WebOk, Busy
  <1>6. /\ Works(v) /\ Downloads(v) \cap v.have = {}
        /\ Exact(t) => Exact(v)
        /\ v.have = t.have \cup {c} /\ v.disk = t.disk /\ v.cur = t.cur /\ v.banned = t.banned
        /\ v.web = t.web \/ (WebOk(v) /\ ~Busy(v))
    BY <1>0, <1>2, <1>4, <1>5, TakeWorks
  <1>7. only \in SUBSET Peers /\ only \subseteq {p \in Peers : s.cur[c].from = {p}}
    BY DEF OnlyDownloader
  <1> HIDE DEF only
  <1>8. /\ w \in Mem /\ w.have = t.have /\ w.disk = t.disk /\ w.cur = t.cur
        /\ w.web = t.web /\ w.banned = t.banned \cup only
        /\ \A p \in Peers : Asks(w, p) = Asks(t, p) /\ w.peer[p].grabbed = t.peer[p].grabbed
    BY <1>4, <1>7, BannedIs
  <1> HIDE DEF w, v, u
  <1>9. Works(w) /\ (Exact(t) => Exact(w))
    BY <1>2, <1>8, WorksSame
  <1>10. WebOk(w) /\ Downloads(w) \cap w.have = {}
    BY <1>5, <1>8 DEF WebOk, Busy, Downloads
  <1>11. CASE s.cur[c].right
    <2>1. u = v
      BY <1>3, <1>11
    <2>2. Downloads(v) = Downloads(s) \ {c} /\ \A d \in Downloads(v) : v.cur[d] = s.cur[d]
      BY <1>4, <1>6 DEF Downloads
    <2>3. WebOk(v)
      BY <1>5, <1>6 DEF WebOk, Busy
    <2> QED BY <1>2, <1>4, <1>6, <1>11, <2>1, <2>2, <2>3 DEF u
  <1>12. CASE ~s.cur[c].right
    <2>1. u = w
      BY <1>3, <1>12
    <2>2. Downloads(w) = Downloads(s) \ {c} /\ \A d \in Downloads(w) : w.cur[d] = s.cur[d]
      BY <1>4, <1>8 DEF Downloads
    <2> QED BY <1>2, <1>4, <1>7, <1>8, <1>9, <1>10, <1>12, <2>1, <2>2 DEF u
  <1> QED BY <1>11, <1>12

\* What a stored piece means for the hash and for the blame
LEMMA StoredData ==
  ASSUME NEW s, Works(s), NEW L, Data(s, L), NEW c \in Downloads(s), NEW p \in Peers,
         NEW i \in Pieces \ s.cur[c].got, NEW q \in {"good", "bad"},
         NEW u, Stored(s, u, c, p, i, q), NEW M, L \subseteq M, q = "bad" => p \in M
  PROVE  Data(u, M)
  <1>0. s \in Mem /\ u \in Mem /\ Downloads(u) = Downloads(s)
    BY DEF Stored, Aside, Works, WorksBut
  <1>1. u.disk = [s.disk EXCEPT ![c][i] = q]
    BY DEF Stored
  <1>2. \A d \in Chunks \ {c} : u.disk[d] = s.disk[d]
    BY <1>0, <1>1, MemIs
  <1>3. c \in Chunks /\ u.disk[c][i] = q /\ \A j \in Pieces \ {i} : u.disk[c][j] = s.disk[c][j]
    BY <1>0, <1>1, MemIs
  <1>4. ASSUME NEW d \in Downloads(s) \ {c} PROVE HashOk(u, d) /\ BlameOk(u, d, M)
    <2>1. Core(s, u, d) /\ u.disk[d] = s.disk[d]
      BY <1>0, <1>2, MemIs DEF Stored
    <2>2. HashOk(s, d) /\ BlameOk(s, d, L)
      BY DEF Data
    <2> QED BY <2>1, <2>2 DEF Core, HashOk, BlameOk
  <1>5. /\ s.cur[c].hashed \in Nat /\ u.cur[c].hashed \in Nat /\ s.cur[c].got \subseteq Pieces
        /\ u.cur[c].got = s.cur[c].got \cup {i} /\ u.cur[c].from = s.cur[c].from \cup {p}
        /\ \A j \in 0 .. u.cur[c].hashed - 1 : j \in u.cur[c].got
        /\ u.cur[c].right <=> s.cur[c].right
              /\ \A j \in s.cur[c].hashed .. u.cur[c].hashed - 1 : u.disk[c][j] = "good"
        /\ s.cur[c].right \in BOOLEAN /\ u.cur[c].right \in BOOLEAN
    <2>1. s.cur[c].hashed \in 0 .. NumPieces /\ u.cur[c].hashed \in 0 .. NumPieces
          /\ s.cur[c].got \subseteq Pieces
          /\ s.cur[c].right \in BOOLEAN /\ u.cur[c].right \in BOOLEAN
      BY <1>0, CurIs
    <2>2. s.cur[c].hashed \in Nat /\ u.cur[c].hashed \in Nat
      BY <2>1, Sizes
    <2> QED BY <2>1, <2>2 DEF Stored
  <1>6. HashOk(s, c) /\ BlameOk(s, c, L)
    BY DEF Data
  <1>7. HashOk(u, c)
    <2> SUFFICES ASSUME u.cur[c].right, NEW j \in 0 .. u.cur[c].hashed - 1
                 PROVE  j \in u.cur[c].got /\ u.disk[c][j] = "good"
      BY DEF HashOk
    <2>1. j \in u.cur[c].got
      BY <1>5
    <2>2. CASE j >= s.cur[c].hashed
      <3>1. j \in s.cur[c].hashed .. u.cur[c].hashed - 1
        BY <1>5, <2>2
      <3> QED BY <1>5, <2>1, <3>1
    <2>3. CASE ~(j >= s.cur[c].hashed)
      <3>1. j \in 0 .. s.cur[c].hashed - 1 /\ s.cur[c].right
        BY <1>5, <2>3
      <3>2. j \in s.cur[c].got /\ s.disk[c][j] = "good"
        BY <1>6, <3>1 DEF HashOk
      <3>3. j \in Pieces \ {i}
        BY <1>5, <3>2
      <3> QED BY <1>3, <2>1, <3>2, <3>3
    <2> QED BY <2>2, <2>3
  <1>8. BlameOk(u, c, M)
    <2> SUFFICES ASSUME ~u.cur[c].right \/ \E j \in u.cur[c].got : u.disk[c][j] # "good"
                 PROVE  u.cur[c].from \cap M # {}
      BY DEF BlameOk
    <2>1. CASE q = "bad"
      BY <1>5, <2>1
    <2>2. CASE q = "good"
      <3>1. \A j \in u.cur[c].got : u.disk[c][j] # "good" =>
              j \in s.cur[c].got /\ s.disk[c][j] # "good"
        BY <1>3, <1>5, <2>2
      <3>2. ~s.cur[c].right \/ \E j \in s.cur[c].got : s.disk[c][j] # "good"
        <4>1. CASE \E j \in u.cur[c].got : u.disk[c][j] # "good"
          BY <3>1, <4>1
        <4>2. CASE ~u.cur[c].right /\ s.cur[c].right
          <5>1. PICK j \in s.cur[c].hashed .. u.cur[c].hashed - 1 : u.disk[c][j] # "good"
            BY <1>5, <4>2
          <5>2. j \in 0 .. u.cur[c].hashed - 1
            BY <1>5
          <5> QED BY <1>5, <3>1, <5>1, <5>2
        <4> QED BY <4>1, <4>2
      <3>3. s.cur[c].from \cap L # {}
        BY <1>6, <3>2 DEF BlameOk
      <3> QED BY <1>5, <3>3
    <2> QED BY <2>1, <2>2
  <1> QED BY <1>0, <1>4, <1>7, <1>8 DEF Data

\* Nothing of the data is different, but that chunks may be begun or given up
Fresh(s, c) == s.cur[c].got = {} /\ s.cur[c].hashed = 0 /\ s.cur[c].right
Same(s, u) ==
    /\ u.have = s.have /\ u.disk = s.disk /\ u.banned = s.banned
    /\ \A c \in Downloads(u) : (c \in Downloads(s) /\ Core(s, u, c)) \/ Fresh(u, c)

LEMMA SameTwice ==
  ASSUME NEW s, NEW u, NEW v, Same(s, u), Same(u, v)
  PROVE  Same(s, v)
  BY DEF Same, Core, Fresh

LEMMA SameData ==
  ASSUME NEW s, NEW L, Data(s, L), NEW u, Same(s, u), NEW M, L \subseteq M
  PROVE  Data(u, M)
  <1>1. ASSUME NEW c \in Downloads(u), c \in Downloads(s), Core(s, u, c)
        PROVE  HashOk(u, c) /\ BlameOk(u, c, M)
    <2>1. HashOk(s, c) /\ BlameOk(s, c, L)
      BY <1>1 DEF Data
    <2> QED BY <1>1, <2>1 DEF Same, Core, HashOk, BlameOk
  <1>2. ASSUME NEW c \in Downloads(u), Fresh(u, c)
        PROVE  HashOk(u, c) /\ BlameOk(u, c, M)
    <2>1. 0 .. 0 - 1 = {}
      OBVIOUS
    <2> QED BY <1>2, <2>1 DEF Fresh, HashOk, BlameOk
  <1> QED BY <1>1, <1>2 DEF Data, Same

LEMMA ResultSane ==
  ASSUME NEW s, Sane(s), NEW u, Result(s, u)
  PROVE  Sane(u) /\ Same(s, u)
  <1>1. /\ Rest(s, u) /\ Works(u) /\ Downloads(u) = Downloads(s)
        /\ Exact(s) => Exact(u)
        /\ \A c \in Downloads(s) : Core(s, u, c)
    BY DEF Result
  <1> QED BY <1>1 DEF Sane, Same, Rest, WebOk, Busy

LEMMA PieceReceivedWorks ==
  ASSUME NEW s, Sane(s), NEW p \in Peers, NEW r \in Requests, NEW q \in {"good", "bad"},
         NEW L, NEW M, L \subseteq M, q = "bad" => p \in M
  PROVE  LET u == PieceReceived(CancelRequest(s, p, r), p, r, q)
         IN  /\ Sane(u)
             /\ Data(s, L) => Data(u, M) /\ Moves(s, u) /\ u.banned \subseteq s.banned \cup M
  <1> DEFINE a == CancelRequest(s, p, r)
             c == r[1]
             i == r[2]
             t == StorePiece(a, c, p, i, q)
             w == Finish(t, c)
             u == PieceReceived(a, p, r, q)
  <1>0. /\ s \in Mem /\ Works(s) /\ WebOk(s) /\ Downloads(s) \cap s.have = {}
        /\ ~WebSeeds => Exact(s)
    BY DEF Sane, Works, WorksBut
  <1>1. AtOne(s, a, p)
    BY <1>0, CancelIs
  <1>2. r = <<c, i>> /\ c \in Chunks /\ i \in Pieces
    BY DEF Requests
  <1>3. u = IF Completed(a) \/ c \notin Downloads(a) \/ i \in a.cur[c].got THEN a
            ELSE IF t.cur[c].got = Pieces THEN w ELSE t
    BY DEF PieceReceived
  <1>4. a.cur = s.cur /\ Downloads(a) = Downloads(s) /\ a.have = s.have
    BY <1>1 DEF AtOne, Rest, Downloads
  <1>5. Completed(a) => c \notin Downloads(a)
    BY <1>0, <1>2, <1>4 DEF Completed
  <1>6. CASE c \notin Downloads(s) \/ i \in s.cur[c].got
    <2>1. u = a
      BY <1>3, <1>4, <1>6
    <2>2. Result(s, a)
      BY <1>0, <1>6, CancelWorks
    <2> HIDE DEF u, a
    <2>3. Sane(a) /\ Same(s, a)
      BY <2>2, ResultSane
    <2>4. Data(s, L) => Data(a, M)
      BY <2>3, SameData
    <2>5. Moves(s, a) /\ a.banned \subseteq s.banned \cup M
      BY <2>3 DEF Same, Moves
    <2> QED BY <2>1, <2>3, <2>4, <2>5 DEF u, a
  <1>7. CASE c \in Downloads(s) /\ i \notin s.cur[c].got
    <2>1. u = IF t.cur[c].got = Pieces THEN w ELSE t
      BY <1>3, <1>4, <1>5, <1>7
    <2>2. Stored(s, t, c, p, i, q)
      <3>1. q \in Content
        BY DEF Content
      <3>2. Stored(s, StorePiece(CancelRequest(s, p, <<c, i>>), c, p, i, q), c, p, i, q)
        <4> HIDE DEF c, i
        <4> QED BY <1>0, <1>2, <1>7, <3>1, StoreWorks
      <3>3. CancelRequest(s, p, <<c, i>>) = a
        BY <1>2
      <3> HIDE DEF a, c, i
      <3> QED BY <3>2, <3>3
    <2> HIDE DEF u, t, a, c, i
    <2>3. /\ t \in Mem /\ t.have = s.have /\ t.banned = s.banned /\ t.web = s.web
          /\ Downloads(t) = Downloads(s) /\ Works(t) /\ (Exact(s) => Exact(t))
          /\ t.disk = [s.disk EXCEPT ![c][i] = q]
      BY <2>2 DEF Stored, Aside
    <2>4. WebOk(t) /\ Downloads(t) \cap t.have = {}
      BY <1>0, <2>3 DEF WebOk, Busy
    <2>5. Data(s, L) => Data(t, M)
      BY <1>0, <1>2, <1>7, <2>2, StoredData
    <2>6. c \notin s.have /\ q \in Content \ {"none"}
      BY <1>0, <1>7 DEF Content
    <2>7. CASE t.cur[c].got # Pieces
      <3>1. u = t
        BY <2>1, <2>7
      <3>2. Sane(t)
        BY <1>0, <2>3, <2>4 DEF Sane
      <3>3. Writes(s, t, c, i)
        BY <2>3, <2>6 DEF Writes
      <3>4. Moves(s, t)
        BY <1>2, <3>3 DEF Moves
      <3> QED BY <2>3, <2>5, <3>1, <3>2, <3>4 DEF u, a
    <2>8. CASE t.cur[c].got = Pieces
      <3>1. u = w
        BY <2>1, <2>8
      <3>2. ToSet(t.cur[c].pds) = {} /\ t.cur[c].hashed = NumPieces
        BY <2>2, <2>8 DEF Stored
      <3>3. /\ Works(w) /\ WebOk(w) /\ Downloads(w) \cap w.have = {} /\ (Exact(t) => Exact(w))
            /\ w.disk = t.disk /\ Downloads(w) = Downloads(t) \ {c}
            /\ \A d \in Downloads(w) : w.cur[d] = t.cur[d]
            /\ t.cur[c].right => w.have = t.have \cup {c} /\ w.banned = t.banned
            /\ ~t.cur[c].right => /\ w.have = t.have
                                  /\ w.banned \subseteq
                                       t.banned \cup {x \in Peers : t.cur[c].from = {x}}
        BY <1>7, <2>3, <2>4, <3>2, FinishWorks
      <3> HIDE DEF w
      <3>4. Sane(w)
        BY <1>0, <2>3, <3>3 DEF Sane
      <3> SUFFICES ASSUME Data(s, L)
                   PROVE  Data(w, M) /\ Moves(s, w) /\ w.banned \subseteq s.banned \cup M
        BY <3>1, <3>4 DEF u, a
      <3>5. Data(t, M)
        BY <2>5
      <3>6. Data(w, M)
        BY <3>3, <3>5 DEF Data, HashOk, BlameOk
      <3>7. HashOk(t, c) /\ BlameOk(t, c, M)
        BY <1>7, <2>3, <3>5 DEF Data
      <3>8. CASE t.cur[c].right
        <4>1. \A j \in Pieces : w.disk[c][j] = "good"
          BY <3>2, <3>3, <3>7, <3>8 DEF HashOk, Pieces
        <4>2. Writes(s, w, c, i)
          BY <2>3, <2>6, <3>3, <3>8, <4>1 DEF Writes
        <4> QED BY <1>2, <2>3, <3>3, <3>6, <3>8, <4>2 DEF Moves
      <3>9. CASE ~t.cur[c].right
        <4>1. t.cur[c].from \cap M # {}
          BY <3>7, <3>9 DEF BlameOk
        <4>2. {x \in Peers : t.cur[c].from = {x}} \subseteq M
          BY <4>1
        <4>3. Writes(s, w, c, i)
          BY <2>3, <2>6, <3>3, <3>9 DEF Writes
        <4> QED BY <1>2, <2>3, <3>3, <3>6, <3>9, <4>2, <4>3 DEF Moves
      <3> QED BY <3>8, <3>9
    <2> QED BY <2>7, <2>8
  <1> QED BY <1>6, <1>7

-----------------------------------------------------------------------------
(* Peers and the web seed are put to work                                   *)

\* A list of all chunks has one of them first
LEMMA FirstInIs ==
  ASSUME NEW order \in SetToSeqs(Chunks), NEW C, C \subseteq Chunks, C # {}
  PROVE  FirstIn(order, C) \in C
  <1> DEFINE n == Cardinality(Chunks)
             D == 1 .. n
             P == {i \in DOMAIN order : order[i] \in C}
  <1>1. IsFiniteSet(Chunks) /\ n \in Nat
    BY FiniteRequests, FS_CardinalityType
  <1>2. order \in [D -> Chunks] /\ \A i, j \in D : i # j => order[i] # order[j]
    BY DEF SetToSeqs
  <1>3. IsFiniteSet(D) /\ Cardinality(D) = n
    BY <1>1, FS_Interval
  <1>4. order \in Injection(D, Chunks)
    BY <1>2 DEF Injection, IsInjective
  <1>5. order \in Surjection(D, Chunks)
    <2> HIDE DEF D
    <2> QED BY <1>1, <1>3, <1>4, FS_Injection
  <1>6. PICK c \in C : TRUE
    OBVIOUS
  <1>7. \E i \in D : order[i] = c
    BY <1>5, <1>6 DEF Surjection
  <1>8. P \subseteq Nat /\ P # {}
    BY <1>1, <1>2, <1>6, <1>7
  <1>9. Min(P) \in P
    <2> HIDE DEF P
    <2> QED BY <1>8, MinIn
  <1> QED BY <1>9 DEF FirstIn

\* What there is to do for a peer: a chunk that it does not work on
LEMMA ChunkForIs ==
  ASSUME NEW s \in Mem, NEW p \in Peers, NEW order \in SetToSeqs(Chunks)
  PROVE  LET c == ChunkFor(s, p, order)
         IN  \/ c = NumChunks
             \/ c \in Downloads(s) /\ p \notin ToSet(s.cur[c].pds)
             \/ c \in Chunks /\ c \notin s.have \cup Downloads(s)
  <1> DEFINE c == ChunkFor(s, p, order)
             free == Unattended(s, p)
             least == {x \in free : \A d \in free :
                         Left(s, x) < Left(s, d) \/ (Left(s, x) = Left(s, d) /\ x <= d)}
             new == {x \in Has[p] : x \notin s.have \cup Downloads(s)}
             others == {x \in Downloads(s) \cap Has[p] : x \notin Uses(s, p)}
  <1>0. Has[p] \subseteq Chunks /\ Downloads(s) \subseteq Chunks
    BY MemIs, DownloaderAssumption
  <1>1. c = CASE free # {} -> CHOOSE x \in least : TRUE
              [] free = {} /\ new # {} -> FirstIn(order, new)
              [] free = {} /\ new = {} /\ others # {} /\ s.peer[p].grabbed = 0 ->
                   FirstIn(order, others)
              [] OTHER -> NumChunks
    BY DEF ChunkFor
  <1>2. ASSUME free # {} PROVE least # {}
    <2>1. free \subseteq Downloads(s) /\ free \subseteq Nat
      BY <1>0 DEF Unattended, Chunks
    <2>2. \A x \in free : Left(s, x) \in Nat
      <3> SUFFICES ASSUME NEW x \in free PROVE Left(s, x) \in Nat
        OBVIOUS
      <3>1. s.cur[x].got \in SUBSET Pieces
        BY <2>1, CurIs
      <3>2. Cardinality(Pieces) = NumPieces /\ IsFiniteSet(Pieces)
        BY Sizes, FS_Interval DEF Pieces
      <3>3. Cardinality(s.cur[x].got) <= NumPieces /\ Cardinality(s.cur[x].got) \in Nat
        BY <3>1, <3>2, FS_Subset, FS_CardinalityType
      <3> QED BY <3>3, Sizes DEF Left
    <2> DEFINE N == {Left(s, x) : x \in free}
    <2>3. N \subseteq Nat /\ N # {}
      BY <1>2, <2>2
    <2>4. PICK k \in N : \A y \in N : k <= y
      <3> HIDE DEF N
      <3> QED BY <2>3, FWithout!LeastOf
    <2> DEFINE B == {x \in free : Left(s, x) = k}
    <2>5. B \subseteq Nat /\ B # {}
      BY <2>1, <2>4
    <2>6. PICK x \in B : \A y \in B : x <= y
      <3> HIDE DEF B
      <3> QED BY <2>5, FWithout!LeastOf
    <2>7. \A d \in free : Left(s, x) < Left(s, d) \/ (Left(s, x) = Left(s, d) /\ x <= d)
      <3> SUFFICES ASSUME NEW d \in free
                   PROVE  Left(s, x) < Left(s, d) \/ (Left(s, x) = Left(s, d) /\ x <= d)
        OBVIOUS
      <3>1. k <= Left(s, d) /\ Left(s, x) = k /\ k \in Nat /\ Left(s, d) \in Nat
        BY <2>2, <2>3, <2>4, <2>6
      <3>2. CASE Left(s, d) = k
        BY <2>6, <3>1, <3>2
      <3>3. CASE Left(s, d) # k
        BY <3>1, <3>3
      <3> QED BY <3>2, <3>3
    <2> QED BY <2>6, <2>7
  <1> HIDE DEF c
  <1>3. CASE free # {}
    <2>1. c \in free
      <3> HIDE DEF free
      <3>1. c \in least
        BY <1>1, <1>2, <1>3
      <3> QED BY <3>1
    <2>2. ToSet(<<>>) = {}
      BY DEF ToSet
    <2> QED BY <2>1, <2>2 DEF Unattended, c
  <1>4. CASE free = {} /\ new # {}
    <2>1. c = FirstIn(order, new)
      <3> HIDE DEF free, new, others, least
      <3> QED BY <1>1, <1>4
    <2>2. new \subseteq Chunks
      BY <1>0
    <2>3. c \in new
      <3> HIDE DEF new
      <3> QED BY <1>4, <2>1, <2>2, FirstInIs
    <2> QED BY <1>0, <2>3 DEF c
  <1>5. CASE free = {} /\ new = {} /\ others # {} /\ s.peer[p].grabbed = 0
    <2>1. c = FirstIn(order, others)
      <3> HIDE DEF free, new, others, least
      <3> QED BY <1>1, <1>5
    <2>2. others \subseteq Chunks
      BY <1>0
    <2>3. c \in others
      <3> HIDE DEF others
      <3> QED BY <1>5, <2>1, <2>2, FirstInIs
    <2> QED BY <2>3, UsesIs DEF c
  <1>6. CASE free = {} /\ new = {} /\ ~(others # {} /\ s.peer[p].grabbed = 0)
    <2>1. c = NumChunks
      <3> HIDE DEF free, new, others, least
      <3> QED BY <1>1, <1>6
    <2> QED BY <2>1 DEF c
  <1> QED BY <1>3, <1>4, <1>5, <1>6

\* The invariant is kept, and no data is touched
Quiet(s, u) == Sane(u) /\ Same(s, u)

LEMMA QuietSame == ASSUME NEW s, Sane(s) PROVE Quiet(s, s)
  BY DEF Quiet, Same, Core

LEMMA QuietTwice ==
  ASSUME NEW s, NEW u, NEW v, Quiet(s, u), Quiet(u, v)
  PROVE  Quiet(s, v)
  BY SameTwice DEF Quiet

LEMMA ResultQuiet == ASSUME NEW s, Sane(s), NEW u, Result(s, u) PROVE Quiet(s, u)
  BY ResultSane DEF Quiet

\* Peer p is put to chunk c
LEMMA AssignWorks ==
  ASSUME NEW s, Sane(s), NEW c \in Downloads(s), NEW p \in Peers, p \notin ToSet(s.cur[c].pds)
  PROVE  Quiet(s, Assign(s, c, p))
  <1> DEFINE g == s.peer[p].grabbed + 1
             pd == [s.peer[p] EXCEPT !.grabbed = g]
             a == [s EXCEPT !.peer[p] = pd]
             q == Append(s.cur[c].pds, p)
             b == WithPds(a, c, q)
             u == SendRequests(b, c)
  <1>0. s \in Mem /\ Works(s)
    BY DEF Sane, Works, WorksBut
  <1>1. /\ pd \in AtPeer /\ pd.grabbed = g /\ pd.state = s.peer[p].state
        /\ pd.choked = s.peer[p].choked /\ pd.reqs = s.peer[p].reqs /\ pd.wait = s.peer[p].wait
    <2>1. g \in Nat
      BY <1>0, PeerIs
    <2> HIDE DEF g
    <2> QED BY <1>0, <2>1, PeerIs DEF AtPeer
  <1>2. Assign(s, c, p) = SendRequests([a EXCEPT !.cur[c].pds = Append(a.cur[c].pds, p)], c)
    BY DEF Assign
  <1> HIDE DEF pd
  <1>3. /\ Rest(s, a) /\ a.cur = s.cur /\ a.peer[p] = pd
        /\ \A o \in Peers \ {p} : a.peer[o] = s.peer[o]
    BY <1>0, <1>1, PeerEdit
  <1> HIDE DEF a
  <1>4. a \in Mem /\ Downloads(a) = Downloads(s)
    BY <1>3 DEF Rest, Downloads
  <1>5. Assign(s, c, p) = u
    BY <1>2, <1>3 DEF WithPds
  <1>6. s.cur[c].pds \in Seq(Peers) /\ IsInjective(s.cur[c].pds)
    BY <1>0, CurIs, WorksIs
  <1>7. q \in Seq(Peers) /\ ToSet(q) = ToSet(s.cur[c].pds) \cup {p} /\ IsInjective(q)
    BY <1>6, AppendFacts
  <1> HIDE DEF q
  <1>8. /\ Touched(a, b, c, p) /\ b.peer = a.peer /\ b.cur[c].pds = q /\ b.cur[c].ds = a.cur[c].ds
    BY <1>4, <1>7, PdsEdit
  <1> HIDE DEF b, u
  <1>9. Touched(s, b, c, p)
    <2>1. Touched(s, a, c, p)
      BY <1>1, <1>3 DEF Touched, Core, Downloads
    <2> QED BY <1>8, <2>1, TouchedTwice
  <1>10. b.cur[c].ds = s.cur[c].ds /\ Asks(b, p) = Asks(s, p) /\ b.peer[p].grabbed = g
         /\ b.cur[c].pds = q
    BY <1>1, <1>3, <1>8 DEF Asks
  <1>11. Works(b)
    <2>1. WorksBut(s, c, p)
      BY <1>0, WorksButOne
    <2>2. AskedOk(s, c, p) /\ b.cur[c].got = s.cur[c].got
      BY <1>0, <1>9, WorksIs DEF Touched, Core
    <2>3. AskedOk(b, c, p)
      BY <1>10, <2>2 DEF AskedOk
    <2>4. \A r \in Asks(b, p) : r[1] = c => r[2] \in b.cur[c].ds[p]
      BY <1>0, <1>10, WorksIs
    <2>5. b.cur[c].ds[p] # {} => p \in ToSet(b.cur[c].pds)
      BY <1>7, <1>10
    <2> QED BY <1>7, <1>9, <1>10, <2>1, <2>3, <2>4, <2>5, TouchedWorks
  <1>12. Exact(s) => Exact(b)
    <2>1. ToSet(b.cur[c].pds) = ToSet(s.cur[c].pds) \cup {p} /\ b.peer[p].grabbed = s.peer[p].grabbed + 1
      BY <1>7, <1>10 DEF g
    <2> QED BY <1>0, <1>9, <2>1, ExactMore
  <1>13. Quiet(s, b)
    <2>1. Same(s, b)
      BY <1>9 DEF Touched, Same, Rest, Core
    <2>2. WebOk(b) /\ Downloads(b) \cap b.have = {}
      BY <1>9 DEF Touched, Rest, Sane, WebOk, Busy
    <2> QED BY <1>11, <1>12, <2>1, <2>2 DEF Quiet, Sane
  <1>14. Quiet(b, u)
    <2>1. u \in Asked(b, c)
      BY <1>4, <1>8, <1>11, SendRequestsWorks DEF Touched, u
    <2> QED BY <1>13, <2>1, ResultQuiet DEF Asked, Quiet
  <1> QED BY <1>5, <1>13, <1>14, QuietTwice

\* A download of chunk c is begun
Begun(s, c) ==
    IF c \in Downloads(s) THEN s
    ELSE [s EXCEPT !.cur = [d \in Downloads(s) \cup {c} |->
                              IF d = c THEN NewDownload ELSE s.cur[d]]]

LEMMA NewIs ==
  /\ NewDownload \in Downloading /\ NewDownload.got = {} /\ NewDownload.hashed = 0
  /\ NewDownload.right = TRUE /\ NewDownload.from = {} /\ NewDownload.pds = <<>>
  /\ NewDownload.ds = [p \in Peers |-> {}]
  <1>1. 0 \in 0 .. NumPieces /\ <<>> \in Seq(Peers) /\ {} \in SUBSET (Peers \cup {Earlier})
    BY Sizes
  <1> QED BY <1>1 DEF NewDownload, Downloading

LEMMA NoneIn == ToSet(<<>>) = {} /\ IsInjective(<<>>)
  BY DEF ToSet, IsInjective

LEMMA BegunWorks ==
  ASSUME NEW s, Sane(s), NEW c \in Chunks, c \notin s.have
  PROVE  LET u == Begun(s, c)
         IN  /\ Quiet(s, u) /\ c \in Downloads(u) /\ u.peer = s.peer
             /\ IF c \in Downloads(s) THEN u.cur[c] = s.cur[c] ELSE u.cur[c].pds = <<>>
  <1>1. CASE c \in Downloads(s)
    BY <1>1, QuietSame DEF Begun
  <1>2. CASE c \notin Downloads(s)
    <2> DEFINE D == Downloads(s) \cup {c}
               f == [d \in D |-> IF d = c THEN NewDownload ELSE s.cur[d]]
               u == [s EXCEPT !.cur = f]
    <2>0. s \in Mem /\ Works(s)
      BY DEF Sane, Works, WorksBut
    <2>1. D \in SUBSET Chunks /\ f \in [D -> Downloading]
      <3>1. Downloads(s) \in SUBSET Chunks /\ s.cur \in [Downloads(s) -> Downloading]
        BY <2>0, MemIs
      <3> QED BY <3>1, NewIs
    <2>2. f \in CurMaps
      <3> HIDE DEF D, f
      <3> QED BY <2>1 DEF CurMaps
    <2>3. DOMAIN f = D /\ f[c] = NewDownload /\ \A d \in Downloads(s) : f[d] = s.cur[d]
      BY <1>2
    <2>4. Begun(s, c) = u
      BY <1>2 DEF Begun
    <2> HIDE DEF f
    <2>5. Rest(s, u) /\ u.cur = f /\ u.peer = s.peer
      BY <2>0, <2>2 DEF Mem, Rest
    <2> HIDE DEF u
    <2>6. /\ u \in Mem /\ Downloads(u) = D /\ u.cur[c] = NewDownload
          /\ \A d \in Downloads(s) : u.cur[d] = s.cur[d]
      BY <2>3, <2>5 DEF Rest, Downloads
    <2>7. \A p \in Peers : Asks(u, p) = Asks(s, p) /\ u.cur[c].ds[p] = {}
      BY <2>5, <2>6, NewIs DEF Asks
    <2>8. ToSet(u.cur[c].pds) = {} /\ IsInjective(u.cur[c].pds)
      BY <2>6, NewIs, NoneIn
    <2>9. Works(u)
      <3>1. ASSUME NEW d \in Downloads(u), NEW p \in Peers
            PROVE  (u.cur[d].ds[p] # {} => p \in ToSet(u.cur[d].pds)) /\ AskedOk(u, d, p)
        <4>1. CASE d = c
          BY <2>7, <4>1 DEF AskedOk
        <4>2. CASE d # c
          BY <2>0, <2>6, <2>7, <4>2, WorksIs DEF AskedOk
        <4> QED BY <4>1, <4>2
      <3>2. \A p \in Peers : \A r \in Asks(u, p) :
              r[1] \in Downloads(u) /\ r[2] \in u.cur[r[1]].ds[p]
        BY <2>0, <2>6, <2>7, WorksIs
      <3>3. \A d \in Downloads(u) : IsInjective(u.cur[d].pds)
        BY <2>0, <2>6, <2>8, WorksIs
      <3> QED BY <2>6, <3>1, <3>2, <3>3, WorksIs
    <2>10. Exact(s) => Exact(u)
      <3>1. ASSUME NEW p \in Peers PROVE Uses(u, p) = Uses(s, p)
        <4>1. \A d : d \in Uses(u, p) <=> d \in Uses(s, p)
          BY <2>0, <2>6, <2>8, InUses
        <4> QED BY <4>1
      <3> QED BY <2>5, <3>1 DEF Exact
    <2>11. Same(s, u)
      BY <2>5, <2>6, NewIs DEF Same, Rest, Core, Fresh
    <2>12. WebOk(u) /\ Downloads(u) \cap u.have = {}
      BY <2>5, <2>6 DEF Rest, Sane, WebOk, Busy
    <2>13. Quiet(s, u)
      BY <2>9, <2>10, <2>11, <2>12 DEF Quiet, Sane
    <2> QED BY <1>2, <2>4, <2>5, <2>6, <2>13, NewIs
  <1> QED BY <1>1, <1>2

\* What a peer is asked and how many chunks it works on decide; the rest of what is
\* known of a peer may change
WithPeers(s, f) == [s EXCEPT !.peer = f]

LEMMA PeersEdit ==
  ASSUME NEW s, Sane(s), NEW f \in [Peers -> AtPeer],
         \A p \in Peers : /\ f[p].reqs = s.peer[p].reqs /\ f[p].wait = s.peer[p].wait
                          /\ f[p].grabbed = s.peer[p].grabbed
  PROVE  LET u == WithPeers(s, f)
         IN  Quiet(s, u) /\ Rest(s, u) /\ u.peer = f /\ u.cur = s.cur
  <1> DEFINE u == WithPeers(s, f)
  <1>0. s \in Mem /\ Works(s)
    BY DEF Sane, Works, WorksBut
  <1>1. Rest(s, u) /\ u.peer = f /\ u.cur = s.cur
    BY <1>0 DEF Mem, Rest, WithPeers
  <1> HIDE DEF u
  <1>2. Works(u) /\ (Exact(s) => Exact(u))
    BY <1>0, <1>1, WorksSame DEF Rest, Asks
  <1>3. Same(s, u)
    BY <1>1 DEF Same, Rest, Core, Downloads
  <1>4. WebOk(u) /\ Downloads(u) \cap u.have = {}
    BY <1>1 DEF Rest, Sane, WebOk, Busy, Downloads
  <1> QED BY <1>1, <1>2, <1>3, <1>4 DEF Quiet, Sane, u

LEMMA NearlyEdit ==
  ASSUME NEW s, Sane(s), NEW p \in Peers
  PROVE  Quiet(s, [s EXCEPT !.peer[p].nearly = FALSE])
  <1> DEFINE f == [s.peer EXCEPT ![p] = [s.peer[p] EXCEPT !.nearly = FALSE]]
  <1>0. s \in Mem
    BY DEF Sane, Works, WorksBut
  <1>1. f \in [Peers -> AtPeer]
    <2>1. [s.peer[p] EXCEPT !.nearly = FALSE] \in AtPeer
      BY <1>0, PeerIs DEF AtPeer
    <2> QED BY <1>0, <2>1, MemIs
  <1>2. \A q \in Peers : /\ f[q].reqs = s.peer[q].reqs /\ f[q].wait = s.peer[q].wait
                         /\ f[q].grabbed = s.peer[q].grabbed
    BY <1>0, PeerIs, MemIs DEF AtPeer
  <1>3. [s EXCEPT !.peer[p].nearly = FALSE] = WithPeers(s, f)
    BY DEF WithPeers
  <1> HIDE DEF f
  <1>4. Quiet(s, WithPeers(s, f))
    BY <1>1, <1>2, PeersEdit
  <1> QED BY <1>3, <1>4

LEMMA DownloadFromWorks ==
  ASSUME NEW s, Sane(s), NEW p \in Peers, NEW order \in SetToSeqs(Chunks)
  PROVE  Quiet(s, DownloadFrom(s, p, order))
  <1> DEFINE c == ChunkFor(s, p, order)
             t == Begun(s, c)
             u == Assign(t, c, p)
             Idles == s.peer[p].choked \/ ~CanDownloadChunk(s, p) \/ c = NumChunks
  <1>0. s \in Mem
    BY DEF Sane, Works, WorksBut
  <1>1. DownloadFrom(s, p, order) = IF Idles THEN s ELSE [u EXCEPT !.peer[p].nearly = FALSE]
    BY DEF DownloadFrom, Begun
  <1>2. \/ c = NumChunks
        \/ c \in Downloads(s) /\ p \notin ToSet(s.cur[c].pds)
        \/ c \in Chunks /\ c \notin s.have \cup Downloads(s)
    BY <1>0, ChunkForIs
  <1> HIDE DEF c
  <1>3. CASE Idles
    BY <1>1, <1>3, QuietSame
  <1>4. CASE ~Idles
    <2>1. c \in Chunks /\ c \notin s.have
      BY <1>0, <1>2, <1>4, MemIs DEF Sane
    <2>2. /\ Quiet(s, t) /\ c \in Downloads(t)
          /\ IF c \in Downloads(s) THEN t.cur[c] = s.cur[c] ELSE t.cur[c].pds = <<>>
      BY <2>1, BegunWorks
    <2> HIDE DEF t
    <2>3. p \notin ToSet(t.cur[c].pds)
      BY <1>2, <1>4, <2>2, NoneIn
    <2>4. Quiet(t, u)
      BY <2>2, <2>3, AssignWorks DEF Quiet
    <2> HIDE DEF u
    <2>5. Quiet(u, [u EXCEPT !.peer[p].nearly = FALSE])
      BY <2>4, NearlyEdit DEF Quiet
    <2> QED BY <1>1, <1>4, <2>2, <2>4, <2>5, QuietTwice
  <1> QED BY <1>3, <1>4

\* All that can come of s quietly
After(s) == {t \in Mem : Quiet(s, t)}

LEMMA AfterFacts ==
  /\ \A s : Sane(s) => s \in After(s)
  /\ \A s, t, u : t \in After(s) /\ Quiet(t, u) => u \in After(s)
  /\ \A s, t : t \in After(s) => Sane(t) /\ Quiet(s, t)
  <1>1. \A s : Sane(s) => s \in Mem
    BY DEF Sane, Works, WorksBut
  <1>2. \A s, t : Quiet(s, t) => Sane(t)
    BY DEF Quiet
  <1> QED BY <1>1, <1>2, QuietSame, QuietTwice DEF After

LEMMA TriesWorks ==
  ASSUME NEW s, Sane(s), NEW p \in Peers, NEW order \in SetToSeqs(Chunks)
  PROVE  Quiet(s, Tries(s, p, order))
  <1> DEFINE A == After(s)
             N == [n \in 1 .. MaxGrab + 1 |-> n]
             u == Tries(s, p, order)
  <1>1. u = FFrom!SeqFold(p, order, s, N)
    BY DEF Tries, FFrom!SeqFold, FoldLeft, MapThenFoldSet, Max, OpFrom
  <1>2. \A n \in Nat : \A v \in A : OpFrom(p, order, n, v) \in A
    BY AfterFacts, DownloadFromWorks DEF OpFrom
  <1>3. N \in Seq(Nat) /\ s \in A
    BY Sizes, AfterFacts
  <1> HIDE DEF A, u, N
  <1>4. FFrom!SeqFold(p, order, s, N) \in A
    BY <1>2, <1>3, FFrom!SeqFoldIn
  <1> QED BY <1>1, <1>4, AfterFacts DEF A, u

LEMMA TendWorks ==
  ASSUME NEW s, Sane(s), NEW c \in Downloads(s), NEW slow
  PROVE  Result(s, Tend(s, c, slow))
  <1>1. Works(s)
    BY DEF Sane
  <1>2. Result(s, s) /\ Result(s, ReleaseAll(s, c)) /\ Result(s, SendRequests(s, c))
    BY <1>1, ResultSame, ReleaseAllWorks, SendRequestsWorks DEF Asked
  <1> QED BY <1>2 DEF Tend

LEMMA TendedWorks ==
  ASSUME Sane(m), NEW slow
  PROVE  Quiet(m, Tended(slow))
  <1> DEFINE D == Downloads(m)
             A == {t \in Mem : Sane(t) /\ Result(m, t)}
             u == Tended(slow)
  <1>0. m \in Mem /\ D \in SUBSET Chunks
    BY MemIs DEF Sane, Works, WorksBut
  <1>1. u = FTend!SetFold(slow, 0, m, D)
    BY DEF Tended, FoldSet, MapThenFoldSet, FTend!SetFold, OpTend
  <1>2. FTend!IsFiniteSet(D)
    <2>1. IsFiniteSet(D)
      BY <1>0, FiniteRequests, FS_Subset
    <2> QED BY <2>1 DEF IsFiniteSet, FTend!IsFiniteSet
  <1>3. ASSUME NEW c \in D, NEW t \in A PROVE OpTend(slow, 0, c, t) \in A
    <2>1. c \in Downloads(t)
      BY DEF Result
    <2>2. Result(t, Tend(t, c, slow))
      BY <2>1, TendWorks
    <2>3. Result(m, Tend(t, c, slow)) /\ Sane(Tend(t, c, slow))
      BY <2>2, ResultTwice, ResultSane
    <2> QED BY <2>3 DEF OpTend, Result, Rest
  <1>4. m \in A
    BY <1>0, ResultSame DEF Sane
  <1> HIDE DEF A, D, u
  <1>5. FTend!SetFold(slow, 0, m, D) \in A
    BY <1>2, <1>3, <1>4, FTend!SetFoldIn
  <1> QED BY <1>1, <1>5, ResultQuiet DEF A, u

\* A pair of chunks that are in order
Span(x) == x \in Chunks \X Chunks /\ x[1] <= x[2]

\* The first of some runs of chunks
LEMMA FirstRun ==
  ASSUME NEW R, R \subseteq Chunks \X Chunks, R # {}
  PROVE  (CHOOSE ab \in R : \A cd \in R : ab[1] <= cd[1]) \in R
  <1> DEFINE N == {ab[1] : ab \in R}
  <1>1. N \subseteq Nat /\ N # {}
    BY DEF Chunks
  <1>2. PICK k \in N : \A y \in N : k <= y
    <2> HIDE DEF N
    <2> QED BY <1>1, FWithout!LeastOf
  <1>3. \E ab \in R : \A cd \in R : ab[1] <= cd[1]
    BY <1>2
  <1> QED BY <1>3

LEMMA RangeIs ==
  ASSUME NEW free
  PROVE  LET x == SelectRange(free) IN x[1] = NumChunks \/ Span(x)
  <1> DEFINE runs == {ab \in Chunks \X Chunks :
                        /\ ab[1] <= ab[2] /\ ab[1] .. ab[2] \subseteq free
                        /\ ab[1] - 1 \notin free /\ ab[2] + 1 \notin free}
             size(ab) == ab[2] - ab[1] + 1
             long == {ab \in runs : size(ab) >= WebRange}
             short == {ab \in runs : ab[1] > 0}
             longest == {ab \in short : \A cd \in short : size(cd) <= size(ab)}
             first(R) == CHOOSE ab \in R : \A cd \in R : ab[1] <= cd[1]
             x == SelectRange(free)
  <1>0. /\ NumChunks \in Nat /\ WebRange \in Nat /\ WebRange > 0
        /\ Chunks \subseteq Nat /\ \A a \in Chunks : a < NumChunks
        /\ \A a \in Nat : a < NumChunks => a \in Chunks
    BY Sizes DEF Chunks
  <1>1. x = IF long # {} THEN <<first(long)[1], first(long)[1] + WebRange - 1>>
            ELSE IF short # {} THEN first(longest)
            ELSE <<NumChunks, NumChunks>>
    BY DEF SelectRange
  <1> HIDE DEF x
  <1>2. CASE long # {}
    <2> DEFINE f == first(long)
    <2>1. f \in long
      <3>1. long \subseteq Chunks \X Chunks
        OBVIOUS
      <3> HIDE DEF long
      <3> QED BY <1>2, <3>1, FirstRun
    <2>2. x = <<f[1], f[1] + WebRange - 1>>
      BY <1>1, <1>2
    <2> HIDE DEF f
    <2>3. f \in Chunks \X Chunks /\ f[2] - f[1] + 1 >= WebRange
      BY <2>1
    <2>4. f[1] \in Nat /\ f[2] \in Nat /\ f[2] < NumChunks /\ f[1] \in Chunks
      BY <1>0, <2>3
    <2>5. f[1] + WebRange - 1 \in Nat /\ f[1] + WebRange - 1 < NumChunks
          /\ f[1] <= f[1] + WebRange - 1
      BY <1>0, <2>3, <2>4
    <2>6. f[1] + WebRange - 1 \in Chunks
      BY <1>0, <2>5
    <2> QED BY <2>2, <2>4, <2>5, <2>6 DEF Span, x
  <1>3. CASE long = {} /\ short # {}
    <2>1. short \subseteq Chunks \X Chunks /\ \A ab \in short : ab[1] <= ab[2]
      OBVIOUS
    <2> HIDE DEF short
    <2> DEFINE N == {size(ab) : ab \in short}
    <2>2. N \subseteq 0 .. NumChunks /\ N # {}
      <3>1. ASSUME NEW ab \in short PROVE size(ab) \in 0 .. NumChunks
        <4>1. /\ ab[1] \in Nat /\ ab[2] \in Nat /\ ab[1] <= ab[2] /\ ab[2] < NumChunks
          BY <1>0, <2>1
        <4> QED BY <1>0, <4>1
      <3> QED BY <1>3, <3>1
    <2>3. Max(N) \in N /\ \A y \in N : Max(N) >= y
      <3> HIDE DEF N
      <3> QED BY <1>0, <2>2, MaxIn
    <2>4. longest # {} /\ longest \subseteq short
      <3>1. PICK ab \in short : size(ab) = Max(N)
        BY <2>3
      <3>2. \A cd \in short : size(cd) \in N
        OBVIOUS
      <3>3. \A cd \in short : size(cd) <= size(ab)
        BY <2>2, <2>3, <3>1, <3>2
      <3> QED BY <3>3
    <2>5. first(longest) \in longest
      <3>1. longest \subseteq Chunks \X Chunks
        BY <2>1, <2>4
      <3> HIDE DEF longest
      <3> QED BY <2>4, <3>1, FirstRun
    <2>6. x = first(longest)
      BY <1>1, <1>3
    <2> HIDE DEF longest
    <2> QED BY <2>1, <2>4, <2>5, <2>6 DEF Span, x
  <1>4. CASE long = {} /\ short = {}
    <2>1. x = <<NumChunks, NumChunks>>
      BY <1>1, <1>4
    <2> QED BY <2>1 DEF x
  <1> QED BY <1>2, <1>3, <1>4

LEMMA StartWebWorks ==
  ASSUME NEW s, Sane(s)
  PROVE  Quiet(s, StartWeb(s))
  <1> DEFINE missing == Chunks \ s.have
             plain == SelectRange(missing \ Downloads(s))
             range == IF plain[1] < NumChunks THEN plain ELSE SelectRange(missing)
             w == [s.web EXCEPT !.first = range[1], !.last = range[2], !.cur = range[1], !.n = 0]
             u == WithWeb(s, w, s.webch)
             Idles == ~WebSeeds \/ Busy(s) \/ s.web.failed >= 3 \/ range[1] = NumChunks
  <1>0. s \in Mem /\ Works(s)
    BY DEF Sane, Works, WorksBut
  <1>2. StartWeb(s) = IF Idles THEN s ELSE [s EXCEPT !.web = w]
    BY DEF StartWeb
  <1>3. range[1] = NumChunks \/ Span(range)
    BY RangeIs
  <1> HIDE DEF range
  <1>4. CASE Idles
    BY <1>2, <1>4, QuietSame
  <1>5. CASE ~Idles
    <2>1. Span(range)
      BY <1>3, <1>5
    <2>2. range[1] \in Nat /\ range[2] \in Nat /\ range[1] <= range[2] /\ range[2] < NumChunks
      BY <2>1, Sizes DEF Span, Chunks
    <2>3. /\ w \in WebState /\ w.first = range[1] /\ w.last = range[2] /\ w.cur = range[1] /\ w.n = 0
      BY <1>0, <2>2, MemIs DEF WebState
    <2> HIDE DEF w
    <2>4. WebOnly(s, u) /\ u.web = w
      BY <1>0, <2>3, MemIs, WebEdit
    <2>5. StartWeb(s) = u
      BY <1>0, <1>2, <1>5 DEF Mem, WithWeb
    <2> HIDE DEF u
    <2>6. Works(u) /\ (Exact(s) => Exact(u))
      BY <1>0, <2>4, WorksSame DEF WebOnly, Asks
    <2>7. WebOk(u)
      BY <1>5, <2>2, <2>3, <2>4, Sizes DEF WebOk, Busy
    <2>8. Same(s, u) /\ Downloads(u) \cap u.have = {}
      BY <2>4 DEF WebOnly, Same, Core, Downloads, Sane
    <2> QED BY <2>5, <2>6, <2>7, <2>8 DEF Quiet, Sane
  <1> QED BY <1>4, <1>5

LEMMA UpdatedWorks ==
  ASSUME Sane(m), NEW slow, NEW order \in SetToSeqs(Chunks)
  PROVE  Quiet(m, Updated(slow, order))
  <1> DEFINE A == After(m)
             t == Tended(slow)
             u == FoldLeft(LAMBDA s, p : Tries(s, p, order), t, m.list)
  <1>1. u = FTries!SeqFold(order, 0, t, m.list)
    BY DEF FTries!SeqFold, FoldLeft, MapThenFoldSet, Max, OpTries
  <1>2. t \in A
    BY TendedWorks DEF After, Quiet, Sane, Works, WorksBut
  <1>3. \A p \in Peers : \A v \in A : OpTries(order, 0, p, v) \in A
    BY AfterFacts, TriesWorks DEF OpTries
  <1>4. m.list \in Seq(Peers)
    BY MemIs DEF Sane, Works, WorksBut
  <1>5. Updated(slow, order) = StartWeb(u)
    BY DEF Updated
  <1> HIDE DEF A, t, u
  <1>6. FTries!SeqFold(order, 0, t, m.list) \in A
    BY <1>2, <1>3, <1>4, FTries!SeqFoldIn
  <1>7. Quiet(m, u) /\ Sane(u)
    BY <1>1, <1>6, AfterFacts DEF A
  <1>8. Quiet(u, StartWeb(u))
    BY <1>7, StartWebWorks
  <1> QED BY <1>5, <1>7, <1>8, QuietTwice

-----------------------------------------------------------------------------
(* Late and rejected requests, chokes, and peers that leave                 *)

LEMMA ResultQuietly ==
  ASSUME NEW s, WebOk(s), Downloads(s) \cap s.have = {}, ~WebSeeds => Exact(s),
         NEW u, Result(s, u)
  PROVE  Quiet(s, u)
  BY DEF Result, Quiet, Sane, Same, Rest, WebOk, Busy

\* A request that is late or rejected is no longer among those that are sent
RequestGone(s, p, r) == [s EXCEPT !.peer[p].reqs = @ \ {r}]

LEMMA RequestGoneWorks ==
  ASSUME NEW s, Sane(s), NEW p \in Peers, NEW r \in Requests
  PROVE  Quiet(s, NotDownloaded(RequestGone(s, p, r), r[1], p))
  <1> DEFINE b == s.peer[p].reqs \ {r}
             pd == [s.peer[p] EXCEPT !.reqs = b]
             u == [s EXCEPT !.peer[p] = pd]
             c == r[1]
             v == NotDownloaded(u, c, p)
  <1>0. s \in Mem /\ Works(s)
    BY DEF Sane, Works, WorksBut
  <1>1. /\ pd \in AtPeer /\ pd.state = s.peer[p].state /\ pd.choked = s.peer[p].choked
        /\ pd.grabbed = s.peer[p].grabbed /\ pd.reqs = b /\ pd.wait = s.peer[p].wait
    <2>1. b \in SUBSET Requests
      BY <1>0, PeerIs
    <2> HIDE DEF b
    <2> QED BY <1>0, <2>1, PeerIs DEF AtPeer
  <1>2. RequestGone(s, p, r) = u
    BY DEF RequestGone
  <1> HIDE DEF pd
  <1>3. /\ Rest(s, u) /\ u.cur = s.cur /\ u.peer[p] = pd
        /\ \A q \in Peers \ {p} : u.peer[q] = s.peer[q]
    BY <1>0, <1>1, PeerEdit
  <1> HIDE DEF u, v
  <1>4. u \in Mem /\ Downloads(u) = Downloads(s)
    BY <1>3 DEF Rest, Downloads
  <1>5. \A q \in Peers \ {p} : Asks(u, q) = Asks(s, q)
    BY <1>3 DEF Asks
  <1>6. Asks(u, p) \subseteq Asks(s, p) /\ Asks(s, p) \ {r} \subseteq Asks(u, p)
    BY <1>1, <1>3 DEF Asks
  <1>7. WorksBut(u, c, p)
    <2>1. ASSUME NEW d \in Downloads(u), NEW o \in Peers, d # c \/ o # p PROVE AskedOk(u, d, o)
      <3> SUFFICES ASSUME NEW i \in s.cur[d].ds[o] \ s.cur[d].got PROVE <<d, i>> \in Asks(u, o)
        BY <1>3 DEF AskedOk
      <3>1. <<d, i>> \in Asks(s, o)
        BY <1>0, <1>4, WorksIs DEF AskedOk
      <3>2. o # p \/ <<d, i>> # r
        BY <2>1
      <3> QED BY <1>5, <1>6, <3>1, <3>2
    <2>2. \A d \in Downloads(u), o \in Peers :
            u.cur[d].ds[o] # {} => o \in ToSet(u.cur[d].pds)
      BY <1>0, <1>3, <1>4, WorksIs
    <2>3. \A o \in Peers : \A x \in Asks(u, o) :
            x[1] \in Downloads(u) /\ x[2] \in u.cur[x[1]].ds[o]
      BY <1>0, <1>3, <1>4, <1>5, <1>6, WorksIs
    <2>4. \A d \in Downloads(u) : IsInjective(u.cur[d].pds)
      BY <1>0, <1>3, <1>4, WorksIs
    <2> QED BY <1>4, <2>1, <2>2, <2>3, <2>4 DEF WorksBut
  <1>8. Exact(s) => Exact(u)
    <2>1. \A q \in Peers : u.peer[q].grabbed = s.peer[q].grabbed
      BY <1>1, <1>3
    <2> QED BY <1>0, <1>3, <1>4, <2>1, ExactSame
  <1>9. Same(s, u)
    BY <1>3, <1>4 DEF Same, Rest, Core
  <1>10. Result(u, v)
    <2> HIDE DEF c
    <2> QED BY <1>7, NotDownloadedWorks DEF v
  <1>11. WebOk(u) /\ Downloads(u) \cap u.have = {} /\ (~WebSeeds => Exact(u))
    BY <1>3, <1>4, <1>8 DEF Sane, WebOk, Busy, Rest
  <1>12. Quiet(u, v)
    BY <1>10, <1>11, ResultQuietly
  <1>13. Quiet(s, v)
    BY <1>9, <1>12, SameTwice DEF Quiet
  <1> QED BY <1>2, <1>13 DEF v

\* A peer chokes: everything asked of it is given up
LEMMA ChokedWorks ==
  ASSUME NEW s, Sane(s), NEW p \in Peers, s.peer[p].choked,
         NEW C \in SUBSET Chunks, \A r \in Asks(s, p) : r[1] \in C
  PROVE  LET t == FoldSet(LAMBDA c, u : NotDownloaded(u, c, p), s, C)
         IN  Quiet(s, t) /\ Asks(t, p) = {}
  <1> DEFINE t == FoldSet(LAMBDA c, u : NotDownloaded(u, c, p), s, C)
             G(T) == {u \in Mem : /\ Result(s, u)
                                  /\ \A c \in T \cap Downloads(s) : p \notin ToSet(u.cur[c].pds)}
             I == [T \in SUBSET C |-> G(T)]
  <1>0. s \in Mem /\ Works(s)
    BY DEF Sane, Works, WorksBut
  <1>1. t = FReject!SetFold(p, 0, s, C)
    BY DEF FoldSet, MapThenFoldSet, FReject!SetFold, OpReject
  <1>2. FReject!IsFiniteSet(C)
    <2>1. IsFiniteSet(C)
      BY FiniteRequests, FS_Subset
    <2> QED BY <2>1 DEF IsFiniteSet, FReject!IsFiniteSet
  <1>3. s \in G({})
    BY <1>0, ResultSame
  <1>4. ASSUME NEW T \in SUBSET C, NEW c \in C \ T, NEW u \in G(T)
        PROVE  OpReject(p, 0, c, u) \in G(T \cup {c})
    <2> DEFINE w == NotDownloaded(u, c, p)
    <2>1. u \in Mem /\ Result(s, u) /\ \A d \in T \cap Downloads(s) : p \notin ToSet(u.cur[d].pds)
      OBVIOUS
    <2>2. WorksBut(u, c, p) /\ Downloads(u) = Downloads(s)
      BY <2>1, WorksButOne DEF Result
    <2>3. Result(u, w) /\ (c \in Downloads(u) => p \notin ToSet(w.cur[c].pds))
      BY <2>2, NotDownloadedWorks
    <2> HIDE DEF w
    <2>4. Result(s, w) /\ w \in Mem
      <3>1. Result(s, w)
        BY <2>1, <2>3, ResultTwice
      <3> QED BY <3>1 DEF Result, Rest
    <2>5. \A d \in Downloads(s) : ToSet(w.cur[d].pds) \subseteq ToSet(u.cur[d].pds)
      BY <2>2, <2>3 DEF Result
    <2>6. \A d \in (T \cup {c}) \cap Downloads(s) : p \notin ToSet(w.cur[d].pds)
      BY <2>1, <2>2, <2>3, <2>5
    <2>7. w \in G(T \cup {c})
      BY <2>4, <2>6
    <2> HIDE DEF G
    <2> QED BY <2>7 DEF OpReject, w
  <1>5. s \in I[{}] /\ \A T \in SUBSET C : \A c \in C \ T : \A u \in I[T] :
                          OpReject(p, 0, c, u) \in I[T \cup {c}]
    <2> HIDE DEF G
    <2> QED BY <1>3, <1>4
  <1> HIDE DEF I
  <1>6. FReject!SetFold(p, 0, s, C) \in I[C]
    BY <1>2, <1>5, FReject!SetFoldKeeps
  <1>7. t \in G(C)
    <2> HIDE DEF G, t
    <2> QED BY <1>1, <1>6 DEF I
  <1> HIDE DEF t
  <1>8. t \in Mem /\ Result(s, t) /\ \A c \in C \cap Downloads(s) : p \notin ToSet(t.cur[c].pds)
    BY <1>7
  <1>9. Asks(t, p) = {}
    <2> SUFFICES ASSUME NEW r \in Asks(t, p) PROVE FALSE
      OBVIOUS
    <2>1. r \in Asks(s, p) /\ Works(t) /\ Downloads(t) = Downloads(s)
      BY <1>8 DEF Result
    <2>2. r[1] \in C /\ r[1] \in Downloads(s)
      BY <1>8, <2>1, WorksIs
    <2>3. r[2] \in t.cur[r[1]].ds[p]
      BY <1>8, <2>1, WorksIs
    <2>4. p \in ToSet(t.cur[r[1]].pds)
      BY <1>8, <2>1, <2>2, <2>3, WorksIs
    <2> QED BY <1>8, <2>2, <2>4
  <1> QED BY <1>8, <1>9, ResultQuiet DEF t

LEMMA NothingListed ==
  ASSUME NEW X, NEW q \in Seq(X), ToSet(q) = {}
  PROVE  q = <<>>
  <1>1. Len(q) \in Nat /\ DOMAIN q = 1 .. Len(q)
    OBVIOUS
  <1>2. CASE Len(q) > 0
    <2>1. 1 \in 1 .. Len(q)
      BY <1>1, <1>2
    <2>2. q[1] \in ToSet(q)
      BY <1>1, <2>1 DEF ToSet
    <2> QED BY <2>2
  <1>3. CASE Len(q) = 0
    BY <1>3
  <1> QED BY <1>1, <1>2, <1>3

LEMMA ChokeEnd ==
  ASSUME NEW s, Sane(s), NEW p \in Peers, Asks(s, p) = {}
  PROVE  Quiet(s, [s EXCEPT !.peer[p].reqs = {}, !.peer[p].wait = <<>>])
  <1> DEFINE a == [s.peer[p] EXCEPT !.reqs = {}]
             b == [a EXCEPT !.wait = <<>>]
             f == [s.peer EXCEPT ![p] = b]
  <1>0. s \in Mem
    BY DEF Sane, Works, WorksBut
  <1>1. s.peer[p].reqs = {} /\ s.peer[p].wait = <<>>
    BY <1>0, PeerIs, NothingListed DEF Asks
  <1>2. b \in AtPeer /\ b.reqs = {} /\ b.wait = <<>> /\ b.grabbed = s.peer[p].grabbed
    <2>1. s.peer[p] \in AtPeer /\ <<>> \in Seq(Requests)
      BY <1>0, PeerIs
    <2>2. /\ a \in AtPeer /\ a.reqs = {} /\ a.grabbed = s.peer[p].grabbed
      BY <2>1 DEF AtPeer
    <2> HIDE DEF a
    <2> QED BY <2>1, <2>2 DEF AtPeer
  <1>3. [s EXCEPT !.peer[p].reqs = {}, !.peer[p].wait = <<>>] = WithPeers(s, f)
    BY <1>0, MemIs DEF WithPeers
  <1> HIDE DEF b
  <1>4. f \in [Peers -> AtPeer] /\ f[p] = b /\ \A q \in Peers \ {p} : f[q] = s.peer[q]
    BY <1>0, <1>2, MemIs
  <1> HIDE DEF f
  <1>5. \A q \in Peers : /\ f[q].reqs = s.peer[q].reqs /\ f[q].wait = s.peer[q].wait
                         /\ f[q].grabbed = s.peer[q].grabbed
    BY <1>1, <1>2, <1>4
  <1>6. Quiet(s, WithPeers(s, f))
    BY <1>4, <1>5, PeersEdit
  <1> QED BY <1>3, <1>6

\* A peer is chosen a state, or chokes or unchokes
LEMMA StateEdit ==
  ASSUME NEW s, Sane(s), NEW p \in Peers
  PROVE  /\ \A b \in BOOLEAN : LET u == [s EXCEPT !.peer[p].choked = b]
                               IN  Quiet(s, u) /\ u.peer[p].choked = b /\ Asks(u, p) = Asks(s, p)
         /\ Quiet(s, [s EXCEPT !.peer[p].state = "killed"])
  <1>0. s \in Mem
    BY DEF Sane, Works, WorksBut
  <1>1. ASSUME NEW b \in BOOLEAN
        PROVE  LET u == [s EXCEPT !.peer[p].choked = b]
               IN  Quiet(s, u) /\ u.peer[p].choked = b /\ Asks(u, p) = Asks(s, p)
    <2> DEFINE e == [s.peer[p] EXCEPT !.choked = b]
               f == [s.peer EXCEPT ![p] = e]
               u == WithPeers(s, f)
    <2>1. /\ e \in AtPeer /\ e.reqs = s.peer[p].reqs /\ e.wait = s.peer[p].wait
          /\ e.grabbed = s.peer[p].grabbed /\ e.choked = b
      BY <1>0, PeerIs DEF AtPeer
    <2>2. [s EXCEPT !.peer[p].choked = b] = u
      BY DEF WithPeers
    <2> HIDE DEF e
    <2>3. f \in [Peers -> AtPeer] /\ f[p] = e /\ \A q \in Peers \ {p} : f[q] = s.peer[q]
      BY <1>0, <2>1, MemIs
    <2> HIDE DEF f
    <2>4. Quiet(s, u) /\ u.peer = f
      BY <2>1, <2>3, PeersEdit
    <2> HIDE DEF u
    <2> QED BY <2>1, <2>2, <2>3, <2>4 DEF Asks
  <1>2. Quiet(s, [s EXCEPT !.peer[p].state = "killed"])
    <2> DEFINE e == [s.peer[p] EXCEPT !.state = "killed"]
               f == [s.peer EXCEPT ![p] = e]
               u == WithPeers(s, f)
    <2>1. /\ e \in AtPeer /\ e.reqs = s.peer[p].reqs /\ e.wait = s.peer[p].wait
          /\ e.grabbed = s.peer[p].grabbed
      BY <1>0, PeerIs DEF AtPeer
    <2>2. [s EXCEPT !.peer[p].state = "killed"] = u
      BY DEF WithPeers
    <2> HIDE DEF e
    <2>3. f \in [Peers -> AtPeer] /\ f[p] = e /\ \A q \in Peers \ {p} : f[q] = s.peer[q]
      BY <1>0, <2>1, MemIs
    <2> HIDE DEF f
    <2> QED BY <2>1, <2>2, <2>3, PeersEdit
  <1> QED BY <1>1, <1>2

\* A peer that has left is dropped from all downloads
Dropped(s, u, p) ==
    /\ Rest(s, u) /\ u.peer = s.peer /\ Downloads(u) = Downloads(s)
    /\ \A c \in Downloads(s) :
          /\ Core(s, u, c) /\ u.cur[c].pds = Without(s.cur[c].pds, p)
          /\ u.cur[c].ds[p] = {} /\ \A q \in Peers \ {p} : u.cur[c].ds[q] = s.cur[c].ds[q]

LEMMA DroppedIs ==
  ASSUME NEW s \in Mem, NEW p \in Peers
  PROVE  Dropped(s, FoldSet(LAMBDA c, t : Drop(t, c, p), s, Downloads(s)), p)
  <1> DEFINE D == Downloads(s)
             u == FoldSet(LAMBDA c, t : Drop(t, c, p), s, D)
             Out(t, c) == /\ Core(s, t, c) /\ t.cur[c].pds = Without(s.cur[c].pds, p)
                          /\ t.cur[c].ds[p] = {}
                          /\ \A q \in Peers \ {p} : t.cur[c].ds[q] = s.cur[c].ds[q]
             G(T) == {t \in Mem : /\ Rest(s, t) /\ t.peer = s.peer /\ Downloads(t) = D
                                  /\ \A c \in T : Out(t, c)
                                  /\ \A c \in D \ T : t.cur[c] = s.cur[c]}
             I == [T \in SUBSET D |-> G(T)]
  <1>0. D \in SUBSET Chunks
    BY MemIs
  <1>1. u = FDrop!SetFold(p, 0, s, D)
    BY DEF FoldSet, MapThenFoldSet, FDrop!SetFold, OpDrop
  <1>2. FDrop!IsFiniteSet(D)
    <2>1. IsFiniteSet(D)
      BY <1>0, FiniteRequests, FS_Subset
    <2> QED BY <2>1 DEF IsFiniteSet, FDrop!IsFiniteSet
  <1>3. s \in G({})
    BY DEF Rest
  <1>4. ASSUME NEW T \in SUBSET D, NEW c \in D \ T, NEW t \in G(T)
        PROVE  OpDrop(p, 0, c, t) \in G(T \cup {c})
    <2> DEFINE w == Drop(t, c, p)
    <2>1. /\ t \in Mem /\ Rest(s, t) /\ t.peer = s.peer /\ Downloads(t) = D
          /\ \A d \in T : Out(t, d)
          /\ \A d \in D \ T : t.cur[d] = s.cur[d]
      OBVIOUS
    <2> HIDE DEF Out
    <2>2. /\ Touched(t, w, c, p) /\ w.peer = t.peer
          /\ w.cur[c].pds = Without(t.cur[c].pds, p) /\ w.cur[c].ds[p] = {}
      BY <2>1, DropIs
    <2> HIDE DEF w
    <2>3. w \in Mem /\ Rest(s, w) /\ w.peer = s.peer /\ Downloads(w) = D
      BY <2>1, <2>2 DEF Touched, Rest
    <2>4. t.cur[c] = s.cur[c]
      BY <2>1
    <2>5. Out(w, c)
      BY <2>2, <2>4 DEF Touched, Core, Out
    <2>6. \A d \in D \ {c} : w.cur[d] = t.cur[d]
      BY <2>1, <2>2 DEF Touched
    <2>7. \A d \in T : Out(w, d)
      <3>1. \A d \in T : d \in D \ {c}
        OBVIOUS
      <3> QED BY <2>1, <2>6, <3>1 DEF Out, Core
    <2>8. \A d \in D \ (T \cup {c}) : w.cur[d] = s.cur[d]
      BY <2>1, <2>6
    <2>9. \A d \in T \cup {c} : Out(w, d)
      BY <2>5, <2>7
    <2>10. w \in G(T \cup {c})
      BY <2>3, <2>8, <2>9
    <2> HIDE DEF G
    <2> QED BY <2>10 DEF OpDrop, w
  <1>5. s \in I[{}] /\ \A T \in SUBSET D : \A c \in D \ T : \A t \in I[T] :
                          OpDrop(p, 0, c, t) \in I[T \cup {c}]
    <2> HIDE DEF G
    <2> QED BY <1>3, <1>4
  <1> HIDE DEF I
  <1>6. FDrop!SetFold(p, 0, s, D) \in I[D]
    <2> HIDE DEF D
    <2> QED BY <1>2, <1>5, FDrop!SetFoldKeeps
  <1>7. u \in G(D)
    <2> HIDE DEF G, u
    <2> QED BY <1>1, <1>6 DEF I
  <1> HIDE DEF u
  <1>8. Rest(s, u) /\ u.peer = s.peer /\ Downloads(u) = D /\ \A c \in D : Out(u, c)
    BY <1>7
  <1> QED BY <1>8 DEF Dropped, u

LEMMA GonePeer ==
  ASSUME NEW p \in Peers
  PROVE  LET e == [Empty.peer[p] EXCEPT !.state = "gone"]
         IN  e \in AtPeer /\ e.reqs = {} /\ e.wait = <<>> /\ e.grabbed = 0 /\ e.sent = {}
  <1>1. Empty.peer = [q \in Peers |-> [state |-> "up", choked |-> TRUE, grabbed |-> 0,
                 nearly |-> FALSE, reqs |-> {}, wait |-> <<>>, sent |-> {}]]
    BY DEF Empty
  <1>2. Empty.peer[p] = [state |-> "up", choked |-> TRUE, grabbed |-> 0,
                 nearly |-> FALSE, reqs |-> {}, wait |-> <<>>, sent |-> {}]
    BY <1>1
  <1> DEFINE a == Empty.peer[p]
             none == <<>>
             e == [a EXCEPT !.state = "gone"]
  <1>3. none \in Seq(Requests)
    OBVIOUS
  <1>4. a \in AtPeer /\ a.reqs = {} /\ a.wait = none /\ a.grabbed = 0 /\ a.sent = {}
    <2>1. a = [state |-> "up", choked |-> TRUE, grabbed |-> 0,
               nearly |-> FALSE, reqs |-> {}, wait |-> none, sent |-> {}]
      BY <1>2
    <2> HIDE DEF a, none
    <2> QED BY <1>3, <2>1 DEF AtPeer
  <1>5. e \in AtPeer /\ e.reqs = {} /\ e.wait = none /\ e.grabbed = 0 /\ e.sent = {}
    <2> HIDE DEF a, none
    <2> QED BY <1>4 DEF AtPeer
  <1> QED BY <1>5

LEMMA ReapWorks ==
  ASSUME NEW s, Sane(s), NEW p \in Peers, NEW t, Dropped(s, t, p)
  PROVE  Quiet(s, [t EXCEPT !.list = Without(@, p),
                            !.peer[p] = [Empty.peer[p] EXCEPT !.state = "gone"]])
  <1> DEFINE e == [Empty.peer[p] EXCEPT !.state = "gone"]
             f == [t.peer EXCEPT ![p] = e]
             l == Without(t.list, p)
             u == [t EXCEPT !.list = l, !.peer = f]
  <1>0. s \in Mem /\ Works(s)
    BY DEF Sane, Works, WorksBut
  <1>1. t \in Mem /\ t.peer = s.peer /\ Downloads(t) = Downloads(s)
    BY DEF Dropped, Rest
  <1>2. e \in AtPeer /\ e.reqs = {} /\ e.wait = <<>> /\ e.grabbed = 0
    BY GonePeer
  <1>3. [t EXCEPT !.list = Without(@, p),
                  !.peer[p] = [Empty.peer[p] EXCEPT !.state = "gone"]] = u
    OBVIOUS
  <1> HIDE DEF e
  <1>4. f \in [Peers -> AtPeer] /\ f[p] = e /\ \A q \in Peers \ {p} : f[q] = s.peer[q]
    BY <1>1, <1>2, MemIs
  <1>5. l \in Seq(Peers)
    BY <1>1, MemIs, WithoutFacts
  <1> HIDE DEF f, l
  <1>6. /\ u \in Mem /\ u.cur = t.cur /\ u.peer = f /\ u.have = t.have /\ u.disk = t.disk
        /\ u.banned = t.banned /\ u.web = t.web
    BY <1>1, <1>4, <1>5 DEF Mem
  <1> HIDE DEF u
  <1>7. /\ Downloads(u) = Downloads(s)
        /\ \A c \in Downloads(s) :
              /\ Core(s, u, c) /\ u.cur[c].pds = Without(s.cur[c].pds, p)
              /\ u.cur[c].ds[p] = {} /\ \A q \in Peers \ {p} : u.cur[c].ds[q] = s.cur[c].ds[q]
    BY <1>6 DEF Dropped, Core, Downloads
  <1>8. Asks(u, p) = {} /\ \A q \in Peers \ {p} : Asks(u, q) = Asks(s, q)
    BY <1>2, <1>4, <1>6, NoneIn DEF Asks
  <1>9. \A c \in Downloads(s) : /\ ToSet(u.cur[c].pds) = ToSet(s.cur[c].pds) \ {p}
                                /\ IsInjective(u.cur[c].pds)
    BY <1>0, <1>7, CurIs, WorksIs, WithoutFacts
  <1>10. Works(u)
    <2>1. ASSUME NEW c \in Downloads(u), NEW q \in Peers
          PROVE  (u.cur[c].ds[q] # {} => q \in ToSet(u.cur[c].pds)) /\ AskedOk(u, c, q)
      <3>1. CASE q = p
        BY <1>7, <3>1 DEF AskedOk
      <3>2. CASE q # p
        <4>1. (s.cur[c].ds[q] # {} => q \in ToSet(s.cur[c].pds)) /\ AskedOk(s, c, q)
          BY <1>0, <1>7, WorksIs
        <4>2. u.cur[c].ds[q] = s.cur[c].ds[q] /\ u.cur[c].got = s.cur[c].got
              /\ ToSet(u.cur[c].pds) = ToSet(s.cur[c].pds) \ {p} /\ Asks(u, q) = Asks(s, q)
          BY <1>7, <1>8, <1>9, <3>2 DEF Core
        <4> QED BY <3>2, <4>1, <4>2 DEF AskedOk
      <3> QED BY <3>1, <3>2
    <2>2. ASSUME NEW q \in Peers, NEW r \in Asks(u, q)
          PROVE  r[1] \in Downloads(u) /\ r[2] \in u.cur[r[1]].ds[q]
      <3>1. q # p /\ r \in Asks(s, q)
        BY <1>8
      <3>2. r[1] \in Downloads(s) /\ r[2] \in s.cur[r[1]].ds[q]
        BY <1>0, <3>1, WorksIs
      <3> QED BY <1>7, <3>1, <3>2
    <2> QED BY <1>6, <1>7, <1>9, <2>1, <2>2, WorksIs
  <1>11. Exact(s) => Exact(u)
    <2> SUFFICES ASSUME Exact(s), NEW q \in Peers
                 PROVE  u.peer[q].grabbed = Cardinality(Uses(u, q))
      BY DEF Exact
    <2>1. CASE q = p
      <3>1. Uses(u, p) = {}
        BY <1>6, <1>7, <1>9, UsesIs
      <3> QED BY <1>2, <1>4, <1>6, <2>1, <3>1, FS_EmptySet
    <2>2. CASE q # p
      <3>1. Uses(u, q) = Uses(s, q)
        <4>1. \A d : d \in Uses(u, q) <=> d \in Uses(s, q)
          BY <1>0, <1>6, <1>7, <1>9, <2>2, InUses
        <4> QED BY <4>1
      <3> QED BY <1>4, <1>6, <2>2, <3>1 DEF Exact
    <2> QED BY <2>1, <2>2
  <1>12. u.have = s.have /\ u.disk = s.disk /\ u.banned = s.banned /\ u.web = s.web
    BY <1>6 DEF Dropped, Rest
  <1>13. Quiet(s, u)
    BY <1>7, <1>10, <1>11, <1>12 DEF Quiet, Same, Sane, WebOk, Busy
  <1> QED BY <1>3, <1>13

-----------------------------------------------------------------------------
(* What the web seed sends                                                  *)

\* A right piece is written
LEMMA GoodWrite ==
  ASSUME NEW s \in Mem, NEW L, Data(s, L), NEW u \in Mem, u.cur = s.cur,
         NEW c \in Chunks, NEW i \in Pieces, u.disk = [s.disk EXCEPT ![c][i] = "good"]
  PROVE  Data(u, L)
  <1>1. \A d \in Chunks, j \in Pieces : u.disk[d][j] = s.disk[d][j] \/ u.disk[d][j] = "good"
    BY MemIs
  <1>2. ASSUME NEW d \in Downloads(u) PROVE HashOk(u, d) /\ BlameOk(u, d, L)
    <2>1. d \in Downloads(s) /\ u.cur[d] = s.cur[d] /\ d \in Chunks /\ s.cur[d].got \subseteq Pieces
      BY MemIs, CurIs DEF Downloads
    <2>2. HashOk(s, d) /\ BlameOk(s, d, L)
      BY <2>1 DEF Data
    <2>3. \A j \in s.cur[d].got : u.disk[d][j] = s.disk[d][j] \/ u.disk[d][j] = "good"
      BY <1>1, <2>1
    <2> QED BY <2>1, <2>2, <2>3 DEF HashOk, BlameOk
  <1> QED BY <1>2 DEF Data

\* The web seed has the chunk in full: its download is given up
LEMMA WebReadyWorks ==
  ASSUME NEW s, Works(s), Downloads(s) \cap s.have = {}, NEW c \in Chunks, c \notin s.have
  PROVE  LET u == WebReady(s, c)
         IN  /\ Works(u) /\ Downloads(u) \cap u.have = {}
             /\ u.disk = s.disk /\ u.banned = s.banned
             /\ \A d \in Downloads(u) : d \in Downloads(s) /\ Core(s, u, d)
             /\ u.have = s.have \/ (u.have = s.have \cup {c} /\ \A j \in Pieces : s.disk[c][j] = "good")
             /\ u.web = s.web \/ (WebOk(u) /\ ~Busy(u))
  <1> DEFINE right == \A i \in Pieces : s.disk[c][i] = "good"
             h == s.webch \ {c}
             t == [s EXCEPT !.webch = h]
             a == CancelAll(t, c)
             v == IF c \in Downloads(t) THEN Forget(a, c) ELSE t
             w == [TellWeb(v, c) EXCEPT !.have = @ \cup {c}]
             u == WebReady(s, c)
  <1>0. s \in Mem
    BY DEF Works, WorksBut
  <1>1. u = IF right THEN w ELSE t
    BY DEF WebReady
  <1>2. WebOnly(s, t) /\ t.web = s.web
    <2>1. h \in SUBSET Chunks
      BY <1>0, MemIs
    <2> HIDE DEF h
    <2>2. t = WithWeb(s, s.web, h)
      BY <1>0 DEF Mem, WithWeb
    <2> HIDE DEF t
    <2> QED BY <1>0, <2>1, <2>2, MemIs, WebEdit
  <1> HIDE DEF t
  <1>3. t \in Mem /\ Downloads(t) = Downloads(s) /\ t.have = s.have /\ t.disk = s.disk
        /\ t.banned = s.banned /\ t.cur = s.cur
    BY <1>2 DEF WebOnly, Downloads
  <1>4. Works(t)
    BY <1>2, WorksSame DEF WebOnly, Asks
  <1>5. /\ Works(v) /\ v.have = t.have /\ v.disk = t.disk /\ v.banned = t.banned /\ v.web = t.web
        /\ Downloads(v) = Downloads(t) \ {c} /\ \A d \in Downloads(v) : Core(t, v, d)
    <2>1. CASE c \notin Downloads(t)
      BY <1>4, <2>1 DEF Core
    <2>2. CASE c \in Downloads(t)
      <3>1. Result(t, a) /\ \A p \in Peers : a.cur[c].ds[p] = {}
        BY <1>4, <2>2, CancelAllWorks
      <3>2. Works(a)
        BY <3>1 DEF Result
      <3> HIDE DEF a
      <3>3. Works(Forget(a, c)) /\ Forgotten(a, Forget(a, c), c)
        BY <3>1, <3>2, ForgetWorks
      <3>4. v = Forget(a, c)
        BY <2>2
      <3> HIDE DEF v
      <3> QED BY <3>1, <3>3, <3>4 DEF Result, Forgotten, Rest, Core
    <2> QED BY <2>1, <2>2
  <1> HIDE DEF v
  <1>6. /\ Works(w) /\ Downloads(w) \cap w.have = {}
        /\ w.have = v.have \cup {c} /\ w.disk = v.disk /\ w.cur = v.cur /\ w.banned = v.banned
        /\ (w.web = v.web \/ (WebOk(w) /\ ~Busy(w)))
    <2>1. Downloads(v) \cap v.have = {} /\ c \notin Downloads(v)
      BY <1>3, <1>5
    <2> QED BY <1>5, <2>1, TakeWorks
  <1> HIDE DEF w, u
  <1>7. CASE right
    <2>1. u = w
      BY <1>1, <1>7
    <2>2. \A d \in Downloads(w) : d \in Downloads(s) /\ Core(s, w, d)
      BY <1>3, <1>5, <1>6 DEF Downloads, Core
    <2> QED BY <1>2, <1>3, <1>5, <1>6, <1>7, <2>1, <2>2 DEF u
  <1>8. CASE ~right
    <2>1. u = t
      BY <1>1, <1>8
    <2>2. \A d \in Downloads(t) : d \in Downloads(s) /\ Core(s, t, d)
      BY <1>3 DEF Core
    <2> QED BY <1>2, <1>3, <1>4, <2>1, <2>2 DEF u
  <1> QED BY <1>7, <1>8

LEMMA WebOnlyWorks ==
  ASSUME NEW s, Works(s), Downloads(s) \cap s.have = {}, NEW u, WebOnly(s, u), WebOk(u), WebSeeds
  PROVE  Sane(u) /\ Same(s, u)
  <1>1. Works(u)
    BY WorksSame DEF WebOnly, Asks
  <1>2. Same(s, u) /\ Downloads(u) \cap u.have = {}
    BY DEF WebOnly, Same, Core, Downloads
  <1> QED BY <1>1, <1>2 DEF Sane

\* The piece is stored, and counted; what the web seed then does next
WebStored(s, q) ==
    [s EXCEPT !.webch = {s.web.cur}, !.web.n = @ + 1,
              !.disk[s.web.cur][s.web.n] = IF s.web.cur \notin s.have THEN q ELSE @]
WebLater(s, fresh, c) == IF fresh THEN WebReady(NextWebChunk(s), c) ELSE NextWebChunk(s)

\* What the piece may mean for the chunks
Brings(s, u, q) ==
    /\ u.banned = s.banned
    /\ \A L : q = "good" /\ Data(s, L) => Data(u, L)
    /\ Moves(s, u)

LEMMA BringsSame ==
  ASSUME NEW s, NEW u, NEW v, NEW q, Brings(s, u, q), Same(u, v)
  PROVE  Brings(s, v, q)
  <1>1. v.banned = s.banned /\ v.have = u.have /\ v.disk = u.disk
    BY DEF Brings, Same
  <1>2. Moves(s, v)
    BY <1>1, MovesSame DEF Brings
  <1>3. ASSUME NEW L, q = "good", Data(s, L) PROVE Data(v, L)
    <2>1. Data(u, L)
      BY <1>3 DEF Brings
    <2> QED BY <2>1, SameData
  <1> QED BY <1>1, <1>2, <1>3 DEF Brings

StoredBy(s, u, q) ==
    /\ Works(u) /\ Downloads(u) \cap u.have = {} /\ u.have = s.have
    /\ u.banned = s.banned /\ u.web = [s.web EXCEPT !.n = @ + 1] /\ u.cur = s.cur
    /\ s.web.cur \in Chunks /\ s.web.n \in Pieces
    /\ u.disk = IF s.web.cur \notin s.have
                THEN [s.disk EXCEPT ![s.web.cur][s.web.n] = q] ELSE s.disk
    /\ Brings(s, u, q)

LEMMA WebStoredWorks ==
  ASSUME NEW s, Sane(s), Busy(s), NEW q \in {"good", "bad"}
  PROVE  StoredBy(s, WebStored(s, q), q)
  <1> DEFINE c == s.web.cur
             i == s.web.n
             fresh == c \notin s.have
             w == [s.web EXCEPT !.n = i + 1]
             q0 == IF fresh THEN q ELSE s.disk[c][i]
             h == {c}
             x == WithWeb(s, w, h)
             u == [x EXCEPT !.disk[c][i] = q0]
  <1>0. s \in Mem /\ Works(s) /\ WebOk(s)
    BY DEF Sane, Works, WorksBut
  <1>1. c \in Chunks /\ i \in Pieces
    <2>1. s.web.cur \in Nat
      BY <1>0, MemIs DEF WebState
    <2>2. s.web.last \in Nat
      BY <1>0, MemIs DEF WebState
    <2> QED BY <1>0, <2>1, <2>2, Sizes DEF WebOk, Chunks, Pieces
  <1>2. w \in WebState
    <2>1. i + 1 \in Nat
      BY <1>1 DEF Pieces
    <2> HIDE DEF i
    <2> QED BY <1>0, <2>1, MemIs DEF WebState
  <1>3. WebOnly(s, x) /\ x.web = w
    <2>1. h \in SUBSET Chunks
      BY <1>1
    <2> HIDE DEF w, h
    <2> QED BY <1>0, <1>2, <2>1, WebEdit
  <1>4. q0 \in Content
    BY <1>0, <1>1, MemIs DEF Content
  <1>5. WebStored(s, q) = u
    <2>1. WebStored(s, q) = [[s EXCEPT !.webch = {c}, !.web.n = i + 1] EXCEPT !.disk[c][i] = q0]
      BY DEF WebStored
    <2>2. [s EXCEPT !.webch = {c}, !.web.n = i + 1] = x
      BY <1>0 DEF Mem, WithWeb
    <2> HIDE DEF x, q0, c, i
    <2> QED BY <2>1, <2>2
  <1> HIDE DEF x
  <1>6. /\ u \in Mem /\ u.have = x.have /\ u.list = x.list /\ u.banned = x.banned
        /\ u.web = x.web /\ u.webch = x.webch /\ u.cur = x.cur /\ u.peer = x.peer
        /\ u.disk = [x.disk EXCEPT ![c][i] = q0]
    <2> HIDE DEF q0, c, i
    <2> QED BY <1>1, <1>3, <1>4, DiskEdit DEF WebOnly
  <1> HIDE DEF u
  <1>7. /\ u.have = s.have /\ u.banned = s.banned /\ u.cur = s.cur /\ u.peer = s.peer
        /\ u.web = w /\ u.disk = [s.disk EXCEPT ![c][i] = q0]
    BY <1>3, <1>6 DEF WebOnly
  <1>8. u.disk = IF fresh THEN [s.disk EXCEPT ![c][i] = q] ELSE s.disk
    <2>1. CASE fresh
      BY <1>7, <2>1
    <2>2. CASE ~fresh
      <3>1. s.disk \in [Chunks -> [Pieces -> Content]]
        BY <1>0, MemIs
      <3>2. [s.disk EXCEPT ![c][i] = s.disk[c][i]] = s.disk
        <4> HIDE DEF c, i
        <4> QED BY <3>1, <1>1
      <3>3. q0 = s.disk[c][i]
        BY <2>2
      <3> QED BY <1>7, <2>2, <3>2, <3>3
    <2> QED BY <2>1, <2>2
  <1>9. Works(u) /\ Downloads(u) \cap u.have = {}
    BY <1>0, <1>6, <1>7, WorksSame DEF Asks, Downloads, Sane
  <1>10. Moves(s, u)
    <2>1. q \in Content \ {"none"}
      BY DEF Content
    <2>2. fresh => Writes(s, u, c, i)
      BY <1>7, <1>8, <2>1 DEF Writes
    <2> QED BY <1>1, <1>7, <1>8, <2>2 DEF Moves
  <1>11. ASSUME NEW L, q = "good", Data(s, L) PROVE Data(u, L)
    <2>1. CASE fresh
      <3> HIDE DEF c, i
      <3>1. u.disk = [s.disk EXCEPT ![c][i] = "good"]
        BY <1>8, <1>11, <2>1
      <3> QED BY <1>0, <1>1, <1>6, <1>7, <1>11, <3>1, GoodWrite
    <2>2. CASE ~fresh
      <3>1. Same(s, u)
        BY <1>7, <1>8, <2>2 DEF Same, Core, Downloads
      <3> QED BY <1>11, <3>1, SameData
    <2> QED BY <2>1, <2>2
  <1>12. Brings(s, u, q)
    BY <1>7, <1>10, <1>11 DEF Brings
  <1> QED BY <1>1, <1>5, <1>7, <1>8, <1>9, <1>12 DEF StoredBy

LEMMA NextWebIs ==
  ASSUME NEW s \in Mem
  PROVE  LET u == NextWebChunk(s)
         IN  WebOnly(s, u) /\ u.web = [s.web EXCEPT !.cur = @ + 1, !.n = 0]
  <1> DEFINE w == [s.web EXCEPT !.cur = @ + 1, !.n = 0]
             u == WithWeb(s, w, s.webch)
  <1>1. w \in WebState
    <2>1. s.web.cur + 1 \in Nat
      BY MemIs DEF WebState
    <2> QED BY <2>1, MemIs DEF WebState
  <1>2. NextWebChunk(s) = u
    BY DEF NextWebChunk, Mem, WithWeb
  <1> HIDE DEF w
  <1>3. WebOnly(s, u) /\ u.web = w
    BY <1>1, MemIs, WebEdit
  <1> QED BY <1>2, <1>3 DEF w

LEMMA WebLaterWorks ==
  ASSUME NEW s, Sane(s), Busy(s), NEW q \in {"good", "bad"}
  PROVE  LET c == s.web.cur
             t == NextWebChunk(WebStored(s, q))
             u == WebLater(WebStored(s, q), c \notin s.have, c)
         IN  /\ Works(u) /\ Downloads(u) \cap u.have = {} /\ Brings(s, u, q)
             /\ u.web = t.web \/ (WebOk(u) /\ ~Busy(u))
             /\ t.web = [s.web EXCEPT !.cur = c + 1, !.n = 0]
  <1> DEFINE c == s.web.cur
             i == s.web.n
             fresh == c \notin s.have
             a == WebStored(s, q)
             t == NextWebChunk(a)
             u == WebLater(a, fresh, c)
             v == WebReady(t, c)
  <1>1. /\ Works(a) /\ Downloads(a) \cap a.have = {} /\ a.have = s.have
        /\ a.banned = s.banned /\ a.web = [s.web EXCEPT !.n = @ + 1] /\ a.cur = s.cur
        /\ c \in Chunks /\ i \in Pieces
        /\ a.disk = IF fresh THEN [s.disk EXCEPT ![c][i] = q] ELSE s.disk
        /\ Brings(s, a, q)
    <2>1. StoredBy(s, a, q)
      BY WebStoredWorks
    <2> HIDE DEF a
    <2> QED BY <2>1 DEF StoredBy
  <1>2. u = IF fresh THEN v ELSE t
    BY DEF WebLater
  <1> HIDE DEF a
  <1>3. WebOnly(a, t) /\ t.web = [a.web EXCEPT !.cur = @ + 1, !.n = 0]
    BY <1>1, NextWebIs DEF Works, WorksBut
  <1>4. t.web = [s.web EXCEPT !.cur = c + 1, !.n = 0]
    <2>1. s.web \in WebState
      BY MemIs DEF Sane, Works, WorksBut
    <2> QED BY <1>1, <1>3, <2>1 DEF WebState
  <1> HIDE DEF t
  <1>5. Works(t) /\ Downloads(t) \cap t.have = {} /\ t.have = s.have /\ Same(a, t)
    BY <1>1, <1>3, WorksSame DEF WebOnly, Asks, Same, Core, Downloads
  <1>6. Brings(s, t, q)
    BY <1>1, <1>5, BringsSame
  <1>7. CASE ~fresh
    <2>1. u = t
      BY <1>2, <1>7
    <2> HIDE DEF u, c
    <2> QED BY <1>4, <1>5, <1>6, <2>1 DEF u, t, a, c, fresh
  <1>8. CASE fresh
    <2>1. u = v
      BY <1>2, <1>8
    <2>2. /\ Works(v) /\ Downloads(v) \cap v.have = {}
          /\ v.disk = t.disk /\ v.banned = t.banned
          /\ \A d \in Downloads(v) : d \in Downloads(t) /\ Core(t, v, d)
          /\ v.have = t.have \/ (v.have = t.have \cup {c} /\ \A j \in Pieces : t.disk[c][j] = "good")
          /\ (v.web = t.web \/ (WebOk(v) /\ ~Busy(v)))
      BY <1>1, <1>5, <1>8, WebReadyWorks
    <2> HIDE DEF u, v, c, fresh, i
    <2>3. t.disk = [s.disk EXCEPT ![c][i] = q] /\ t.banned = s.banned
      BY <1>1, <1>3, <1>8 DEF WebOnly
    <2>4. Writes(s, v, c, i)
      <3>1. q \in Content \ {"none"} /\ c \notin s.have
        BY <1>8 DEF Content, fresh
      <3> QED BY <1>5, <2>2, <2>3, <3>1 DEF Writes
    <2>5. ASSUME NEW L, q = "good", Data(s, L) PROVE Data(v, L)
      <3>1. Data(t, L)
        BY <1>6, <2>5 DEF Brings
      <3> QED BY <2>2, <3>1 DEF Data, HashOk, BlameOk, Core
    <2>6. Brings(s, v, q)
      BY <1>1, <2>2, <2>3, <2>4, <2>5 DEF Brings, Moves
    <2> QED BY <1>4, <2>1, <2>2, <2>6 DEF u, t, a, c, fresh
  <1> QED BY <1>7, <1>8

-----------------------------------------------------------------------------
(* The steps                                                                *)

Tidy(s) == \A p \in Peers : s.peer[p].sent = {}
Wires == [Peers -> SUBSET Requests]

IInv ==
    /\ Sane(m) /\ Tidy(m) /\ wire \in Wires /\ liars \subseteq Peers
    /\ faults \in 0 .. MaxFaults

\* Whoever may have to do with a wrong piece; and what nobody is banned without
Suspects == liars \cup {Earlier}
Blamed == Data(m, Suspects) /\ m.banned \subseteq liars

LEMMA BecomeWorks ==
  ASSUME NEW s, Sane(s), NEW w \in Wires, Become(s, w)
  PROVE  Quiet(s, m') /\ Sane(m') /\ Tidy(m)' /\ wire' \in Wires
  <1> DEFINE f == [p \in Peers |-> [s.peer[p] EXCEPT !.sent = {}]]
             u == WithPeers(s, f)
  <1>0. s \in Mem
    BY DEF Sane, Works, WorksBut
  <1>1. m' = u
    BY DEF Become, WithPeers
  <1>2. ASSUME NEW p \in Peers
        PROVE  /\ f[p] \in AtPeer /\ f[p].reqs = s.peer[p].reqs /\ f[p].wait = s.peer[p].wait
               /\ f[p].grabbed = s.peer[p].grabbed /\ f[p].sent = {}
    BY <1>0, PeerIs DEF AtPeer
  <1>3. f \in [Peers -> AtPeer]
    BY <1>2
  <1> HIDE DEF f
  <1>4. Quiet(s, u) /\ u.peer = f
    BY <1>2, <1>3, PeersEdit
  <1>5. Tidy(m)'
    BY <1>1, <1>2, <1>4 DEF Tidy
  <1>6. wire' \in Wires
    <2>1. \A p \in Peers : s.peer[p].sent \subseteq Requests /\ w[p] \subseteq Requests
      BY <1>0, PeerIs DEF Wires
    <2>2. wire' = [p \in Peers |-> IF s.peer[p].state = "gone" THEN {}
                                   ELSE w[p] \cup s.peer[p].sent]
      BY DEF Become
    <2> QED BY <2>1, <2>2 DEF Wires
  <1> QED BY <1>1, <1>4, <1>5, <1>6 DEF Quiet

\* What a step does that touches no data
QuietStep == Quiet(m, m') /\ Sane(m') /\ Tidy(m)' /\ wire' \in Wires

LEMMA QuietBecome ==
  ASSUME NEW s, Quiet(m, s), NEW w \in Wires, Become(s, w)
  PROVE  QuietStep
  <1>1. Quiet(s, m') /\ Sane(m') /\ Tidy(m)' /\ wire' \in Wires
    BY BecomeWorks DEF Quiet
  <1> QED BY <1>1, QuietTwice DEF QuietStep

LEMMA NormalUpdateQuiet == ASSUME IInv, NormalUpdate PROVE QuietStep
  <1>1. PICK slow \in SUBSET Downloads(m), order \in SetToSeqs(Chunks) :
           Become(Updated(slow, order), wire)
    BY DEF NormalUpdate
  <1>2. Quiet(m, Updated(slow, order))
    BY UpdatedWorks DEF IInv
  <1> QED BY <1>1, <1>2, QuietBecome DEF IInv

LEMMA TimeoutQuiet ==
  ASSUME IInv, NEW p \in Peers, NEW r \in m.peer[p].reqs, Timeout(p, r)
  PROVE  QuietStep
  <1>1. r \in Requests
    BY PeerIs DEF IInv, Sane, Works, WorksBut
  <1>2. Quiet(m, NotDownloaded(RequestGone(m, p, r), r[1], p))
    BY <1>1, RequestGoneWorks DEF IInv
  <1>3. Become(NotDownloaded(RequestGone(m, p, r), r[1], p), wire)
    BY DEF Timeout, RequestGone
  <1> QED BY <1>2, <1>3, QuietBecome DEF IInv

LEMMA RejectQuiet ==
  ASSUME IInv, NEW p \in Peers, NEW r \in wire[p], Reject(p, r)
  PROVE  QuietStep
  <1>1. r \in Requests /\ [wire EXCEPT ![p] = @ \ {r}] \in Wires
    BY DEF IInv, Wires
  <1>2. Quiet(m, NotDownloaded(RequestGone(m, p, r), r[1], p))
    BY <1>1, RequestGoneWorks DEF IInv
  <1>3. Become(NotDownloaded(RequestGone(m, p, r), r[1], p), [wire EXCEPT ![p] = @ \ {r}])
    BY DEF Reject, RequestGone
  <1> QED BY <1>1, <1>2, <1>3, QuietBecome

LEMMA WebFailsQuiet == ASSUME IInv, WebFails PROVE QuietStep
  <1> DEFINE s == ResetWeb(m)
             w == [s.web EXCEPT !.failed = m.web.failed + 1]
             u == WithWeb(s, w, s.webch)
  <1>0. m \in Mem /\ Works(m) /\ Downloads(m) \cap m.have = {} /\ WebOk(m)
    BY DEF IInv, Sane, Works, WorksBut
  <1>1. WebOnly(m, s) /\ WebOk(s) /\ ~Busy(s)
    BY <1>0, ResetIs
  <1>2. Become([s EXCEPT !.web.failed = m.web.failed + 1], wire)
    BY DEF WebFails
  <1>3. WebSeeds
    BY <1>0 DEF WebFails, WebOk
  <1> HIDE DEF s
  <1>4. s \in Mem
    BY <1>1 DEF WebOnly
  <1>5. w \in WebState /\ w.first = s.web.first /\ w.n = s.web.n
    <2>1. m.web.failed + 1 \in Nat
      BY <1>0, MemIs DEF WebState
    <2> QED BY <1>4, <2>1, MemIs DEF WebState
  <1> HIDE DEF w
  <1>6. WebOnly(s, u) /\ u.web = w
    BY <1>4, <1>5, MemIs, WebEdit
  <1>7. [s EXCEPT !.web.failed = m.web.failed + 1] = u
    BY <1>4 DEF Mem, WithWeb, w
  <1> HIDE DEF u
  <1>8. WebOnly(m, u) /\ WebOk(u)
    BY <1>1, <1>3, <1>5, <1>6 DEF WebOnly, WebOk, Busy
  <1>9. Quiet(m, u)
    BY <1>0, <1>3, <1>8, WebOnlyWorks DEF Quiet
  <1> QED BY <1>2, <1>7, <1>9, QuietBecome DEF IInv

LEMMA WebClosesQuiet == ASSUME IInv, WebCloses PROVE QuietStep
  <1> DEFINE w == [m.web EXCEPT !.first = m.web.cur]
             h == IF m.web.n > 0 THEN {m.web.cur} ELSE {}
             u == WithWeb(m, w, h)
  <1>0. /\ m \in Mem /\ Works(m) /\ Downloads(m) \cap m.have = {} /\ WebOk(m)
        /\ Busy(m) /\ m.web \in WebState
    BY MemIs DEF IInv, Sane, Works, WorksBut, WebCloses
  <1>1. Become([m EXCEPT !.web.first = m.web.cur, !.webch = h], wire)
    BY DEF WebCloses
  <1>2. [m EXCEPT !.web.first = m.web.cur, !.webch = h] = u
    BY <1>0 DEF Mem, WithWeb
  <1>3. WebSeeds /\ m.web.cur \in Chunks
    BY <1>0, Sizes DEF WebOk, WebState, Chunks, Busy
  <1>4. /\ w \in WebState /\ w.first = m.web.cur /\ w.cur = m.web.cur
        /\ w.last = m.web.last /\ w.n = m.web.n
    BY <1>0 DEF WebState
  <1>5. h \in SUBSET Chunks
    BY <1>3
  <1> HIDE DEF w, h
  <1>6. WebOnly(m, u) /\ u.web = w
    BY <1>0, <1>4, <1>5, WebEdit
  <1> HIDE DEF u
  <1>7. WebOk(u)
    <2>1. /\ m.web.n \in 0 .. NumPieces - 1 /\ m.web.first <= m.web.cur
          /\ m.web.cur <= m.web.last /\ m.web.last < NumChunks
      BY <1>0 DEF WebOk
    <2>2. u.web.n \in 0 .. NumPieces - 1
      BY <1>4, <1>6, <2>1
    <2>3. m.web.cur <= m.web.cur
      BY <1>0 DEF WebState
    <2>4. u.web.first <= u.web.cur /\ u.web.cur <= u.web.last /\ u.web.last < NumChunks
      BY <1>4, <1>6, <2>1, <2>3
    <2> QED BY <1>3, <2>2, <2>4 DEF WebOk
  <1>8. Quiet(m, u)
    BY <1>0, <1>3, <1>6, <1>7, WebOnlyWorks DEF Quiet
  <1> QED BY <1>1, <1>2, <1>8, QuietBecome DEF IInv

LEMMA ChokeQuiet == ASSUME IInv, NEW p \in Peers, Choke(p) PROVE QuietStep
  <1> DEFINE s == [m EXCEPT !.peer[p].choked = TRUE]
             C == {r[1] : r \in m.peer[p].reqs \cup ToSet(m.peer[p].wait)}
             t == FoldSet(LAMBDA c, u : NotDownloaded(u, c, p), s, C)
             e == [t EXCEPT !.peer[p].reqs = {}, !.peer[p].wait = <<>>]
  <1>0. Sane(m) /\ m \in Mem /\ wire \in Wires
    BY DEF IInv, Sane, Works, WorksBut
  <1>1. Quiet(m, s) /\ s.peer[p].choked /\ Asks(s, p) = Asks(m, p)
    BY <1>0, StateEdit
  <1>2. Become(s, wire) \/ Become(e, [wire EXCEPT ![p] = {}])
    BY DEF Choke
  <1> HIDE DEF s
  <1>3. C \in SUBSET Chunks /\ \A r \in Asks(s, p) : r[1] \in C
    <2>1. C = {r[1] : r \in Asks(m, p)}
      BY DEF Asks
    <2>2. \A r \in Asks(m, p) : r[1] \in Chunks
      BY <1>0, PeerIs DEF Requests
    <2> HIDE DEF C
    <2> QED BY <1>1, <2>1, <2>2
  <1>4. Sane(s)
    BY <1>1 DEF Quiet
  <1>5. Quiet(s, t) /\ Asks(t, p) = {}
    <2> HIDE DEF C
    <2> QED BY <1>1, <1>3, <1>4, ChokedWorks
  <1> HIDE DEF t
  <1>6. Quiet(t, e)
    BY <1>5, ChokeEnd DEF Quiet
  <1> HIDE DEF e
  <1>7. Quiet(m, e)
    BY <1>1, <1>5, <1>6, QuietTwice
  <1>8. [wire EXCEPT ![p] = {}] \in Wires
    BY <1>0 DEF Wires
  <1> QED BY <1>0, <1>1, <1>2, <1>7, <1>8, QuietBecome

LEMMA PeerQuiet ==
  ASSUME IInv, NEW p \in Peers, Unchoke(p) \/ Disconnect(p)
  PROVE  QuietStep
  <1>1. Quiet(m, [m EXCEPT !.peer[p].choked = FALSE])
        /\ Quiet(m, [m EXCEPT !.peer[p].state = "killed"])
    BY StateEdit DEF IInv
  <1> QED BY <1>1, QuietBecome DEF IInv, Unchoke, Disconnect

LEMMA ReapQuiet == ASSUME IInv, NEW p \in Peers, Reap(p) PROVE QuietStep
  <1> DEFINE t == FoldSet(LAMBDA c, u : Drop(u, c, p), m, Downloads(m))
             u == [t EXCEPT !.list = Without(@, p),
                            !.peer[p] = [Empty.peer[p] EXCEPT !.state = "gone"]]
  <1>1. Dropped(m, t, p)
    BY DroppedIs DEF IInv, Sane, Works, WorksBut
  <1>2. Become(u, wire)
    BY DEF Reap
  <1> HIDE DEF t
  <1>3. Quiet(m, u)
    BY <1>1, ReapWorks DEF IInv
  <1> QED BY <1>2, <1>3, QuietBecome DEF IInv

\* The web seed, if there is one, sends nothing wrong
Right == WebSeeds => WebIsRight

\* What any step does
StepDone ==
    /\ Sane(m') /\ Tidy(m)' /\ wire' \in Wires
    /\ Right /\ Blamed => Blamed' /\ Moves(m, m')

LEMMA QuietDone == ASSUME IInv, QuietStep, UNCHANGED liars PROVE StepDone
  <1>1. Quiet(m, m') /\ Same(m, m')
    BY DEF QuietStep, Quiet
  <1>2. ASSUME Blamed PROVE Blamed'
    <2>1. Data(m, Suspects) /\ m.banned \subseteq liars
      BY <1>2 DEF Blamed
    <2>2. Data(m', Suspects)
      BY <1>1, <2>1, SameData
    <2>3. Suspects' = Suspects /\ Data(m, Suspects)' = Data(m', Suspects')
      BY DEF Suspects, Data, HashOk, BlameOk, Downloads
    <2>4. m'.banned = m.banned
      BY <1>1 DEF Same
    <2> QED BY <2>1, <2>2, <2>3, <2>4 DEF Blamed
  <1>3. Moves(m, m')
    BY <1>1 DEF Same, Moves
  <1> QED BY <1>2, <1>3 DEF StepDone, QuietStep

\* A step that brings a piece, and adds to the liars at most
LEMMA DataDone ==
  ASSUME IInv, NEW s, Sane(s), NEW w \in Wires, Become(s, w), liars' \subseteq Peers,
         Right /\ Blamed => /\ Data(s, Suspects') /\ s.banned \subseteq m.banned \cup Suspects'
                            /\ Moves(m, s) /\ liars \subseteq liars'
  PROVE  StepDone
  <1>1. Quiet(s, m') /\ Sane(m') /\ Tidy(m)' /\ wire' \in Wires
    BY BecomeWorks
  <1>2. Same(s, m')
    BY <1>1 DEF Quiet
  <1>3. ASSUME Right, Blamed PROVE Blamed' /\ Moves(m, m')
    <2>1. /\ Data(s, Suspects') /\ s.banned \subseteq m.banned \cup Suspects'
          /\ Moves(m, s) /\ liars \subseteq liars'
      BY <1>3
    <2>2. Data(m', Suspects')
      BY <1>2, <2>1, SameData
    <2>3. Data(m, Suspects)' = Data(m', Suspects')
      BY DEF Suspects, Data, HashOk, BlameOk, Downloads
    <2>4. m'.banned \subseteq Peers /\ m'.banned = s.banned
      BY <1>1, <1>2, MemIs DEF Sane, Works, WorksBut, Same
    <2>5. m.banned \subseteq liars /\ Suspects' = liars' \cup {Earlier} /\ Earlier \notin Peers
      BY <1>3, DownloaderAssumption DEF Blamed, Suspects
    <2>6. m'.banned \subseteq liars'
      BY <2>1, <2>4, <2>5
    <2>7. Blamed'
      BY <2>2, <2>3, <2>6 DEF Blamed
    <2>8. Moves(m, m')
      <3>1. m'.have = s.have /\ m'.disk = s.disk
        BY <1>2 DEF Same
      <3> QED BY <2>1, <3>1, MovesSame
    <2> QED BY <2>7, <2>8
  <1> QED BY <1>1, <1>3 DEF StepDone

LEMMA ReceivePieceDone ==
  ASSUME IInv, NEW p \in Peers, NEW r \in wire[p], NEW q \in {"good", "bad"},
         ReceivePiece(p, r, q)
  PROVE  StepDone /\ liars' \subseteq Peers
  <1> DEFINE s == PieceReceived(CancelRequest(m, p, r), p, r, q)
             u == UpdatePD(s, p)
             w == [wire EXCEPT ![p] = @ \ {r}]
  <1>0. Sane(m) /\ r \in Requests /\ w \in Wires /\ liars \subseteq Peers
    BY DEF IInv, Wires
  <1>1. /\ Become(u, w)
        /\ IF q = "bad" THEN liars' = liars \cup {p} ELSE liars' = liars
    BY DEF ReceivePiece
  <1>2. Suspects \subseteq Suspects' /\ (q = "bad" => p \in Suspects') /\ liars \subseteq liars'
        /\ liars' \subseteq Peers
    BY <1>0, <1>1 DEF Suspects
  <1>3. /\ Sane(s)
        /\ Data(m, Suspects) => /\ Data(s, Suspects') /\ Moves(m, s)
                                /\ s.banned \subseteq m.banned \cup Suspects'
    <2> DEFINE L == Suspects
               M == Suspects'
    <2>1. L \subseteq M /\ (q = "bad" => p \in M)
      BY <1>2
    <2> HIDE DEF L, M
    <2>2. /\ Sane(s)
          /\ Data(m, L) => Data(s, M) /\ Moves(m, s) /\ s.banned \subseteq m.banned \cup M
      BY <1>0, <2>1, PieceReceivedWorks
    <2> HIDE DEF s
    <2> QED BY <2>2 DEF L, M
  <1> HIDE DEF s
  <1>4. Result(s, u)
    BY <1>3, UpdatePDWorks DEF Sane
  <1> HIDE DEF u, w
  <1>5. Sane(u) /\ Same(s, u)
    BY <1>3, <1>4, ResultSane
  <1>6. Data(m, Suspects) => /\ Data(u, Suspects') /\ Moves(m, u)
                             /\ u.banned \subseteq m.banned \cup Suspects'
    <2> SUFFICES ASSUME Data(m, Suspects)
                 PROVE  /\ Data(u, Suspects') /\ Moves(m, u)
                        /\ u.banned \subseteq m.banned \cup Suspects'
      OBVIOUS
    <2>1. /\ Data(s, Suspects') /\ Moves(m, s) /\ s.banned \subseteq m.banned \cup Suspects'
      BY <1>3
    <2>2. Data(u, Suspects')
      BY <1>5, <2>1, SameData
    <2>3. Moves(m, u) /\ u.banned \subseteq m.banned \cup Suspects'
      <3>1. u.have = s.have /\ u.disk = s.disk /\ u.banned = s.banned
        BY <1>5 DEF Same
      <3> QED BY <2>1, <3>1, MovesSame
    <2> QED BY <2>2, <2>3
  <1>7. StepDone
    <2>1. Blamed => Data(m, Suspects)
      BY DEF Blamed
    <2> QED BY <1>0, <1>1, <1>2, <1>5, <1>6, <2>1, DataDone
  <1> QED BY <1>2, <1>7

LEMMA WebDataDone ==
  ASSUME IInv, NEW q \in {"good", "bad"}, WebIsRight => q = "good", WebData(q)
  PROVE  StepDone
  <1> DEFINE c == m.web.cur
             fresh == c \notin m.have
             s == WebStored(m, q)
             t == NextWebChunk(s)
             u == WebLater(s, fresh, c)
             y == ResetWeb(u)
             z == [u EXCEPT !.webch = {c + 1}]
             done == ~Busy(u) \/ u.web.cur > u.web.last \/ Completed(u)
  <1>0. Sane(m) /\ m \in Mem /\ WebOk(m) /\ wire \in Wires /\ Busy(m) /\ WebSeeds
    BY DEF IInv, Sane, Works, WorksBut, WebData, WebOk
  <1>1. IF m.web.n + 1 < NumPieces THEN Become(s, wire)
        ELSE IF done THEN Become(y, wire) ELSE Become(z, wire)
    BY DEF WebData, WebStored, WebLater
  <1>2. UNCHANGED liars
    BY DEF WebData
  <1>3. /\ m.web \in WebState /\ m.web.n \in Nat /\ c \in Nat /\ m.web.first \in Nat
        /\ m.web.last \in Nat /\ NumPieces \in Nat \ {0} /\ NumChunks \in Nat
    BY <1>0, MemIs, Sizes DEF WebState
  <1>4. \A x : Sane(x) /\ Brings(m, x, q) /\ Become(x, wire) => StepDone
    <2> SUFFICES ASSUME NEW x, Sane(x), Brings(m, x, q), Become(x, wire) PROVE StepDone
      OBVIOUS
    <2>1. Right => q = "good"
      BY <1>0 DEF Right
    <2>2. Suspects' = Suspects
      BY <1>2 DEF Suspects
    <2>3. Right /\ Blamed => /\ Data(x, Suspects') /\ x.banned \subseteq m.banned \cup Suspects'
                             /\ Moves(m, x) /\ liars \subseteq liars'
      BY <1>2, <2>1, <2>2 DEF Blamed, Brings
    <2>4. liars' \subseteq Peers
      BY <1>2 DEF IInv
    <2> QED BY <1>0, <2>3, <2>4, DataDone
  <1>5. CASE m.web.n + 1 < NumPieces
    <2>1. /\ Works(s) /\ Downloads(s) \cap s.have = {}
          /\ s.web = [m.web EXCEPT !.n = @ + 1] /\ Brings(m, s, q)
      <3>1. StoredBy(m, s, q)
        BY <1>0, WebStoredWorks
      <3> HIDE DEF s
      <3> QED BY <3>1 DEF StoredBy
    <2>2. Become(s, wire)
      BY <1>1, <1>5
    <2> HIDE DEF s
    <2>3. WebOk(s)
      <3>1. s.web.n = m.web.n + 1 /\ s.web.first = m.web.first /\ s.web.cur = m.web.cur
            /\ s.web.last = m.web.last
        BY <1>3, <2>1 DEF WebState
      <3> QED BY <1>0, <1>3, <1>5, <3>1 DEF WebOk, Busy
    <2>4. Sane(s)
      BY <1>0, <2>1, <2>3 DEF Sane
    <2> QED BY <1>4, <2>1, <2>2, <2>4
  <1>6. CASE ~(m.web.n + 1 < NumPieces)
    <2>1. /\ Works(u) /\ Downloads(u) \cap u.have = {} /\ Brings(m, u, q)
          /\ u.web = t.web \/ (WebOk(u) /\ ~Busy(u))
          /\ t.web = [m.web EXCEPT !.cur = c + 1, !.n = 0]
      BY <1>0, WebLaterWorks
    <2>2. IF done THEN Become(y, wire) ELSE Become(z, wire)
      BY <1>1, <1>6
    <2> HIDE DEF u, t, s
    <2>3. u \in Mem
      BY <2>1 DEF Works, WorksBut
    <2>4. Sane(y) /\ Brings(m, y, q)
      <3>1. WebOnly(u, y) /\ WebOk(y)
        BY <2>3, ResetIs
      <3> HIDE DEF y
      <3> QED BY <1>0, <2>1, <3>1, WebOnlyWorks, BringsSame
    <2>5. CASE done
      BY <1>4, <2>2, <2>4, <2>5
    <2>6. CASE ~done
      <3>1. Busy(u) /\ ~(u.web.cur > u.web.last)
        BY <2>6
      <3>2. u.web = [m.web EXCEPT !.cur = c + 1, !.n = 0]
        BY <2>1, <3>1
      <3>3. /\ u.web.first = m.web.first /\ u.web.cur = c + 1 /\ u.web.n = 0
            /\ u.web.last = m.web.last
        BY <1>3, <3>2 DEF WebState
      <3>4. WebOk(u)
        BY <1>0, <1>3, <3>1, <3>3 DEF WebOk, Busy
      <3>5. c + 1 \in Chunks
        BY <1>0, <1>3, <3>1, <3>3 DEF WebOk, Chunks
      <3>6. WebOnly(u, z) /\ z.web = u.web
        <4> DEFINE h == {c + 1}
        <4>1. z = WithWeb(u, u.web, h)
          BY <2>3 DEF Mem, WithWeb
        <4>2. h \in SUBSET Chunks
          BY <3>5
        <4> HIDE DEF z, h
        <4> QED BY <2>3, <4>1, <4>2, MemIs, WebEdit
      <3> HIDE DEF z
      <3>7. WebOk(z)
        BY <3>4, <3>6 DEF WebOk, Busy
      <3>8. Sane(z) /\ Brings(m, z, q)
        BY <1>0, <2>1, <3>6, <3>7, WebOnlyWorks, BringsSame
      <3> QED BY <1>4, <2>2, <2>6, <3>8
    <2> QED BY <2>5, <2>6
  <1> QED BY <1>5, <1>6

LEMMA StillDone == ASSUME IInv, UNCHANGED <<m, liars>>, wire' \in Wires PROVE StepDone
  <1>1. Sane(m') /\ Tidy(m)' /\ Moves(m, m')
    BY DEF IInv, Tidy, Moves
  <1>2. Blamed => Blamed'
    BY DEF Blamed, Suspects, Data, HashOk, BlameOk, Downloads
  <1> QED BY <1>1, <1>2 DEF StepDone

\* Every step
LEMMA NextDone ==
  ASSUME IInv, [Next]_vars
  PROVE  StepDone /\ liars' \subseteq Peers /\ faults' \in 0 .. MaxFaults
  <1>0. wire \in Wires /\ liars \subseteq Peers /\ faults \in 0 .. MaxFaults /\ MaxFaults \in Nat
    BY DownloaderAssumption DEF IInv
  <1>1. Fault => faults' \in 0 .. MaxFaults
    BY <1>0 DEF Fault
  <1>2. UNCHANGED faults => faults' \in 0 .. MaxFaults
    BY <1>0
  <1>3. UNCHANGED liars => liars' \subseteq Peers
    BY <1>0
  <1>4. CASE NormalUpdate
    <2>1. UNCHANGED <<liars, faults>>
      BY <1>4 DEF NormalUpdate
    <2> QED BY <1>2, <1>3, <1>4, <2>1, NormalUpdateQuiet, QuietDone
  <1>5. ASSUME NEW p \in Peers, NEW r \in m.peer[p].reqs, Timeout(p, r)
        PROVE  StepDone /\ liars' \subseteq Peers /\ faults' \in 0 .. MaxFaults
    <2>1. UNCHANGED liars /\ (UNCHANGED faults \/ Fault)
      BY <1>5 DEF Timeout
    <2> QED BY <1>1, <1>2, <1>3, <1>5, <2>1, TimeoutQuiet, QuietDone
  <1>6. ASSUME NEW q \in {"good", "bad"}, WebIsRight => q = "good", WebData(q)
        PROVE  StepDone /\ liars' \subseteq Peers /\ faults' \in 0 .. MaxFaults
    <2>1. UNCHANGED <<liars, faults>>
      BY <1>6 DEF WebData
    <2> QED BY <1>2, <1>3, <1>6, <2>1, WebDataDone
  <1>7. CASE WebFails
    <2>1. UNCHANGED liars /\ Fault
      BY <1>7 DEF WebFails
    <2> QED BY <1>1, <1>3, <1>7, <2>1, WebFailsQuiet, QuietDone
  <1>15. CASE WebCloses
    <2>1. UNCHANGED <<liars, faults>>
      BY <1>15 DEF WebCloses
    <2> QED BY <1>2, <1>3, <1>15, <2>1, WebClosesQuiet, QuietDone
  <1>8. ASSUME NEW p \in Peers, Choke(p)
        PROVE  StepDone /\ liars' \subseteq Peers /\ faults' \in 0 .. MaxFaults
    <2>1. UNCHANGED liars /\ Fault
      BY <1>8 DEF Choke
    <2> QED BY <1>1, <1>3, <1>8, <2>1, ChokeQuiet, QuietDone
  <1>9. ASSUME NEW p \in Peers, Unchoke(p) \/ Disconnect(p)
        PROVE  StepDone /\ liars' \subseteq Peers /\ faults' \in 0 .. MaxFaults
    <2>1. UNCHANGED liars /\ (UNCHANGED faults \/ Fault)
      BY <1>9 DEF Unchoke, Disconnect
    <2> QED BY <1>1, <1>2, <1>3, <1>9, <2>1, PeerQuiet, QuietDone
  <1>10. ASSUME NEW p \in Peers, NEW r \in wire[p], NEW q \in {"good", "bad"},
                ReceivePiece(p, r, q)
         PROVE  StepDone /\ liars' \subseteq Peers /\ faults' \in 0 .. MaxFaults
    <2>1. UNCHANGED faults \/ Fault
      BY <1>10 DEF ReceivePiece
    <2> QED BY <1>1, <1>2, <1>10, <2>1, ReceivePieceDone
  <1>11. ASSUME NEW p \in Peers, NEW r \in wire[p], Reject(p, r)
         PROVE  StepDone /\ liars' \subseteq Peers /\ faults' \in 0 .. MaxFaults
    <2>1. UNCHANGED liars /\ Fault
      BY <1>11 DEF Reject
    <2> QED BY <1>1, <1>3, <1>11, <2>1, RejectQuiet, QuietDone
  <1>12. ASSUME NEW p \in Peers, NEW r \in wire[p], Unanswered(p, r)
         PROVE  StepDone /\ liars' \subseteq Peers /\ faults' \in 0 .. MaxFaults
    <2>1. UNCHANGED <<m, liars, faults>> /\ wire' = [wire EXCEPT ![p] = @ \ {r}]
      BY <1>12 DEF Unanswered
    <2>2. wire' \in Wires
      BY <1>0, <2>1 DEF Wires
    <2> QED BY <1>2, <1>3, <2>1, <2>2, StillDone
  <1>13. ASSUME NEW p \in Peers, Reap(p)
         PROVE  StepDone /\ liars' \subseteq Peers /\ faults' \in 0 .. MaxFaults
    <2>1. UNCHANGED <<liars, faults>>
      BY <1>13 DEF Reap
    <2> QED BY <1>2, <1>3, <1>13, <2>1, ReapQuiet, QuietDone
  <1>14. CASE UNCHANGED vars
    <2>1. UNCHANGED <<m, liars, faults>> /\ wire' = wire
      BY <1>14 DEF vars
    <2> QED BY <1>0, <1>2, <1>3, <2>1, StillDone
  <1> QED
    BY <1>4, <1>5, <1>6, <1>7, <1>8, <1>9, <1>10, <1>11, <1>12, <1>13, <1>14,
       <1>15 DEF Next

LEMMA NextHolds ==
  ASSUME IInv, [Next]_vars
  PROVE  IInv' /\ (Right /\ Blamed => Blamed' /\ Moves(m, m'))
  <1>1. StepDone /\ liars' \subseteq Peers /\ faults' \in 0 .. MaxFaults
    BY NextDone
  <1>2. Sane(m)' /\ Tidy(m)' /\ wire' \in Wires
    BY <1>1 DEF StepDone, Sane, Works, WorksBut, AskedOk, Asks, Exact, Uses, WebOk, Busy, Downloads
  <1> QED BY <1>1, <1>2 DEF IInv, StepDone

-----------------------------------------------------------------------------
(* The start                                                                *)

\* Nobody is asked anything, and what there is was got in an earlier session
Opened ==
    {t \in Mem : /\ t.have = {} /\ t.banned = {} /\ t.peer = Empty.peer /\ t.web = Idle
                 /\ \A c \in Downloads(t) :
                       /\ t.cur[c].pds = <<>> /\ \A p \in Peers : t.cur[c].ds[p] = {}
                       /\ HashOk(t, c) /\ Earlier \in t.cur[c].from}

LEMMA ListIs == SetToSeq(Peers) \in Seq(Peers)
  <1> DEFINE n == Cardinality(Peers)
  <1>1. n \in Nat /\ ExistsBijection(1 .. n, Peers)
    BY DownloaderAssumption, FS_CardinalityType
  <1>2. PICK f \in Bijection(1 .. n, Peers) : TRUE
    BY <1>1 DEF ExistsBijection
  <1>3. f \in [1 .. n -> Peers] /\ \A i, j \in 1 .. n : f[i] = f[j] => i = j
    BY <1>2 DEF Bijection, Injection, IsInjective
  <1>4. IsInjective(f)
    BY <1>3 DEF IsInjective
  <1>5. SetToSeq(Peers) = CHOOSE g \in [1 .. n -> Peers] : IsInjective(g)
    BY DEF SetToSeq
  <1>6. SetToSeq(Peers) \in [1 .. n -> Peers]
    BY <1>3, <1>4, <1>5
  <1> HIDE DEF n
  <1> QED BY <1>1, <1>6

LEMMA EmptyIs == Empty \in Opened
  <1> DEFINE pd == [state |-> "up", choked |-> TRUE, grabbed |-> 0, nearly |-> FALSE,
                    reqs |-> {}, wait |-> <<>>, sent |-> {}]
             none == [c \in {} |-> NewDownload]
  <1>1. pd \in AtPeer
    BY DEF AtPeer
  <1>2. [c \in Chunks |-> [i \in Pieces |-> "none"]] \in [Chunks -> [Pieces -> Content]]
    BY DEF Content
  <1>3. none \in CurMaps /\ DOMAIN none = {}
    <2>1. none \in [{} -> Downloading] /\ {} \in SUBSET Chunks
      OBVIOUS
    <2> QED BY <2>1 DEF CurMaps
  <1>4. Idle \in WebState
    BY Sizes DEF Idle, WebState
  <1>5. [p \in Peers |-> pd] \in [Peers -> AtPeer]
    BY <1>1
  <1>6. Empty = [have |-> {}, disk |-> [c \in Chunks |-> [i \in Pieces |-> "none"]],
                 cur |-> none, peer |-> [p \in Peers |-> pd], list |-> SetToSeq(Peers),
                 banned |-> {}, web |-> Idle, webch |-> {}]
    BY DEF Empty
  <1> DEFINE disk == [c \in Chunks |-> [i \in Pieces |-> "none"]]
             peer == [p \in Peers |-> pd]
             list == SetToSeq(Peers)
             web == Idle
  <1>7. /\ disk \in [Chunks -> [Pieces -> Content]] /\ peer \in [Peers -> AtPeer]
        /\ list \in Seq(Peers) /\ web \in WebState
        /\ Empty = [have |-> {}, disk |-> disk, cur |-> none, peer |-> peer, list |-> list,
                    banned |-> {}, web |-> web, webch |-> {}]
    BY <1>2, <1>4, <1>5, <1>6, ListIs
  <1> HIDE DEF disk, peer, none, list, web
  <1>8. Empty \in Mem
    BY <1>3, <1>7 DEF Mem
  <1>9. Empty.have = {} /\ Empty.banned = {} /\ Empty.web = web /\ Empty.cur = none
    BY <1>7
  <1> QED BY <1>3, <1>8, <1>9 DEF Opened, Downloads, web

LEMMA RestoreIs ==
  ASSUME NEW s \in Opened, NEW c \in Chunks, NEW q \in {"good", "bad"}
  PROVE  OpRestore(q, 0, c, s) \in Opened
  <1> DEFINE t == [s EXCEPT !.disk[c][0] = q]
             cd == [NewDownload EXCEPT !.got = {0}, !.from = {Earlier}]
             f == [d \in {c} |-> cd]
             v == [t EXCEPT !.cur = f]
             u == UpdateHash(v, c)
  <1>0. s \in Mem /\ 0 \in Pieces /\ q \in Content
    BY Sizes DEF Opened, Pieces, Content
  <1>1. /\ t \in Mem /\ t.have = s.have /\ t.list = s.list /\ t.banned = s.banned
        /\ t.web = s.web /\ t.webch = s.webch /\ t.peer = s.peer
    BY <1>0, DiskEdit
  <1>2. OpRestore(q, 0, c, s) = u
    BY DEF OpRestore
  <1>3. /\ cd \in Downloading /\ cd.hashed = 0 /\ cd.right = TRUE /\ cd.from = {Earlier}
        /\ cd.pds = <<>> /\ cd.ds = [p \in Peers |-> {}]
    <2>1. {0} \in SUBSET Pieces /\ {Earlier} \in SUBSET (Peers \cup {Earlier})
      BY <1>0
    <2> QED BY <2>1, NewIs DEF Downloading
  <1> HIDE DEF cd, t
  <1>4. f \in CurMaps /\ DOMAIN f = {c} /\ f[c] = cd
    <2>1. f \in [{c} -> Downloading] /\ {c} \in SUBSET Chunks
      BY <1>3
    <2> HIDE DEF f
    <2>2. f \in CurMaps
      BY <2>1 DEF CurMaps
    <2> QED BY <2>1, <2>2 DEF f
  <1> HIDE DEF f
  <1>5. Rest(t, v) /\ v.cur = f /\ v.peer = t.peer
    BY <1>1, <1>4 DEF Mem, Rest
  <1> HIDE DEF v
  <1>6. v \in Mem /\ Downloads(v) = {c} /\ v.cur[c] = cd
    BY <1>4, <1>5 DEF Rest, Downloads
  <1> DEFINE n == u.cur[c].hashed
  <1>7. /\ Rest(v, u) /\ u.peer = v.peer /\ Downloads(u) = {c}
        /\ u.cur[c].from = cd.from /\ u.cur[c].pds = cd.pds /\ u.cur[c].ds = cd.ds
        /\ u.cur[c].got = v.cur[c].got
        /\ \A i \in 0 .. n - 1 : i \in v.cur[c].got
        /\ u.cur[c].right <=> /\ v.cur[c].right
                              /\ \A i \in v.cur[c].hashed .. n - 1 : v.disk[c][i] = "good"
    BY <1>6, HashIs
  <1> HIDE DEF u
  <1>8. HashOk(u, c)
    <2>1. v.cur[c].hashed = 0 /\ u.disk = v.disk
      BY <1>3, <1>6, <1>7 DEF Rest
    <2> QED BY <1>7, <2>1 DEF HashOk
  <1>9. u \in Mem /\ u.have = {} /\ u.banned = {} /\ u.peer = Empty.peer /\ u.web = Idle
    BY <1>1, <1>5, <1>7 DEF Rest, Opened
  <1>10. u.cur[c].pds = <<>> /\ (\A p \in Peers : u.cur[c].ds[p] = {}) /\ Earlier \in u.cur[c].from
    BY <1>3, <1>7
  <1> QED BY <1>2, <1>7, <1>8, <1>9, <1>10 DEF Opened

LEMMA OpenedWorks ==
  ASSUME NEW s \in Opened
  PROVE  Sane(s) /\ Tidy(s) /\ Data(s, {Earlier}) /\ s.have = {} /\ s.banned = {}
  <1>0. s \in Mem /\ s.have = {} /\ s.banned = {} /\ s.peer = Empty.peer /\ s.web = Idle
    BY DEF Opened
  <1>1. ASSUME NEW c \in Downloads(s)
        PROVE  /\ s.cur[c].pds = <<>> /\ \A p \in Peers : s.cur[c].ds[p] = {}
               /\ HashOk(s, c) /\ Earlier \in s.cur[c].from
    BY DEF Opened
  <1>2. ASSUME NEW p \in Peers
        PROVE  s.peer[p].grabbed = 0 /\ s.peer[p].sent = {} /\ Asks(s, p) = {}
    <2>1. /\ s.peer[p].grabbed = 0 /\ s.peer[p].sent = {} /\ s.peer[p].reqs = {}
          /\ s.peer[p].wait = <<>>
      BY <1>0 DEF Empty
    <2> QED BY <2>1, NoneIn DEF Asks
  <1>3. Works(s)
    <2>1. \A c \in Downloads(s), p \in Peers :
             /\ s.cur[c].ds[p] # {} => p \in ToSet(s.cur[c].pds)
             /\ AskedOk(s, c, p)
      BY <1>1 DEF AskedOk
    <2>2. \A c \in Downloads(s) : IsInjective(s.cur[c].pds)
      BY <1>1, NoneIn
    <2> QED BY <1>0, <1>2, <2>1, <2>2, WorksIs
  <1>4. Exact(s)
    <2> SUFFICES ASSUME NEW p \in Peers PROVE s.peer[p].grabbed = Cardinality(Uses(s, p))
      BY DEF Exact
    <2>1. Uses(s, p) = {}
      BY <1>0, <1>1, UsesIs, NoneIn
    <2> QED BY <1>2, <2>1, FS_EmptySet
  <1>5. WebOk(s)
    BY <1>0, Sizes DEF WebOk, Busy, Idle
  <1>6. Data(s, {Earlier})
    BY <1>1 DEF Data, BlameOk
  <1> QED BY <1>0, <1>2, <1>3, <1>4, <1>5, <1>6 DEF Sane, Tidy

LEMMA InitHolds == ASSUME Init PROVE IInv /\ Blamed /\ m.have = {}
  <1>1. PICK C \in {{}, {NumChunks - 1}}, q \in {"good", "bad"} : m = RestoredState(Empty, C, q)
    BY DEF Init
  <1>2. m = FRestore!SetFold(q, 0, Empty, C)
    BY <1>1 DEF RestoredState, FoldSet, MapThenFoldSet, FRestore!SetFold, OpRestore
  <1>3. C \in SUBSET Chunks
    BY <1>1, Sizes DEF Chunks
  <1>4. FRestore!IsFiniteSet(C)
    <2>1. IsFiniteSet(C)
      BY <1>3, FiniteRequests, FS_Subset
    <2> QED BY <2>1 DEF IsFiniteSet, FRestore!IsFiniteSet
  <1>5. \A c \in C : \A s \in Opened : OpRestore(q, 0, c, s) \in Opened
    BY <1>3, RestoreIs
  <1>6. FRestore!SetFold(q, 0, Empty, C) \in Opened
    BY <1>4, <1>5, EmptyIs, FRestore!SetFoldIn
  <1>7. Sane(m) /\ Tidy(m) /\ Data(m, {Earlier}) /\ m.have = {} /\ m.banned = {}
    BY <1>2, <1>6, OpenedWorks
  <1>8. /\ liars = {} /\ faults = 0 /\ wire = [p \in Peers |-> {}]
    BY DEF Init
  <1>9. Suspects = {Earlier}
    BY <1>8 DEF Suspects
  <1>10. wire \in Wires /\ liars \subseteq Peers /\ faults \in 0 .. MaxFaults
    BY <1>8, DownloaderAssumption DEF Wires
  <1> QED BY <1>7, <1>8, <1>9, <1>10 DEF IInv, Blamed

-----------------------------------------------------------------------------
(* The theorems                                                             *)

LEMMA Always == Spec => []IInv
  <1>1. Init => IInv
    BY InitHolds
  <1>2. IInv /\ [Next]_vars => IInv'
    BY NextHolds
  <1> QED BY <1>1, <1>2, PTL DEF Spec

\* The program's memory is always well formed, whatever peers and the web seed
\* do: no download of a chunk outside the torrent, no count below zero, no request
\* that stays unsent at the end of an action.
THEOREM TypeCorrect == Spec => []TypeOK
  <1>1. IInv => TypeOK
    <2> SUFFICES ASSUME IInv PROVE TypeOK
      OBVIOUS
    <2>1. m \in Mem /\ WebOk(m) /\ Tidy(m)
      BY DEF IInv, Sane, Works, WorksBut
    <2>2. ASSUME NEW p \in Peers PROVE m.peer[p] \in Connection
      <3>1. m.peer[p] \in AtPeer /\ m.peer[p].sent \in {{}}
        BY <2>1, PeerIs DEF Tidy
      <3> QED BY <3>1 DEF AtPeer, Connection
    <2>3. m.peer \in [Peers -> Connection]
      BY <2>1, <2>2, MemIs
    <2>4. m.web.n \in 0 .. NumPieces - 1 /\ m.web.failed \in Nat
      BY <2>1, MemIs DEF WebOk, WebState
    <2>5. /\ m.have \subseteq Chunks /\ Downloads(m) \subseteq Chunks /\ m.list \in Seq(Peers)
          /\ m.disk \in [Chunks -> [Pieces -> {"none", "good", "bad"}]]
          /\ m.webch \subseteq Chunks /\ m.banned \subseteq Peers
          /\ \A c \in Downloads(m) : m.cur[c] \in Downloading
      BY <2>1, MemIs, CurIs DEF Content
    <2> QED BY <2>3, <2>4, <2>5 DEF TypeOK, IInv, Wires
  <1> QED BY <1>1, Always, PTL

\* What the chunk downloads believe to have asked of a peer and what that peer's
\* PeerDownloader holds or queues are the same, after any choke, timeout,
\* rejection, endgame cancel, lost connection and finished chunk.
THEOREM RequestsStayTracked == Spec => []RequestsTracked
  <1>1. IInv => RequestsTracked
    <2> SUFFICES ASSUME IInv PROVE RequestsTracked
      OBVIOUS
    <2>1. m \in Mem /\ Works(m)
      BY DEF IInv, Sane, Works, WorksBut
    <2>2. \A p \in Peers : Pending(p) = Asks(m, p)
      BY DEF Pending, Asks
    <2>3. ASSUME NEW c \in Downloads(m), NEW p \in ToSet(m.cur[c].pds),
                 NEW i \in m.cur[c].ds[p] \ m.cur[c].got
          PROVE  <<c, i>> \in Pending(p)
      <3>1. p \in Peers
        BY <2>1, CurIs
      <3> QED BY <2>1, <2>2, <3>1, WorksIs DEF AskedOk
    <2>4. ASSUME NEW p \in Peers, NEW r \in Pending(p)
          PROVE  /\ r[1] \in Downloads(m) /\ p \in ToSet(m.cur[r[1]].pds)
                 /\ r[2] \in m.cur[r[1]].ds[p]
      <3>1. r[1] \in Downloads(m) /\ r[2] \in m.cur[r[1]].ds[p]
        BY <2>1, <2>2, WorksIs
      <3> QED BY <2>1, <3>1, WorksIs
    <2> QED BY <2>3, <2>4 DEF RequestsTracked
  <1> QED BY <1>1, Always, PTL

\* Without a web seed the number of chunks a peer is held to be busy with is the
\* number of downloads that use it: a peer is never released twice, and none is
\* left busy with nothing, whatever ends a download.
THEOREM GrabsStayExact == Spec /\ ~WebSeeds => []GrabsExact
  <1> DEFINE R == ~WebSeeds
  <1>1. IInv /\ R => GrabsExact
    BY DEF IInv, Sane, Exact, GrabsExact
  <1>2. Init => IInv
    BY InitHolds
  <1>3. IInv /\ R /\ [Next]_vars => (IInv /\ R)'
    <2>1. R' = R
      OBVIOUS
    <2> QED BY <2>1, NextHolds
  <1> QED BY <1>1, <1>2, <1>3, PTL DEF Spec

LEMMA AlwaysBlamed == Spec /\ Right => [](IInv /\ Right /\ Blamed)
  <1>1. Init => IInv /\ Blamed
    BY InitHolds
  <1>2. IInv /\ Right /\ Blamed /\ [Next]_vars => (IInv /\ Right /\ Blamed)'
    <2>1. Right' = Right
      BY DEF Right
    <2> QED BY <2>1, NextHolds
  <1> QED BY <1>1, <1>2, PTL DEF Spec

\* A peer is banned only for a wrong piece it sent itself, though pieces of a
\* chunk come from several peers, from earlier sessions and from a web seed, and
\* the hash tells no more than that one of them is wrong.
THEOREM NoInnocentBanned == Spec /\ Right => []InnocentNotBanned
  <1>1. Blamed => InnocentNotBanned
    BY DEF Blamed, InnocentNotBanned
  <1> QED BY <1>1, AlwaysBlamed, PTL

LEMMA StepImplements == ASSUME Moves(m, m') PROVE [Transfer!Next]_(Transfer!vars)
  <1>1. CASE m'.have = m.have /\ m'.disk = m.disk
    BY <1>1 DEF Transfer!vars
  <1>2. CASE \E c \in Chunks, i \in Pieces : Writes(m, m', c, i)
    <2>1. PICK c \in Chunks, i \in Pieces : Writes(m, m', c, i)
      BY <1>2
    <2>2. Transfer!Whole(c)' <=> \A j \in Pieces : m'.disk[c][j] = "good"
      BY DEF Transfer!Whole
    <2>3. m'.have \in {m.have} \cup {h \in {m.have \cup {c}} : Transfer!Whole(c)'}
      BY <2>1, <2>2 DEF Writes
    <2>4. \E q \in Transfer!Content \ {"none"} : m'.disk = [m.disk EXCEPT ![c][i] = q]
      BY <2>1 DEF Writes, Content, Transfer!Content
    <2>5. Transfer!Write(c, i)
      BY <2>1, <2>3, <2>4 DEF Transfer!Write, Writes
    <2> QED BY <2>5 DEF Transfer!Next
  <1> QED BY <1>1, <1>2 DEF Moves

\* Downloading implements ChunkTransfer: a chunk is taken only when its last piece
\* is written and every piece is right, and nothing writes to it again, in
\* whatever way peers and web seed share a chunk.
THEOREM TransferKept == Spec /\ Right => TransferPromise
  <1>1. IInv /\ Right /\ Blamed /\ [Next]_vars => [Transfer!Next]_(Transfer!vars)
    BY NextHolds, StepImplements
  <1>2. Spec /\ Right => [][Transfer!Next]_(Transfer!vars)
    BY <1>1, AlwaysBlamed, PTL DEF Spec
  <1> QED BY <1>2 DEF TransferPromise

\* And it starts as ChunkTransfer does: the whole specification is implemented.
THEOREM ImplementsTransfer == Spec /\ Right => Transfer!Spec
  <1>1. Init => Transfer!Init
    <2> SUFFICES ASSUME Init PROVE Transfer!Init
      OBVIOUS
    <2>1. m \in Mem /\ m.have = {}
      BY InitHolds DEF IInv, Sane, Works, WorksBut
    <2>2. m.disk \in [Chunks -> [Pieces -> Content]]
      BY <2>1, MemIs
    <2> QED BY <2>1, <2>2 DEF Transfer!Init, Content, Transfer!Content
  <1>2. Spec /\ Right => [][Transfer!Next]_(Transfer!vars)
    BY TransferKept DEF TransferPromise
  <1> QED BY <1>1, <1>2, PTL DEF Spec, Transfer!Spec
=============================================================================
