------------------------ MODULE ChunkManager_proofs ------------------------
(***************************************************************************)
(* What ChunkManager promises, for every torrent, size and bound.          *)
(*                                                                         *)
(* The invariant has two parts, of the values of the variables: SoundAt    *)
(* holds for every torrent, DeepAt for the regular ones (Regular: a film   *)
(* has more chunks than its preview, and no file of two chunks shares      *)
(* both). Every call has a lemma that says what it does to the record m    *)
(* (Tame: only resets; Changes: the priorities and bit sets of some        *)
(* chunks; Lost: what a file that is set aside may take away), every       *)
(* action one that it is a Step: what keeps both parts.                    *)
(***************************************************************************)
EXTENDS ChunkManager, FiniteSetTheorems, TLAPS

\* The loops of the module
OpReset(a, b, c, s) == ResetChunk(s, c)
OpBorder(p, b, c, s) == SetBorderChunkPriority(s, c, p)
OpEnd(f, b, c, s) == ResetEnd(s, c, f)
OpPreview(a, b, f, s) == DoPreviewPriority(s, f)
OpPriority(prios, b, f, s) == SetPriority(s, f, prios[f])
OpDnd(gone, b, f, s) ==
    IF f \in gone THEN SetDoNotDownload(ResetAll(s, Span(f)), f, TRUE) ELSE s

FReset == INSTANCE FoldFacts WITH Op <- OpReset
FBorder == INSTANCE FoldFacts WITH Op <- OpBorder
FEnd == INSTANCE FoldFacts WITH Op <- OpEnd
FPreview == INSTANCE FoldFacts WITH Op <- OpPreview
FPriority == INSTANCE FoldFacts WITH Op <- OpPriority
FDnd == INSTANCE FoldFacts WITH Op <- OpDnd

-----------------------------------------------------------------------------
(* Torrents                                                                 *)

File == [first : Nat, last : Nat, media : BOOLEAN]

LEMMA TorrentType ==
  ASSUME tor \in Torrents
  PROVE  /\ tor \in Seq(File) /\ Len(tor) \in Nat \ {0} /\ Files = 1 .. Len(tor)
         /\ tor[1].first = 0 /\ tor[Len(tor)].last = NumChunks - 1
         /\ NumChunks \in Nat \ {0} /\ PreviewChunks \in Nat \ {0}
         /\ \A f \in Files : /\ tor[f] \in File /\ tor[f].first \in Nat /\ tor[f].last \in Nat
                             /\ tor[f].first <= tor[f].last
         /\ \A f \in 1 .. Len(tor) - 1 : tor[f + 1].first \in {tor[f].last, tor[f].last + 1}
  <1>1. WellFormed(tor) /\ NumChunks \in Nat \ {0} /\ PreviewChunks \in Nat \ {0}
    BY ChunkAssumption
  <1>2. tor \in Seq(File) /\ tor # <<>>
    BY <1>1 DEF WellFormed, File
  <1>3. DOMAIN tor = 1 .. Len(tor) /\ Len(tor) \in Nat \ {0}
    BY <1>2
  <1>4. \A f \in Files : tor[f] \in File
    BY <1>2, <1>3 DEF Files
  <1>5. \A f \in Files : tor[f].first \in Nat /\ tor[f].last \in Nat
    BY <1>4 DEF File
  <1> QED BY <1>1, <1>2, <1>3, <1>4, <1>5 DEF WellFormed, Files

\* Files follow one another: a later file begins where the earlier one ends at best
LEMMA InOrder ==
  ASSUME tor \in Torrents, NEW f \in Files, NEW g \in Files, f < g
  PROVE  tor[f].last <= tor[g].first /\ tor[f].first <= tor[g].first /\ tor[f].last <= tor[g].last
  <1> DEFINE P(n) == f + 1 + n <= Len(tor) => tor[f].last <= tor[f + 1 + n].first
             N == {n \in Nat : P(n)}
  <1>0. f \in Nat /\ g \in Nat /\ f >= 1 /\ g <= Len(tor) /\ Len(tor) \in Nat
    BY TorrentType
  <1>1. 0 \in N
    <2> SUFFICES ASSUME f + 1 <= Len(tor) PROVE tor[f].last <= tor[f + 1].first
      BY <1>0
    <2>1. f \in 1 .. Len(tor) - 1 /\ f + 1 \in Files
      BY <1>0, TorrentType
    <2>2. tor[f + 1].first \in {tor[f].last, tor[f].last + 1} /\ tor[f].last \in Nat
      BY <2>1, TorrentType
    <2> QED BY <2>2
  <1>2. ASSUME NEW n \in Nat, n \in N PROVE n + 1 \in N
    <2> DEFINE k == f + 1 + n
    <2> SUFFICES ASSUME f + 1 + (n + 1) <= Len(tor) PROVE tor[f].last <= tor[f + 1 + (n + 1)].first
      OBVIOUS
    <2>1. k \in 1 .. Len(tor) - 1 /\ k \in Files /\ k + 1 \in Files /\ k + 1 = f + 1 + (n + 1)
      BY <1>0, TorrentType
    <2>2. tor[f].last <= tor[k].first
      BY <1>2, <2>1, TorrentType
    <2> HIDE DEF k
    <2>3. tor[k].first <= tor[k].last /\ tor[k + 1].first \in {tor[k].last, tor[k].last + 1}
      BY <2>1, TorrentType
    <2>4. tor[f].last \in Nat /\ tor[k].first \in Nat /\ tor[k].last \in Nat
      BY <2>1, TorrentType
    <2>5. tor[f].last <= tor[k + 1].first
      BY SMTT(30), <2>2, <2>3, <2>4
    <2> QED BY <2>1, <2>5
  <1>3. Nat \subseteq N
    <2> HIDE DEF N
    <2> QED BY <1>1, <1>2, FReset!SetInduction
  <1> DEFINE k == g - f - 1
  <1>4. k \in Nat /\ f + 1 + k = g /\ g <= Len(tor)
    BY TorrentType
  <1>5. P(k)
    BY <1>3, <1>4
  <1>6. tor[f].last <= tor[g].first
    <2> HIDE DEF k
    <2> QED BY <1>4, <1>5
  <1> QED BY SMTT(30), <1>6, TorrentType

\* A chunk that lies in two files is at an end of both, and a border chunk
LEMMA SharedChunk ==
  ASSUME tor \in Torrents, NEW f \in Files, NEW g \in Files, f # g,
         NEW c \in Span(f) \cap Span(g)
  PROVE  c \in BorderChunks /\ c \in {tor[f].first, tor[f].last}
  <1>1. ASSUME NEW a \in Files, NEW b \in Files, a < b, c \in Span(a) \cap Span(b)
        PROVE  c = tor[a].last /\ c = tor[b].first /\ c \in BorderChunks
    <2>1. tor[a].last <= tor[b].first
      BY <1>1, InOrder
    <2>2. c = tor[a].last /\ c = tor[b].first
      <3>1. /\ tor[a].last \in Nat /\ tor[b].first \in Nat
            /\ tor[a].first \in Nat /\ tor[b].last \in Nat
        BY TorrentType
      <3>2. c \in Nat /\ c <= tor[a].last /\ tor[b].first <= c
        BY <1>1, <3>1 DEF Span
      <3> QED BY <2>1, <3>1, <3>2
    <2>3. a \in 1 .. Len(tor) - 1 /\ a + 1 \in Files /\ a \in Files \ {Len(tor)}
      BY SMTT(30), <1>1, TorrentType
    <2>4. tor[a + 1].first = tor[a].last
      <3>1. tor[a + 1].first \in {tor[a].last, tor[a].last + 1}
        BY <2>3, TorrentType
      <3>2. a + 1 = b \/ a + 1 < b
        BY <1>1, TorrentType
      <3>3. tor[a + 1].first <= tor[b].first
        BY <2>3, <3>2, InOrder, TorrentType
      <3> QED BY SMTT(30), <2>2, <2>3, <3>1, <3>3, TorrentType
    <2> QED BY <2>2, <2>3, <2>4 DEF BorderChunks
  <1>2. f < g \/ g < f
    BY TorrentType
  <1> QED BY <1>1, <1>2

LEMMA SpanIn ==
  ASSUME tor \in Torrents, NEW f \in Files
  PROVE  /\ Span(f) \subseteq Chunks /\ tor[f].first \in Span(f) /\ tor[f].last \in Span(f)
         /\ tor[f].first \in Chunks /\ tor[f].last \in Chunks
  <1>1. 1 \in Files /\ Len(tor) \in Files
    BY TorrentType
  <1>2. tor[f].last <= NumChunks - 1
    <2>1. f = Len(tor) \/ f < Len(tor)
      BY TorrentType
    <2> QED BY <1>1, <2>1, InOrder, TorrentType
  <1> QED BY <1>2, TorrentType DEF Span, Chunks

\* Every chunk lies in some file
LEMMA SomeFile ==
  ASSUME tor \in Torrents, NEW c \in Chunks
  PROVE  FilesOf(c) # {}
  <1> DEFINE P(n) == n < Len(tor) => (\E f \in FilesOf(c) : TRUE) \/ tor[n + 1].last < c
             N == {n \in Nat : P(n)}
  <1>1. \A f \in Files : tor[f].first <= c => f \in FilesOf(c) \/ tor[f].last < c
    BY TorrentType DEF FilesOf, Span, Chunks
  <1>2. 0 \in N
    <2>1. 1 \in Files /\ tor[1].first <= c
      BY TorrentType DEF Chunks
    <2> QED BY <1>1, <2>1
  <1>3. ASSUME NEW n \in Nat, n \in N PROVE n + 1 \in N
    <2> SUFFICES ASSUME n + 1 < Len(tor), tor[n + 1].last < c
                 PROVE (\E f \in FilesOf(c) : TRUE) \/ tor[(n + 1) + 1].last < c
      BY <1>3, TorrentType
    <2> DEFINE k == n + 1
    <2>1. k \in 1 .. Len(tor) - 1 /\ k + 1 \in Files /\ k \in Files
      BY TorrentType
    <2> HIDE DEF k
    <2>2. tor[k].last < c => tor[k + 1].first <= c
      <3>1. tor[k + 1].first \in {tor[k].last, tor[k].last + 1} /\ tor[k].last \in Nat
        BY <2>1, TorrentType
      <3> QED BY <3>1 DEF Chunks
    <2>3. tor[k].last < c
      BY DEF k
    <2>4. k + 1 \in FilesOf(c) \/ tor[k + 1].last < c
      BY <1>1, <2>1, <2>2, <2>3
    <2> QED BY <2>4 DEF k
  <1>4. Nat \subseteq N
    <2> HIDE DEF N
    <2> QED BY <1>2, <1>3, FReset!SetInduction
  <1> DEFINE k == Len(tor) - 1
  <1>5. k \in Nat /\ k < Len(tor) /\ k + 1 = Len(tor)
    BY TorrentType
  <1>6. P(k)
    BY <1>4, <1>5
  <1>7. ~(tor[Len(tor)].last < c)
    BY TorrentType DEF Chunks
  <1> HIDE DEF k
  <1> QED BY <1>5, <1>6, <1>7

-----------------------------------------------------------------------------
(* The record m, and what the operations on it do to its fields             *)

Memory ==
    [file : [Files -> Priorities], prio : [Chunks -> Priorities],
     onDisk : SUBSET Chunks, have : SUBSET Chunks, excluded : SUBSET Chunks,
     onlySeed : SUBSET Chunks, todo : SUBSET Chunks, loading : BOOLEAN,
     selector : SUBSET Chunks, current : SUBSET Chunks,
     data : SUBSET Fragments(Chunks), gone : SUBSET Files, running : BOOLEAN]

\* What no operation on chunks changes, or only makes smaller
Tame(r, s) ==
    /\ s \in Memory
    /\ s.file = r.file /\ s.data = r.data /\ s.gone = r.gone
    /\ s.loading = r.loading /\ s.running = r.running
    /\ s.current \subseteq r.current /\ s.have \subseteq r.have
    /\ s.onDisk \subseteq r.onDisk /\ s.have \ s.onDisk \subseteq r.have \ r.onDisk

LEMMA TameTwice ==
  ASSUME NEW r, NEW s, NEW t, Tame(r, s), Tame(s, t)
  PROVE  Tame(r, t)
  BY DEF Tame

LEMMA TameSame == ASSUME NEW r \in Memory PROVE Tame(r, r)
  BY DEF Tame

ResetTo(r, C, s) ==
    /\ s \in Memory
    /\ s.file = r.file /\ s.prio = r.prio /\ s.excluded = r.excluded
    /\ s.onlySeed = r.onlySeed /\ s.loading = r.loading /\ s.selector = r.selector
    /\ s.current = r.current /\ s.data = r.data /\ s.gone = r.gone /\ s.running = r.running
    /\ s.onDisk = r.onDisk \ C /\ s.have = r.have \ C
    /\ s.todo = (r.todo \ (C \cap (r.excluded \cup r.onlySeed)))
                \cup (C \ (r.excluded \cup r.onlySeed))

LEMMA ResetChunkIs ==
  ASSUME NEW r \in Memory, ~r.loading, NEW c \in Chunks
  PROVE  ResetTo(r, {c}, ResetChunk(r, c))
  <1> DEFINE a == r.onDisk \ {c}
             b == r.have \ {c}
             d == IF c \in r.excluded \cup r.onlySeed THEN r.todo \ {c} ELSE r.todo \cup {c}
             s == [r EXCEPT !.onDisk = a, !.have = b, !.todo = d]
  <1>1. ResetChunk(r, c) = s
    BY DEF ResetChunk
  <1>2. a \in SUBSET Chunks /\ b \in SUBSET Chunks /\ d \in SUBSET Chunks
    BY DEF Memory
  <1>3. d = (r.todo \ ({c} \cap (r.excluded \cup r.onlySeed)))
                \cup ({c} \ (r.excluded \cup r.onlySeed))
    OBVIOUS
  <1> HIDE DEF a, b, d
  <1>4. s \in Memory
    BY <1>2 DEF Memory
  <1>5. /\ s.file = r.file /\ s.prio = r.prio /\ s.excluded = r.excluded
        /\ s.onlySeed = r.onlySeed /\ s.loading = r.loading /\ s.selector = r.selector
        /\ s.current = r.current /\ s.data = r.data /\ s.gone = r.gone /\ s.running = r.running
        /\ s.onDisk = a /\ s.have = b /\ s.todo = d
    BY DEF Memory
  <1> HIDE DEF s
  <1> QED BY <1>1, <1>3, <1>4, <1>5 DEF ResetTo, a, b

LEMMA FinitePart ==
  ASSUME tor \in Torrents, NEW C \in SUBSET Chunks
  PROVE  IsFiniteSet(C) /\ FReset!IsFiniteSet(C) /\ FBorder!IsFiniteSet(C)
  <1>1. IsFiniteSet(Chunks)
    BY TorrentType, FS_Interval DEF Chunks
  <1>2. IsFiniteSet(C)
    BY <1>1, FS_Subset
  <1> QED BY <1>2 DEF IsFiniteSet, FReset!IsFiniteSet, FBorder!IsFiniteSet

LEMMA ResetAllIs ==
  ASSUME tor \in Torrents, NEW r \in Memory, NEW C \in SUBSET Chunks
  PROVE  /\ r.loading => ResetAll(r, C) = r
         /\ ~r.loading => ResetTo(r, C, ResetAll(r, C))
  <1>1. ResetAll(r, C) = FReset!SetFold(0, 0, r, C)
    BY DEF ResetAll, FoldSet, MapThenFoldSet, FReset!SetFold, OpReset
  <1>2. FReset!IsFiniteSet(C)
    BY FinitePart
  <1>3. CASE r.loading
    <2>1. \A c \in C : \A s \in {r} : OpReset(0, 0, c, s) \in {r}
      BY <1>3 DEF OpReset, ResetChunk
    <2>2. FReset!SetFold(0, 0, r, C) \in {r}
      BY <1>2, <2>1, FReset!SetFoldIn
    <2> QED BY <1>1, <1>3, <2>2
  <1>4. CASE ~r.loading
    <2> DEFINE I == [T \in SUBSET C |-> {s \in Memory : ResetTo(r, T, s)}]
    <2>1. r \in I[{}]
      BY DEF ResetTo
    <2>2. \A T \in SUBSET C : \A c \in C \ T : \A s \in I[T] : OpReset(0, 0, c, s) \in I[T \cup {c}]
      <3> SUFFICES ASSUME NEW T \in SUBSET C, NEW c \in C \ T, NEW s \in Memory, ResetTo(r, T, s)
                   PROVE  /\ ResetChunk(s, c) \in Memory
                          /\ ResetTo(r, T \cup {c}, ResetChunk(s, c))
        BY DEF OpReset
      <3>1. ResetTo(s, {c}, ResetChunk(s, c))
        BY <1>4, ResetChunkIs DEF ResetTo
      <3> QED BY <3>1 DEF ResetTo
    <2> HIDE DEF I
    <2>3. FReset!SetFold(0, 0, r, C) \in I[C]
      BY <1>2, <2>1, <2>2, FReset!SetFoldKeeps
    <2> QED BY <1>1, <1>4, <2>3 DEF I
  <1> QED BY <1>3, <1>4

-----------------------------------------------------------------------------
(* What a chunk should be like, given the priorities of the files           *)

Top(r, c) == Max({r.file[f] : f \in FilesOf(c)})
Unwanted == {EXCLUDED, ONLY_SEED}

\* c is in excluded_chunks just when it should be
Marked(r, c) == c \in r.excluded <=> Top(r, c) = EXCLUDED

Fits(r, c) ==
    /\ r.prio[c] = Top(r, c) \/ (r.prio[c] = PREVIEW /\ Top(r, c) \notin Unwanted)
    /\ Marked(r, c)
    /\ c \in r.onlySeed <=> Top(r, c) = ONLY_SEED
    /\ c \in r.todo <=> Top(r, c) \notin Unwanted /\ c \notin r.have

\* From r to s chunks outside C stay as they should be, and only those of L, and
\* those being downloaded, may be lost
Changes(r, s, C, L) ==
    /\ Tame(r, s) /\ s.excluded = r.excluded
    /\ r.have \ s.have \subseteq L \cup r.current
    /\ \A c \in Chunks \ C : Fits(r, c) => Fits(s, c)

LEMMA TopIs ==
  ASSUME tor \in Torrents, NEW r \in Memory, NEW c \in Chunks
  PROVE  /\ Top(r, c) \in Priorities
         /\ \E f \in FilesOf(c) : Top(r, c) = r.file[f]
         /\ \A f \in FilesOf(c) : r.file[f] <= Top(r, c)
  <1> DEFINE S == {r.file[f] : f \in FilesOf(c)}
  <1>1. S # {}
    BY SomeFile
  <1>2. S \subseteq Priorities
    BY DEF FilesOf, Memory
  <1>3. \E x \in S : \A y \in S : x >= y
    <2> HIDE DEF S
    <2>1. S \subseteq {10, 20, 30, 40, 50, 60}
      BY <1>2 DEF Priorities, PREVIEW, FIRST, NORMAL, LAST, ONLY_SEED, EXCLUDED
    <2>2. PICK x \in S : TRUE
      BY <1>1
    <2>3. CASE 60 \in S
      BY <2>1, <2>3
    <2>4. CASE 50 \in S /\ 60 \notin S
      BY <2>1, <2>4
    <2>5. CASE 40 \in S /\ S \cap {50, 60} = {}
      BY <2>1, <2>5
    <2>6. CASE 30 \in S /\ S \cap {40, 50, 60} = {}
      BY <2>1, <2>6
    <2>7. CASE 20 \in S /\ S \cap {30, 40, 50, 60} = {}
      BY <2>1, <2>7
    <2>8. CASE S \cap {20, 30, 40, 50, 60} = {}
      BY <2>1, <2>2, <2>8
    <2> QED BY <2>3, <2>4, <2>5, <2>6, <2>7, <2>8
  <1>4. Top(r, c) \in S /\ \A y \in S : Top(r, c) >= y
    <2>1. Top(r, c) = CHOOSE x \in S : \A y \in S : x >= y
      BY DEF Top, Max
    <2> HIDE DEF S
    <2> QED BY <1>3, <2>1
  <1>5. \A y \in S : y <= Top(r, c)
    <2> HIDE DEF S
    <2> QED BY <1>2, <1>4 DEF Priorities, PREVIEW, FIRST, NORMAL, LAST, ONLY_SEED, EXCLUDED
  <1> QED BY <1>2, <1>4, <1>5

LEMMA ChangesTwice ==
  ASSUME NEW r, NEW s, NEW t, NEW C, NEW D, NEW L, NEW M,
         Changes(r, s, C, L), Changes(s, t, D, M)
  PROVE  Changes(r, t, C \cup D, L \cup M)
  <1>1. Tame(r, t)
    BY TameTwice DEF Changes
  <1>2. s.current \subseteq r.current
    BY DEF Changes, Tame
  <1> QED BY <1>1, <1>2 DEF Changes

LEMMA ChangesMore ==
  ASSUME NEW r, NEW s, NEW C, NEW D, NEW L, NEW M,
         Changes(r, s, C, L), C \subseteq D, L \subseteq M
  PROVE  Changes(r, s, D, M)
  BY DEF Changes

LEMMA ResetAllChanges ==
  ASSUME tor \in Torrents, NEW r \in Memory, NEW C \in SUBSET Chunks
  PROVE  /\ Changes(r, ResetAll(r, C), {}, C)
         /\ ResetAll(r, C).current = r.current
  <1> DEFINE s == ResetAll(r, C)
  <1>1. CASE r.loading
    BY <1>1, ResetAllIs, TameSame DEF Changes
  <1>2. CASE ~r.loading
    <2>1. ResetTo(r, C, s)
      BY <1>2, ResetAllIs
    <2> HIDE DEF s
    <2>2. Tame(r, s)
      BY <2>1 DEF ResetTo, Tame
    <2>3. \A c \in Chunks : Top(s, c) = Top(r, c)
      BY <2>1 DEF ResetTo, Top
    <2>4. \A c \in Chunks : Fits(r, c) => Fits(s, c)
      BY <2>1, <2>3, Zenon DEF ResetTo, Fits, Marked, Unwanted
    <2> QED BY <2>1, <2>2, <2>4 DEF ResetTo, Changes, s
  <1> QED BY <1>1, <1>2

LEMMA OnExcludedChanges ==
  ASSUME tor \in Torrents, NEW r \in Memory, NEW C \in SUBSET Chunks
  PROVE  /\ Changes(r, OnExcluded(r, C), {}, {})
         /\ OnExcluded(r, C).current = r.current \ C
  <1> DEFINE q == [r EXCEPT !.current = r.current \ C]
             s == ResetAll(q, r.current \cap C)
  <1>0. OnExcluded(r, C) = s
    BY DEF OnExcluded
  <1>1. q \in Memory
    BY DEF Memory
  <1>2. /\ q.file = r.file /\ q.prio = r.prio /\ q.excluded = r.excluded
        /\ q.onlySeed = r.onlySeed /\ q.loading = r.loading /\ q.data = r.data
        /\ q.gone = r.gone /\ q.running = r.running /\ q.onDisk = r.onDisk
        /\ q.have = r.have /\ q.todo = r.todo /\ q.current = r.current \ C
    BY DEF Memory
  <1> HIDE DEF q
  <1>3. Changes(q, s, {}, r.current \cap C) /\ s.current = q.current
    BY <1>1, ResetAllChanges
  <1> HIDE DEF s
  <1>4. Changes(r, q, {}, {})
    <2>1. \A c \in Chunks : Top(q, c) = Top(r, c)
      BY <1>2 DEF Top
    <2> QED BY <1>1, <1>2, <2>1 DEF Changes, Tame, Fits, Marked
  <1>5. Changes(r, s, {}, r.current \cap C)
    BY <1>3, <1>4, ChangesTwice
  <1> QED BY <1>0, <1>2, <1>3, <1>5 DEF Changes

LEMMA PrioritiseChanges ==
  ASSUME tor \in Torrents, NEW r \in Memory, NEW C, NEW p \in Priorities
  PROVE  LET s == Prioritise(r, C, p)
         IN  /\ Changes(r, s, C, {})
             /\ s.current = r.current /\ s.have = r.have
             /\ \A c \in C \cap Chunks :
                   /\ Marked(r, c)
                   /\ p = Top(r, c) \/ (p = PREVIEW /\ Top(r, c) \notin Unwanted)
                   => Fits(s, c)
  <1> DEFINE mine == C \cap Chunks
             a == [c \in Chunks |-> IF c \in mine THEN p ELSE r.prio[c]]
             b == IF p = ONLY_SEED THEN r.onlySeed \cup mine ELSE r.onlySeed \ mine
             d == IF p \in {ONLY_SEED, EXCLUDED} THEN r.todo \ mine
                  ELSE (r.todo \ mine) \cup (mine \ r.have)
             s == [r EXCEPT !.prio = a, !.onlySeed = b, !.todo = d]
  <1>1. Prioritise(r, C, p) = s
    BY DEF Prioritise
  <1>2. a \in [Chunks -> Priorities] /\ b \in SUBSET Chunks /\ d \in SUBSET Chunks
    BY DEF Memory
  <1>3. \A c \in Chunks \ C : a[c] = r.prio[c] /\ (c \in b <=> c \in r.onlySeed) /\ (c \in d <=> c \in r.todo)
    OBVIOUS
  <1>4. \A c \in C \cap Chunks :
          /\ a[c] = p
          /\ c \in b <=> p = ONLY_SEED
          /\ c \in d <=> p \notin {ONLY_SEED, EXCLUDED} /\ c \notin r.have
    OBVIOUS
  <1> HIDE DEF a, b, d
  <1>5. /\ s \in Memory /\ s.prio = a /\ s.onlySeed = b /\ s.todo = d
        /\ s.file = r.file /\ s.excluded = r.excluded /\ s.loading = r.loading
        /\ s.current = r.current /\ s.data = r.data /\ s.gone = r.gone
        /\ s.running = r.running /\ s.onDisk = r.onDisk /\ s.have = r.have
    BY <1>2 DEF Memory
  <1> HIDE DEF s
  <1>6. \A c \in Chunks : Top(s, c) = Top(r, c)
    BY <1>5 DEF Top
  <1>7. \A c \in Chunks \ C : Fits(r, c) => Fits(s, c)
    BY <1>3, <1>5, <1>6 DEF Fits, Marked
  <1>8. Changes(r, s, C, {})
    BY <1>5, <1>7 DEF Changes, Tame
  <1>9. ASSUME NEW c \in C \cap Chunks, Marked(r, c),
               p = Top(r, c) \/ (p = PREVIEW /\ Top(r, c) \notin Unwanted)
        PROVE  Fits(s, c)
    <2>1. Marked(s, c)
      BY <1>5, <1>6, <1>9 DEF Marked
    <2>2. PREVIEW # ONLY_SEED /\ PREVIEW # EXCLUDED
      BY DEF PREVIEW, ONLY_SEED, EXCLUDED
    <2>3. s.prio[c] = p /\ Top(s, c) = Top(r, c)
      BY <1>4, <1>5, <1>6
    <2>a. c \in s.onlySeed <=> p = ONLY_SEED
      BY <1>4, <1>5
    <2>b. c \in s.todo <=> p \notin Unwanted /\ c \notin s.have
      <3>1. c \in s.todo <=> p \notin {ONLY_SEED, EXCLUDED} /\ c \notin s.have
        BY <1>4, <1>5
      <3> QED BY <3>1 DEF Unwanted
    <2>4. CASE p = Top(r, c)
      BY <2>1, <2>3, <2>a, <2>b, <2>4 DEF Fits
    <2>5. CASE p = PREVIEW /\ Top(r, c) \notin Unwanted
      <3>1. p \notin Unwanted /\ Top(r, c) # ONLY_SEED /\ p # ONLY_SEED
        BY <2>2, <2>5 DEF Unwanted
      <3> QED BY <2>1, <2>3, <2>a, <2>b, <2>5, <3>1 DEF Fits
    <2> QED BY <1>9, <2>4, <2>5
  <1> QED BY <1>1, <1>5, <1>8, <1>9

LEMMA ExcludeChanges ==
  ASSUME tor \in Torrents, NEW r \in Memory, NEW C \in SUBSET Chunks
  PROVE  LET s == Exclude(r, C)
         IN  /\ Tame(r, s) /\ s.current = r.current \ C
             /\ s.excluded = r.excluded \cup C
             /\ r.have \ s.have \subseteq C \cup r.current /\ s.have \cap C = {}
             /\ \A c \in Chunks \ C : Fits(r, c) => Fits(s, c)
             /\ \A c \in C : Top(r, c) = EXCLUDED => Fits(s, c)
  <1> DEFINE a == [c \in Chunks |-> IF c \in C THEN EXCLUDED ELSE r.prio[c]]
             q == [r EXCEPT !.prio = a, !.excluded = r.excluded \cup C,
                            !.onlySeed = r.onlySeed \ C, !.todo = r.todo \ C,
                            !.have = r.have \ C]
             s == OnExcluded(q, C)
  <1>1. Exclude(r, C) = s
    BY DEF Exclude
  <1>2. a \in [Chunks -> Priorities]
    BY DEF Memory, Priorities
  <1>3. \A c \in Chunks : a[c] = IF c \in C THEN EXCLUDED ELSE r.prio[c]
    OBVIOUS
  <1> HIDE DEF a
  <1>5. /\ q \in Memory /\ q.prio = a /\ q.onlySeed = r.onlySeed \ C /\ q.todo = r.todo \ C
        /\ q.excluded = r.excluded \cup C /\ q.have = r.have \ C
        /\ q.file = r.file /\ q.loading = r.loading
        /\ q.current = r.current /\ q.data = r.data /\ q.gone = r.gone
        /\ q.running = r.running /\ q.onDisk = r.onDisk
    BY <1>2 DEF Memory
  <1> HIDE DEF q
  <1>6. \A c \in Chunks : Top(q, c) = Top(r, c)
    BY <1>5 DEF Top
  <1>7. \A c \in Chunks \ C : Fits(r, c) => Fits(q, c)
    BY <1>3, <1>5, <1>6 DEF Fits, Marked
  <1>8. ASSUME NEW c \in C, Top(r, c) = EXCLUDED PROVE Fits(q, c)
    <2>1. EXCLUDED # ONLY_SEED /\ EXCLUDED \in Unwanted /\ c \in Chunks
      BY DEF ONLY_SEED, EXCLUDED, Unwanted
    <2>2. Top(q, c) = EXCLUDED /\ q.prio[c] = EXCLUDED
      BY <1>3, <1>5, <1>6, <1>8, <2>1
    <2>3. c \in q.excluded /\ c \notin q.onlySeed /\ c \notin q.todo
      BY <1>5
    <2> QED BY <2>1, <2>2, <2>3, Zenon DEF Fits, Marked
  <1>9. Changes(q, s, {}, {}) /\ s.current = q.current \ C
    BY <1>5, OnExcludedChanges
  <1> HIDE DEF s
  <1>10. Tame(r, q)
    BY <1>5 DEF Tame
  <1>11. Tame(r, s) /\ s.have \subseteq q.have
    BY <1>9, <1>10, TameTwice DEF Changes, Tame
  <1>12. /\ \A c \in Chunks \ C : Fits(r, c) => Fits(s, c)
         /\ \A c \in C : Top(r, c) = EXCLUDED => Fits(s, c)
    BY <1>7, <1>8, <1>9 DEF Changes
  <1>13. r.have \ s.have \subseteq C \cup r.current /\ s.excluded = r.excluded \cup C
    BY <1>5, <1>9 DEF Changes
  <1> QED BY <1>1, <1>5, <1>9, <1>11, <1>12, <1>13

LEMMA IncludeChanges ==
  ASSUME tor \in Torrents, NEW r \in Memory, NEW C \in SUBSET Chunks
  PROVE  LET s == Include(r, C)
         IN  /\ Tame(r, s) /\ s.current = r.current /\ s.have = r.have
             /\ s.excluded = r.excluded \ C
             /\ \A c \in Chunks \ C : Fits(r, c) => Fits(s, c)
  <1> DEFINE a == [c \in Chunks |-> IF c \in C THEN NORMAL ELSE r.prio[c]]
             q == [r EXCEPT !.prio = a, !.excluded = r.excluded \ C,
                            !.todo = r.todo \cup (C \ r.have)]
             s == [q EXCEPT !.selector = q.selector \cup (C \ q.onDisk)]
  <1>1. Include(r, C) = s
    BY DEF Include, Reincluded
  <1>2. a \in [Chunks -> Priorities]
    BY DEF Memory, Priorities
  <1>3. \A c \in Chunks \ C : a[c] = r.prio[c]
    OBVIOUS
  <1> HIDE DEF a
  <1>4. /\ q \in Memory /\ q.prio = a /\ q.onlySeed = r.onlySeed
        /\ q.todo = r.todo \cup (C \ r.have)
        /\ q.excluded = r.excluded \ C /\ q.have = r.have
        /\ q.file = r.file /\ q.loading = r.loading
        /\ q.current = r.current /\ q.data = r.data /\ q.gone = r.gone
        /\ q.running = r.running /\ q.onDisk = r.onDisk
    BY <1>2 DEF Memory
  <1> HIDE DEF q
  <1>5. /\ s \in Memory /\ s.prio = q.prio /\ s.onlySeed = q.onlySeed /\ s.todo = q.todo
        /\ s.excluded = q.excluded /\ s.have = q.have
        /\ s.file = q.file /\ s.loading = q.loading
        /\ s.current = q.current /\ s.data = q.data /\ s.gone = q.gone
        /\ s.running = q.running /\ s.onDisk = q.onDisk
    BY <1>4 DEF Memory
  <1> HIDE DEF s
  <1>6. \A c \in Chunks : Top(s, c) = Top(r, c)
    BY <1>4, <1>5 DEF Top
  <1>7. \A c \in Chunks \ C : Fits(r, c) => Fits(s, c)
    BY <1>3, <1>4, <1>5, <1>6 DEF Fits, Marked
  <1> QED BY <1>1, <1>4, <1>5, <1>7 DEF Tame

LEMMA SetChunkPriorityChanges ==
  ASSUME tor \in Torrents, NEW r \in Memory, NEW C \in SUBSET Chunks, NEW p \in Priorities
  PROVE  LET s == SetChunkPriority(r, C, p)
         IN  /\ Changes(r, s, C, {})
             /\ \A c \in C : Marked(r, c) /\ p = Top(r, c) => Fits(s, c)
  <1> DEFINE q == Prioritise(r, C, p)
             s == OnExcluded(q, C)
  <1>1. Changes(r, q, C, {}) /\ \A c \in C : Marked(r, c) /\ p = Top(r, c) => Fits(q, c)
    BY PrioritiseChanges
  <1>2. q \in Memory
    BY <1>1 DEF Changes, Tame
  <1> HIDE DEF q
  <1>3. Changes(q, s, {}, {})
    BY <1>2, OnExcludedChanges
  <1> HIDE DEF s
  <1>4. Changes(r, s, C, {})
    BY <1>1, <1>3, ChangesTwice
  <1>5. \A c \in C : Fits(q, c) => Fits(s, c)
    BY <1>3 DEF Changes
  <1>6. SetChunkPriority(r, C, p) = IF p = ONLY_SEED THEN s ELSE q
    BY DEF SetChunkPriority, s, q
  <1> QED BY <1>1, <1>4, <1>5, <1>6

\* Marked as it is in r
LEMMA MarkedSame ==
  ASSUME NEW r, NEW s, NEW C, NEW L, Changes(r, s, C, L), NEW c
  PROVE  (Marked(r, c) <=> Marked(s, c)) /\ Top(s, c) = Top(r, c)
  BY DEF Changes, Tame, Marked, Top

LEMMA BorderChanges ==
  ASSUME tor \in Torrents, NEW r \in Memory, NEW c \in Chunks, NEW p,
         p \in {r.file[f] : f \in FilesOf(c)}
  PROVE  LET s == SetBorderChunkPriority(r, c, p)
         IN  /\ Changes(r, s, {c}, {})
             /\ Marked(r, c) => Fits(s, c)
  <1>1. {p} \cup {r.file[f] : f \in FilesOf(c)} = {r.file[f] : f \in FilesOf(c)}
    OBVIOUS
  <1>2. SetBorderChunkPriority(r, c, p) = SetChunkPriority(r, {c}, Top(r, c))
    BY <1>1 DEF SetBorderChunkPriority, Top
  <1>3. Top(r, c) \in Priorities
    BY TopIs
  <1>4. {c} \in SUBSET Chunks
    OBVIOUS
  <1> QED BY <1>2, <1>3, <1>4, SetChunkPriorityChanges

LEMMA MinIs ==
  ASSUME tor \in Torrents, NEW S \in SUBSET Files, S # {}
  PROVE  Min(S) \in S
  <1>0. S \subseteq Nat
    BY TorrentType
  <1>1. \E x \in S : \A y \in S : x <= y
    BY <1>0, FReset!LeastOf
  <1> QED BY <1>1 DEF Min

LEMMA ResetEndChanges ==
  ASSUME tor \in Torrents, NEW r \in Memory, NEW f \in Files, NEW c \in Chunks
  PROVE  LET s == ResetEnd(r, c, f)
         IN  /\ Changes(r, s, {c}, {c})
             /\ Kept(r, c, f) => /\ Changes(r, s, {c}, {})
                                 /\ Marked(r, c) => Fits(s, c)
  <1>1. CASE Kept(r, c, f)
    <2> DEFINE g == Min(Needing(r, c, f))
    <2>1. g \in FilesOf(c)
      <3>1. Needing(r, c, f) \in SUBSET Files /\ Needing(r, c, f) # {}
        BY <1>1 DEF Kept, Needing, FilesOf
      <3>2. g \in Needing(r, c, f)
        BY <3>1, MinIs
      <3> QED BY <3>2 DEF Needing
    <2>2. ResetEnd(r, c, f) = SetBorderChunkPriority(r, c, r.file[g])
      BY <1>1 DEF ResetEnd
    <2> HIDE DEF g
    <2>3. /\ Changes(r, SetBorderChunkPriority(r, c, r.file[g]), {c}, {})
          /\ Marked(r, c) => Fits(SetBorderChunkPriority(r, c, r.file[g]), c)
      BY <2>1, BorderChanges
    <2>4. Changes(r, ResetEnd(r, c, f), {c}, {})
      BY <2>2, <2>3
    <2>5. Changes(r, ResetEnd(r, c, f), {c}, {c})
      BY <2>4, ChangesMore
    <2> QED BY <2>2, <2>3, <2>4, <2>5
  <1>2. CASE ~Kept(r, c, f)
    <2>1. ResetEnd(r, c, f) = ResetChunk(r, c)
      BY <1>2 DEF ResetEnd
    <2>2. Changes(r, ResetChunk(r, c), {}, {c})
      <3>1. CASE r.loading
        BY <3>1, TameSame DEF ResetChunk, Changes
      <3>2. CASE ~r.loading
        <4> DEFINE s == ResetChunk(r, c)
        <4>1. ResetTo(r, {c}, s)
          BY <3>2, ResetChunkIs
        <4> HIDE DEF s
        <4>2. Tame(r, s)
          BY <4>1 DEF ResetTo, Tame
        <4>3. \A d \in Chunks : Top(s, d) = Top(r, d)
          BY <4>1 DEF ResetTo, Top
        <4>4. \A d \in Chunks : Fits(r, d) => Fits(s, d)
          BY <4>1, <4>3, Zenon DEF ResetTo, Fits, Marked, Unwanted
        <4> QED BY <4>1, <4>2, <4>4 DEF ResetTo, Changes, s
      <3> QED BY <3>1, <3>2
    <2>3. Changes(r, ResetChunk(r, c), {c}, {c})
      BY <2>2, ChangesMore
    <2> QED BY <1>2, <2>1, <2>3
  <1> QED BY <1>1, <1>2

-----------------------------------------------------------------------------
(* A file is no longer downloaded                                           *)

\* The torrents for which the book-keeping is right.  The preview of a file stays
\* in the file: doPreviewPriority takes more chunks than a short file has.  And no
\* file of two chunks shares both: see the run chunkmanager_border.
Shared(t) == {t[f].last : f \in {g \in DOMAIN t \ {Len(t)} : t[g].last = t[g + 1].first}}
Regular(t) ==
    \A f \in DOMAIN t :
      /\ t[f].media /\ t[f].first # t[f].last => t[f].first + PreviewChunks <= t[f].last
      /\ t[f].last = t[f].first + 1 => ~({t[f].first, t[f].last} \subseteq Shared(t))

Inside(f) == Span(f) \ {tor[f].first, tor[f].last}

\* Only chunks that the other files do not keep are lost
Lost(r, s, f) ==
    \A c \in r.have \ s.have :
       c \in r.current \/ \A g \in FilesOf(c) \ {f} : r.file[g] = EXCLUDED

Dropped(r, s, f) ==
    /\ Tame(r, s) /\ s.current \cap s.excluded \subseteq r.excluded
    /\ s.have \cap Inside(f) = {}
    /\ \A c \in Chunks \ Span(f) : Fits(r, c) => Fits(s, c)

DroppedRight(r, s, f) ==
    /\ \A c \in Span(f) : (c \in r.excluded => Top(r, c) = EXCLUDED) => Fits(s, c)
    /\ Lost(r, s, f)

LEMMA NotKept ==
  ASSUME tor \in Torrents, NEW r \in Memory, NEW f \in Files, NEW c \in Span(f), ~Kept(r, c, f)
  PROVE  /\ \A g \in FilesOf(c) \ {f} : r.file[g] = EXCLUDED
         /\ r.file[f] = EXCLUDED => Top(r, c) = EXCLUDED
  <1>1. \A g \in FilesOf(c) \ {f} : r.file[g] = EXCLUDED
    <2> SUFFICES ASSUME NEW g \in FilesOf(c) \ {f}, r.file[g] # EXCLUDED PROVE FALSE
      OBVIOUS
    <2>1. g \in Needing(r, c, f)
      BY DEF Needing
    <2>2. g \in Files /\ c \in Span(g)
      BY DEF FilesOf
    <2>3. c \in BorderChunks
      BY <2>2, SharedChunk
    <2> QED BY <2>1, <2>3 DEF Kept, IsBorderChunk
  <1>2. c \in Chunks
    BY SpanIn
  <1>3. r.file[f] = EXCLUDED => \A g \in FilesOf(c) : r.file[g] = EXCLUDED
    BY <1>1
  <1> QED BY <1>1, <1>2, <1>3, TopIs

LEMMA KeptIs ==
  ASSUME tor \in Torrents, NEW r \in Memory, NEW f \in Files, NEW c \in Span(f), Kept(r, c, f)
  PROVE  Top(r, c) # EXCLUDED /\ c \in BorderChunks
  <1>1. PICK g \in FilesOf(c) : r.file[g] # EXCLUDED
    BY DEF Kept, Needing
  <1>2. c \in Chunks
    BY SpanIn
  <1>3. r.file[g] \in Priorities /\ Top(r, c) \in Priorities /\ r.file[g] <= Top(r, c)
    BY <1>2, TopIs DEF Memory, FilesOf
  <1> QED BY <1>1, <1>3 DEF Kept, IsBorderChunk, Priorities, PREVIEW, FIRST, NORMAL, LAST, ONLY_SEED, EXCLUDED

LEMMA KeptSame ==
  ASSUME NEW r, NEW s, s.file = r.file, NEW c, NEW f
  PROVE  Kept(s, c, f) <=> Kept(r, c, f)
  BY DEF Kept, Needing

LEMMA InsideOnly ==
  ASSUME tor \in Torrents, NEW f \in Files, NEW c \in Inside(f)
  PROVE  FilesOf(c) = {f}
  <1>1. \A g \in FilesOf(c) : g = f
    BY SharedChunk DEF FilesOf, Inside
  <1> QED BY <1>1 DEF FilesOf, Inside

LEMMA DropOneDrops ==
  ASSUME tor \in Torrents, NEW r \in Memory, NEW f \in Files, tor[f].first = tor[f].last,
         r.file[f] = EXCLUDED
  PROVE  Dropped(r, DropOneChunk(r, f), f) /\ DroppedRight(r, DropOneChunk(r, f), f)
  <1> DEFINE c == tor[f].first
             s == DropOneChunk(r, f)
  <1>1. Span(f) = {c} /\ c \in Chunks /\ Inside(f) = {}
    BY SpanIn, TorrentType DEF Span, Inside
  <1>2. CASE Kept(r, c, f)
    <2>1. s = ResetEnd(r, c, f)
      BY <1>2 DEF DropOneChunk
    <2> HIDE DEF s, c
    <2>2. Changes(r, s, {c}, {}) /\ (Marked(r, c) => Fits(s, c))
      BY <1>1, <1>2, <2>1, ResetEndChanges
    <2>3. (c \in r.excluded => Top(r, c) = EXCLUDED) => Marked(r, c)
      BY <1>1, <1>2, KeptIs DEF Marked
    <2>4. Dropped(r, s, f)
      BY <1>1, <2>2 DEF Dropped, Changes
    <2>5. DroppedRight(r, s, f)
      BY <1>1, <2>2, <2>3 DEF DroppedRight, Lost, Changes
    <2> QED BY <2>4, <2>5 DEF s
  <1>3. CASE ~Kept(r, c, f)
    <2> DEFINE q == ResetAll(r, {c})
    <2>1. s = Exclude(ResetChunk(r, c), {c})
      BY <1>3 DEF DropOneChunk
    <2>2. ResetEnd(r, c, f) = ResetChunk(r, c)
      BY <1>3 DEF ResetEnd
    <2> DEFINE u == ResetChunk(r, c)
    <2> HIDE DEF s, c
    <2>3. Changes(r, u, {c}, {c})
      BY <1>1, <2>2, ResetEndChanges
    <2>4. u \in Memory /\ u.excluded = r.excluded /\ u.current \subseteq r.current
      BY <2>3 DEF Changes, Tame
    <2>5. Top(u, c) = Top(r, c) /\ Top(r, c) = EXCLUDED
      BY <1>1, <1>3, <2>3, MarkedSame, NotKept
    <2> HIDE DEF u
    <2>6. {c} \in SUBSET Chunks
      BY <1>1
    <2>7. /\ Tame(u, s) /\ s.current = u.current \ {c}
          /\ s.excluded = u.excluded \cup {c}
          /\ u.have \ s.have \subseteq {c} \cup u.current
          /\ \A d \in Chunks \ {c} : Fits(u, d) => Fits(s, d)
          /\ Fits(s, c)
      BY <2>1, <2>4, <2>5, <2>6, ExcludeChanges DEF u
    <2>8. Tame(r, s)
      BY <2>3, <2>7, TameTwice DEF Changes
    <2>9. \A d \in Chunks \ {c} : Fits(r, d) => Fits(s, d)
      BY <2>3, <2>7 DEF Changes
    <2>10. Dropped(r, s, f)
      BY <1>1, <2>4, <2>7, <2>8, <2>9 DEF Dropped
    <2>11. r.have \ s.have \subseteq {c} \cup r.current
      BY <2>3, <2>4, <2>7 DEF Changes
    <2>12. \A g \in FilesOf(c) \ {f} : r.file[g] = EXCLUDED
      BY <1>1, <1>3, NotKept
    <2>13. DroppedRight(r, s, f)
      BY <1>1, <2>7, <2>11, <2>12 DEF DroppedRight, Lost
    <2> QED BY <2>10, <2>13 DEF s
  <1> QED BY <1>2, <1>3

\* The ends of the range, by what is kept
LEMMA DropRange ==
  ASSUME tor \in Torrents, NEW r \in Memory, NEW f \in Files, tor[f].first # tor[f].last,
         NEW from, from = IF Kept(r, tor[f].first, f) THEN tor[f].first + 1 ELSE tor[f].first,
         NEW to, to = IF tor[f].last # from /\ Kept(r, tor[f].last, f)
                      THEN tor[f].last - 1 ELSE tor[f].last
  PROVE  /\ from .. to \subseteq Span(f) /\ from <= to
         /\ Inside(f) \subseteq from .. to
         /\ tor[f].first \in from .. to <=> ~Kept(r, tor[f].first, f)
         /\ Regular(tor) => (tor[f].last \in from .. to <=> ~Kept(r, tor[f].last, f))
         /\ tor[f].last = from => tor[f].last = tor[f].first + 1 /\ tor[f].last \in from .. to
  <1> DEFINE first == tor[f].first
             last == tor[f].last
  <1>1. first \in Nat /\ last \in Nat /\ first < last
    BY TorrentType
  <1>2. Span(f) = first .. last /\ Inside(f) = (first .. last) \ {first, last}
    BY DEF Span, Inside
  <1>3. from = IF Kept(r, first, f) THEN first + 1 ELSE first
    OBVIOUS
  <1>4. to = IF last # from /\ Kept(r, last, f) THEN last - 1 ELSE last
    OBVIOUS
  <1>5. ASSUME Regular(tor), Kept(r, first, f), Kept(r, last, f) PROVE last # first + 1
    <2>1. {first, last} \subseteq BorderChunks
      BY <1>5, KeptIs, SpanIn
    <2>2. BorderChunks = Shared(tor)
      BY DEF BorderChunks, Shared, Files
    <2> QED BY <1>5, <2>1, <2>2 DEF Regular, Files
  <1> HIDE DEF first, last
  <1>6. from .. to \subseteq first .. last /\ from <= to /\ (first .. last) \ {first, last} \subseteq from .. to
    BY <1>1, <1>3, <1>4
  <1>7. first \in from .. to <=> ~Kept(r, first, f)
    BY <1>1, <1>3, <1>4
  <1>8. Regular(tor) => (last \in from .. to <=> ~Kept(r, last, f))
    BY <1>1, <1>3, <1>4, <1>5
  <1>9. last = from => last = first + 1 /\ last \in from .. to
    BY <1>1, <1>3, <1>4
  <1> QED BY <1>2, <1>6, <1>7, <1>8, <1>9 DEF first, last

\* The loop over the two ends
LEMMA EndsChange ==
  ASSUME tor \in Torrents, NEW r \in Memory, NEW f \in Files, NEW both \in BOOLEAN,
         NEW ends, ends = IF both THEN <<tor[f].first, tor[f].last>> ELSE <<tor[f].first>>,
         tor[f].first # tor[f].last
  PROVE  LET s == FoldLeft(LAMBDA q, c : ResetEnd(q, c, f), r, ends)
             lost == {c \in {tor[f].first, tor[f].last} : ~Kept(r, c, f)}
         IN  /\ Changes(r, s, {tor[f].first, tor[f].last}, lost)
             /\ Kept(r, tor[f].first, f) /\ Marked(r, tor[f].first) => Fits(s, tor[f].first)
             /\ both /\ Kept(r, tor[f].last, f) /\ Marked(r, tor[f].last)
                  => Fits(s, tor[f].last)
  <1> DEFINE first == tor[f].first
             last == tor[f].last
             s == FoldLeft(LAMBDA q, c : ResetEnd(q, c, f), r, ends)
             q == ResetEnd(r, first, f)
             u == ResetEnd(q, last, f)
             lost == {c \in {first, last} : ~Kept(r, c, f)}
  <1>1. s = FEnd!SeqFold(f, 0, r, ends)
    BY DEF FEnd!SeqFold, FoldLeft, MapThenFoldSet, Max, OpEnd
  <1>2. s = IF both THEN u ELSE q
    <2> HIDE DEF first, last, s
    <2>1. FEnd!SeqFold(f, 0, r, <<first, last>>) = OpEnd(f, 0, last, OpEnd(f, 0, first, r))
      BY FEnd!SeqFoldTwo
    <2>2. FEnd!SeqFold(f, 0, r, <<first>>) = OpEnd(f, 0, first, r)
      BY FEnd!SeqFoldOne
    <2>3. ends = IF both THEN <<first, last>> ELSE <<first>>
      BY DEF first, last
    <2> QED BY <1>1, <2>1, <2>2, <2>3 DEF OpEnd
  <1>3. first \in Chunks /\ last \in Chunks /\ first # last
    BY SpanIn
  <1> HIDE DEF first, last
  <1>4. /\ Changes(r, q, {first}, {first})
        /\ Kept(r, first, f) => /\ Changes(r, q, {first}, {})
                                /\ Marked(r, first) => Fits(q, first)
    BY <1>3, ResetEndChanges
  <1>5. q \in Memory /\ q.file = r.file
    BY <1>4 DEF Changes, Tame
  <1>6. Kept(q, last, f) <=> Kept(r, last, f)
    BY <1>5, KeptSame
  <1>7. Marked(q, last) <=> Marked(r, last)
    BY <1>4, MarkedSame
  <1> HIDE DEF q
  <1>8. /\ Changes(q, u, {last}, {last})
        /\ Kept(q, last, f) => /\ Changes(q, u, {last}, {})
                               /\ Marked(q, last) => Fits(u, last)
    BY <1>3, <1>5, ResetEndChanges
  <1> HIDE DEF u
  <1>9. Changes(r, q, {first, last}, lost)
    <2>1. CASE Kept(r, first, f)
      BY <1>4, <2>1, ChangesMore
    <2>2. CASE ~Kept(r, first, f)
      BY <1>4, <2>2, ChangesMore
    <2> QED BY <2>1, <2>2
  <1>10. Changes(q, u, {last}, lost)
    <2>1. CASE Kept(r, last, f)
      BY <1>6, <1>8, <2>1, ChangesMore
    <2>2. CASE ~Kept(r, last, f)
      BY <1>8, <2>2, ChangesMore
    <2> QED BY <2>1, <2>2
  <1>11. Changes(r, u, {first, last}, lost)
    <2>1. Changes(r, u, {first, last} \cup {last}, lost \cup lost)
      BY <1>9, <1>10, ChangesTwice
    <2> QED BY <2>1, ChangesMore
  <1>12. Fits(q, first) => Fits(u, first)
    BY <1>3, <1>8 DEF Changes
  <1> HIDE DEF s, lost
  <1>13. /\ Changes(r, s, {first, last}, lost)
         /\ Kept(r, first, f) /\ Marked(r, first) => Fits(s, first)
         /\ both /\ Kept(r, last, f) /\ Marked(r, last) => Fits(s, last)
    BY <1>2, <1>4, <1>6, <1>7, <1>8, <1>9, <1>11, <1>12
  <1> QED BY <1>13 DEF s, lost, first, last

LEMMA DropChunksDrops ==
  ASSUME tor \in Torrents, NEW r \in Memory, NEW f \in Files, tor[f].first # tor[f].last,
         r.file[f] = EXCLUDED
  PROVE  /\ Dropped(r, DropChunks(r, f), f)
         /\ Regular(tor) => DroppedRight(r, DropChunks(r, f), f)
  <1> DEFINE first == tor[f].first
             last == tor[f].last
             from == IF Kept(r, first, f) THEN first + 1 ELSE first
             to == IF last # from /\ Kept(r, last, f) THEN last - 1 ELSE last
             both == last # from
             ends == IF both THEN <<first, last>> ELSE <<first>>
             q == ResetAll(r, first + 1 .. last - 1)
             u == FoldLeft(LAMBDA v, c : ResetEnd(v, c, f), q, ends)
             s == Exclude(u, from .. to)
             lost == {c \in {first, last} : ~Kept(q, c, f)}
  <1>1. /\ from .. to \subseteq Span(f) /\ from <= to /\ Inside(f) \subseteq from .. to
        /\ first \in from .. to <=> ~Kept(r, first, f)
        /\ Regular(tor) => (last \in from .. to <=> ~Kept(r, last, f))
        /\ last = from => last \in from .. to
    BY DropRange
  <1>2. DropChunks(r, f) = s
    <2>1. ends = IF last = from THEN <<first>> ELSE <<first, last>>
      OBVIOUS
    <2> QED BY <1>1, <2>1 DEF DropChunks
  <1>3. /\ first \in Chunks /\ last \in Chunks /\ first # last /\ Span(f) \subseteq Chunks
        /\ first \in Span(f) /\ last \in Span(f)
    BY SpanIn
  <1>4. Inside(f) = first + 1 .. last - 1 /\ Span(f) = Inside(f) \cup {first, last}
    BY SMTT(30), TorrentType DEF Inside, Span
  <1>5. Changes(r, q, {}, Inside(f)) /\ q \in Memory /\ q.file = r.file
    <2>1. first + 1 .. last - 1 \in SUBSET Chunks
      BY <1>3, <1>4
    <2> QED BY ZenonT(30), <1>4, <2>1, ResetAllChanges DEF Changes, Tame
  <1> HIDE DEF q, first, last
  <1>6. /\ Changes(q, u, {first, last}, lost)
        /\ Kept(q, first, f) /\ Marked(q, first) => Fits(u, first)
        /\ both /\ Kept(q, last, f) /\ Marked(q, last) => Fits(u, last)
    <2> HIDE DEF u, lost
    <2>1. both \in BOOLEAN
      OBVIOUS
    <2> HIDE DEF both
    <2> QED BY <1>5, <2>1, EndsChange DEF u, lost, first, last
  <1>7. \A c : (Kept(q, c, f) <=> Kept(r, c, f)) /\ (Marked(q, c) <=> Marked(r, c)) /\ Top(q, c) = Top(r, c)
    BY <1>5, KeptSame, MarkedSame
  <1> HIDE DEF u, from, to
  <1>8. /\ Changes(r, u, {first, last}, Inside(f) \cup lost) /\ u \in Memory
        /\ u.excluded = r.excluded
    <2>1. Changes(r, u, {} \cup {first, last}, Inside(f) \cup lost)
      BY <1>5, <1>6, ChangesTwice
    <2>2. Changes(r, u, {first, last}, Inside(f) \cup lost)
      BY <2>1, ChangesMore
    <2> QED BY <2>2 DEF Changes, Tame
  <1>9. from .. to \in SUBSET Chunks
    BY <1>1, <1>3
  <1>10. /\ Tame(u, s) /\ s.current = u.current \ (from .. to)
         /\ s.excluded = u.excluded \cup (from .. to)
         /\ u.have \ s.have \subseteq (from .. to) \cup u.current
         /\ s.have \cap (from .. to) = {}
         /\ \A c \in Chunks \ (from .. to) : Fits(u, c) => Fits(s, c)
         /\ \A c \in from .. to : Top(u, c) = EXCLUDED => Fits(s, c)
    BY <1>8, <1>9, ExcludeChanges
  <1> HIDE DEF s
  <1>11. Tame(r, s) /\ u.current \subseteq r.current
    BY <1>8, <1>10, TameTwice DEF Changes, Tame
  <1>12. \A c \in Chunks \ Span(f) : Fits(r, c) => Fits(s, c)
    BY <1>1, <1>4, <1>8, <1>10 DEF Changes
  <1>13. Dropped(r, s, f)
    BY <1>1, <1>8, <1>10, <1>11, <1>12 DEF Dropped
  <1>14. \A c : Top(u, c) = Top(r, c)
    BY <1>8, MarkedSame
  <1>15. ASSUME Regular(tor) PROVE DroppedRight(r, s, f)
    <2>1. ASSUME NEW c \in from .. to
          PROVE  /\ \A g \in FilesOf(c) \ {f} : r.file[g] = EXCLUDED
                 /\ Top(r, c) = EXCLUDED
      <3>1. c \in Span(f)
        BY <1>1
      <3>2. ~Kept(r, c, f)
        <4>1. CASE c \in {first, last}
          BY <1>1, <1>15, <4>1
        <4>2. CASE c \in Inside(f)
          <5>1. FilesOf(c) = {f}
            BY <4>2, InsideOnly
          <5> QED BY <5>1 DEF Kept, Needing
        <4> QED BY <1>4, <3>1, <4>1, <4>2
      <3> QED BY <3>1, <3>2, NotKept
    <2>2. ASSUME NEW c \in Span(f), c \in r.excluded => Top(r, c) = EXCLUDED PROVE Fits(s, c)
      <3>1. CASE c \in from .. to
        BY <1>10, <1>14, <2>1, <3>1
      <3>2. CASE c \notin from .. to
        <4>1. c \in {first, last} /\ Kept(r, c, f) /\ c \in Chunks
          BY <1>1, <1>3, <1>4, <1>15, <3>2
        <4>2. Marked(r, c)
          BY <2>2, <4>1, KeptIs DEF Marked
        <4>3. c = first \/ (c = last /\ both)
          BY <1>1, <3>2, <4>1
        <4>4. Fits(u, c)
          BY <1>6, <1>7, <4>1, <4>2, <4>3
        <4> QED BY <1>10, <3>2, <4>1, <4>4
      <3> QED BY <3>1, <3>2
    <2>3. Lost(r, s, f)
      <3>1. r.have \ s.have \subseteq (Inside(f) \cup lost) \cup r.current \cup (from .. to)
        BY <1>8, <1>10, <1>11 DEF Changes
      <3>2. lost \subseteq from .. to
        BY <1>1, <1>7, <1>15
      <3> QED BY <1>1, <2>1, <3>1, <3>2 DEF Lost
    <2> QED BY <2>2, <2>3 DEF DroppedRight
  <1> QED BY <1>2, <1>13, <1>15

-----------------------------------------------------------------------------
(* The priority of a file changes                                           *)

LEMMA PriorityOrder ==
  ASSUME NEW p \in Priorities, NEW q \in Priorities, p <= q
  PROVE  /\ q = EXCLUDED => p = EXCLUDED
         /\ q \in Unwanted => p \in Unwanted
  BY DEF Priorities, PREVIEW, FIRST, NORMAL, LAST, ONLY_SEED, EXCLUDED, Unwanted

LEMMA PreviewChanges ==
  ASSUME tor \in Torrents, NEW r \in Memory, NEW f \in Files
  PROVE  LET s == DoPreviewPriority(r, f)
         IN  /\ Tame(r, s) /\ s.excluded = r.excluded /\ s.have = r.have
             /\ s.current = r.current
             /\ Regular(tor) => Changes(r, s, {}, {})
  <1>1. CASE ~tor[f].media \/ r.file[f] \in {EXCLUDED, ONLY_SEED}
    <2>1. DoPreviewPriority(r, f) = r
      BY <1>1 DEF DoPreviewPriority
    <2> QED BY <2>1, TameSame DEF Changes
  <1>2. CASE tor[f].media /\ r.file[f] \notin {EXCLUDED, ONLY_SEED}
    <2> DEFINE C == PreviewOf(f)
               s == Prioritise(r, C, PREVIEW)
    <2>1. DoPreviewPriority(r, f) = s
      BY <1>2 DEF DoPreviewPriority
    <2>2. PREVIEW \in Priorities
      BY DEF Priorities
    <2> HIDE DEF C
    <2>3. /\ Changes(r, s, C, {}) /\ s.current = r.current /\ s.have = r.have
          /\ \A c \in C \cap Chunks :
                Marked(r, c) /\ Top(r, c) \notin Unwanted => Fits(s, c)
      BY <2>2, PrioritiseChanges
    <2> HIDE DEF s
    <2>4. ASSUME Regular(tor) PROVE Changes(r, s, {}, {})
      <3>1. C \subseteq Span(f)
        <4> DEFINE first == tor[f].first
                   last == tor[f].last
        <4>1. first \in Nat /\ last \in Nat /\ first <= last /\ PreviewChunks \in Nat
          BY TorrentType
        <4>2. first # last => first + PreviewChunks <= last
          BY <1>2, <2>4 DEF Regular, Files
        <4>3. Span(f) = first .. last
          BY DEF Span
        <4>4. C = IF first = last THEN {first}
                  ELSE first .. first + PreviewChunks
                       \cup IF last - first > PreviewChunks THEN last - PreviewChunks .. last ELSE {}
          BY DEF C, PreviewOf
        <4> HIDE DEF first, last
        <4> QED BY <4>1, <4>2, <4>3, <4>4
      <3>2. ASSUME NEW c \in C \cap Chunks, Fits(r, c) PROVE Fits(s, c)
        <4>1. f \in FilesOf(c)
          BY <3>1 DEF FilesOf
        <4>2. r.file[f] \in Priorities /\ r.file[f] <= Top(r, c) /\ Top(r, c) \in Priorities
          BY <4>1, TopIs DEF Memory
        <4>3. Top(r, c) \notin Unwanted
          <5>1. r.file[f] \notin Unwanted
            BY <1>2 DEF Unwanted
          <5> QED BY <4>2, <5>1, PriorityOrder
        <4> QED BY <2>3, <3>2, <4>3 DEF Fits
      <3>3. \A c \in Chunks : Fits(r, c) => Fits(s, c)
        BY <2>3, <3>2 DEF Changes
      <3> QED BY <2>3, <3>3 DEF Changes
    <2> QED BY <2>1, <2>3, <2>4 DEF Changes
  <1> QED BY <1>1, <1>2

\* What becomes of the record when the priority of file f is p
Adjusted(r, s, f, p) ==
    /\ s \in Memory /\ s.file = [r.file EXCEPT ![f] = p]
    /\ s.loading = r.loading /\ s.running = r.running
    /\ s.current \subseteq r.current /\ s.have \subseteq r.have
    /\ s.onDisk \subseteq r.onDisk /\ s.have \ s.onDisk \subseteq r.have \ r.onDisk
    /\ s.gone \subseteq r.gone
    /\ s.current \cap s.excluded \subseteq r.excluded
    /\ s.data = IF p = EXCLUDED
                THEN {fc \in r.data : fc[1] = f => fc[2] \in {tor[f].first, tor[f].last}}
                ELSE r.data
    /\ p = EXCLUDED => s.have \cap Inside(f) = {}

AdjustedRight(r, s, f) == (\A c \in Chunks : Fits(s, c)) /\ Lost(r, s, f)

LEMMA AdjustExcluded ==
  ASSUME tor \in Torrents, NEW r \in Memory, NEW f \in Files
  PROVE  LET s == Reprioritise(r, f, EXCLUDED)
         IN  /\ Adjusted(r, s, f, EXCLUDED)
             /\ Regular(tor) /\ (\A c \in Chunks : Fits(r, c)) => AdjustedRight(r, s, f)
  <1> DEFINE q == [r EXCEPT !.file[f] = EXCLUDED]
             u == IF tor[f].first = tor[f].last THEN DropOneChunk(q, f) ELSE DropChunks(q, f)
             d == {fc \in u.data : fc[1] = f => fc[2] \in {tor[f].first, tor[f].last}}
             g == u.gone \ {f}
             s == [u EXCEPT !.gone = g, !.data = d]
  <1>1. Reprioritise(r, f, EXCLUDED) = s
    BY DEF Reprioritise, DownloadPriorityChanged, DownloadStatusChanged, CacheStatus
  <1>2. EXCLUDED \in Priorities
    BY DEF Priorities
  <1>3. /\ q \in Memory /\ q.file = [r.file EXCEPT ![f] = EXCLUDED] /\ q.file[f] = EXCLUDED
        /\ q.prio = r.prio /\ q.onlySeed = r.onlySeed /\ q.todo = r.todo
        /\ q.excluded = r.excluded /\ q.have = r.have
        /\ q.loading = r.loading /\ q.gone = r.gone
        /\ q.current = r.current /\ q.data = r.data
        /\ q.running = r.running /\ q.onDisk = r.onDisk
    BY <1>2 DEF Memory
  <1> HIDE DEF q
  <1>4. Dropped(q, u, f) /\ (Regular(tor) => DroppedRight(q, u, f))
    BY <1>3, DropOneDrops, DropChunksDrops
  <1>5. u \in Memory
    BY <1>4 DEF Dropped, Tame
  <1> HIDE DEF u
  <1>6. d \in SUBSET Fragments(Chunks) /\ g \in SUBSET Files /\ g \subseteq u.gone
    BY <1>5 DEF Memory
  <1> HIDE DEF g
  <1>7. /\ s \in Memory /\ s.data = d /\ s.gone = g /\ s.file = u.file
        /\ s.prio = u.prio /\ s.onlySeed = u.onlySeed /\ s.todo = u.todo
        /\ s.excluded = u.excluded /\ s.have = u.have /\ s.loading = u.loading
        /\ s.current = u.current /\ s.running = u.running /\ s.onDisk = u.onDisk
    <2> HIDE DEF d
    <2> QED BY <1>5, <1>6 DEF Memory
  <1> HIDE DEF s
  <1>8. u.data = r.data
    BY <1>3, <1>4 DEF Dropped, Tame
  <1>9. Adjusted(r, s, f, EXCLUDED)
    BY <1>3, <1>4, <1>6, <1>7, <1>8 DEF Adjusted, Dropped, Tame
  <1>10. ASSUME Regular(tor), \A c \in Chunks : Fits(r, c) PROVE AdjustedRight(r, s, f)
    <2>1. ASSUME NEW c \in Chunks \ Span(f) PROVE Fits(q, c)
      <3>1. Top(q, c) = Top(r, c)
        <4>1. {q.file[h] : h \in FilesOf(c)} = {r.file[h] : h \in FilesOf(c)}
          <5>1. \A h \in FilesOf(c) : h # f /\ h \in Files
            BY DEF FilesOf
          <5> QED BY <1>3, <5>1 DEF Memory
        <4> QED BY <4>1 DEF Top
      <3> QED BY <1>3, <1>10, <3>1 DEF Fits, Marked
    <2>2. ASSUME NEW c \in Span(f), c \in q.excluded PROVE Top(q, c) = EXCLUDED
      <3>1. c \in Chunks
        BY SpanIn
      <3>2. Top(r, c) = EXCLUDED
        BY <1>3, <1>10, <2>2, <3>1 DEF Fits, Marked
      <3>3. \A h \in FilesOf(c) : r.file[h] = EXCLUDED
        BY <3>1, <3>2, TopIs, PriorityOrder DEF Memory, FilesOf
      <3>4. \A h \in FilesOf(c) : q.file[h] = EXCLUDED
        BY <1>3, <3>3 DEF Memory, FilesOf
      <3> QED BY ZenonT(30), <1>3, <3>1, <3>4, TopIs
    <2>3. \A c \in Chunks : Fits(u, c)
      BY <1>4, <1>10, <2>1, <2>2 DEF Dropped, DroppedRight
    <2>4. \A c \in Chunks : Fits(s, c)
      <3>1. \A c : Top(s, c) = Top(u, c)
        BY <1>7 DEF Top
      <3> QED BY <1>7, <2>3, <3>1 DEF Fits, Marked
    <2>5. Lost(r, s, f)
      <3>1. Lost(q, u, f)
        BY <1>4, <1>10 DEF DroppedRight
      <3>2. \A c : \A h \in FilesOf(c) \ {f} : q.file[h] = r.file[h]
        BY <1>3 DEF Memory, FilesOf
      <3> QED BY <1>3, <1>7, <3>1, <3>2 DEF Lost
    <2> QED BY <2>4, <2>5 DEF AdjustedRight
  <1> QED BY <1>1, <1>9, <1>10

\* The loop over the ends of a file that are border chunks
SetBorders(p, r, ends) == FoldSet(LAMBDA c, q : SetBorderChunkPriority(q, c, p), r, ends)

LEMMA BordersChange ==
  ASSUME tor \in Torrents, NEW r \in Memory, NEW f \in Files,
         NEW ends \in SUBSET (Chunks \cap Span(f)), NEW p, p = r.file[f]
  PROVE  LET s == SetBorders(p, r, ends)
         IN  /\ Changes(r, s, ends, {})
             /\ \A c \in ends : Marked(r, c) => Fits(s, c)
  <1> DEFINE I == [T \in SUBSET ends |->
                     {s \in Memory : /\ Changes(r, s, T, {})
                                     /\ \A c \in T : Marked(r, c) => Fits(s, c)}]
             s == SetBorders(p, r, ends)
  <1>1. s = FBorder!SetFold(p, 0, r, ends)
    BY DEF SetBorders, FoldSet, MapThenFoldSet, FBorder!SetFold, OpBorder
  <1>2. FBorder!IsFiniteSet(ends)
    BY FinitePart
  <1>3. r \in I[{}]
    BY TameSame DEF Changes
  <1>4. ASSUME NEW T \in SUBSET ends, NEW c \in ends \ T, NEW q \in I[T]
        PROVE  OpBorder(p, 0, c, q) \in I[T \cup {c}]
    <2> DEFINE u == SetBorderChunkPriority(q, c, p)
    <2>1. /\ q \in Memory /\ Changes(r, q, T, {})
          /\ \A d \in T : Marked(r, d) => Fits(q, d)
      OBVIOUS
    <2>2. f \in FilesOf(c) /\ c \in Chunks
      BY DEF FilesOf
    <2>3. q.file = r.file
      BY <2>1 DEF Changes, Tame
    <2>4. p \in {q.file[h] : h \in FilesOf(c)}
      BY <2>2, <2>3
    <2>5. Changes(q, u, {c}, {}) /\ (Marked(q, c) => Fits(u, c))
      BY <2>1, <2>2, <2>4, BorderChanges
    <2>6. Marked(r, c) => Marked(q, c)
      BY <2>1, MarkedSame
    <2> HIDE DEF u
    <2>7. Changes(r, u, T \cup {c}, {})
      BY <2>1, <2>5, ChangesTwice
    <2>8. \A d \in T \cup {c} : Marked(r, d) => Fits(u, d)
      BY <2>1, <2>5, <2>6 DEF Changes
    <2>9. u \in Memory
      BY <2>7 DEF Changes, Tame
    <2>10. u \in I[T \cup {c}]
      BY <2>7, <2>8, <2>9
    <2> QED BY <2>10 DEF OpBorder, u
  <1> HIDE DEF I
  <1>5. FBorder!SetFold(p, 0, r, ends) \in I[ends]
    BY <1>2, <1>3, <1>4, FBorder!SetFoldKeeps
  <1>6. s \in I[ends]
    BY <1>1, <1>5
  <1> HIDE DEF s
  <1> QED BY <1>6 DEF I, s

LEMMA AdjustOther ==
  ASSUME tor \in Torrents, NEW r \in Memory, NEW f \in Files,
         NEW p \in Priorities, p # EXCLUDED
  PROVE  LET s == Reprioritise(r, f, p)
         IN  /\ Adjusted(r, s, f, p)
             /\ Regular(tor) /\ (\A c \in Chunks : Fits(r, c)) => AdjustedRight(r, s, f)
  <1> DEFINE q == [r EXCEPT !.file[f] = p]
             i == Include(q, Span(f))
             v == IF r.file[f] = EXCLUDED THEN DoPreviewPriority(i, f) ELSE q
             ends == {tor[f].first, tor[f].last} \cap BorderChunks
             t == SetBorders(p, v, ends)
             u == SetChunkPriority(t, Span(f) \ ends, p)
             given == IF p = ONLY_SEED /\ tor[f].first = tor[f].last THEN Span(f) ELSE {}
             x == OnExcluded(u, given)
             s == DoPreviewPriority(x, f)
  <1>1. Reprioritise(r, f, p) = s
    <2>1. v = IF r.file[f] = EXCLUDED THEN DownloadStatusChanged(q, f, TRUE) ELSE q
      BY DEF DownloadStatusChanged, CacheStatus
    <2> HIDE DEF v, q
    <2> QED BY <2>1 DEF Reprioritise, DownloadPriorityChanged, SetBorders, q
  <1>2. Span(f) \subseteq Chunks /\ ends \subseteq Span(f) /\ given \in SUBSET Chunks
    BY SpanIn
  <1>3. /\ q \in Memory /\ q.file = [r.file EXCEPT ![f] = p] /\ q.file[f] = p
        /\ q.prio = r.prio /\ q.onlySeed = r.onlySeed /\ q.todo = r.todo
        /\ q.excluded = r.excluded /\ q.have = r.have
        /\ q.loading = r.loading /\ q.gone = r.gone
        /\ q.current = r.current /\ q.data = r.data
        /\ q.running = r.running /\ q.onDisk = r.onDisk
    BY DEF Memory
  <1> HIDE DEF q, given
  <1>4. /\ Tame(q, i) /\ i.current = q.current /\ i.have = q.have
        /\ i.excluded = q.excluded \ Span(f)
        /\ \A c \in Chunks \ Span(f) : Fits(q, c) => Fits(i, c)
    <2>1. Span(f) \in SUBSET Chunks
      BY <1>2
    <2> QED BY <1>3, <2>1, IncludeChanges
  <1> HIDE DEF i
  <1>5. /\ Tame(q, v) /\ v.have = q.have /\ v.current = q.current
        /\ v.excluded = IF r.file[f] = EXCLUDED THEN q.excluded \ Span(f) ELSE q.excluded
        /\ Regular(tor) => \A c \in Chunks \ Span(f) : Fits(q, c) => Fits(v, c)
    <2>1. CASE r.file[f] = EXCLUDED
      <3>1. i \in Memory
        BY <1>4 DEF Tame
      <3> DEFINE y == DoPreviewPriority(i, f)
      <3>2. /\ Tame(i, y) /\ y.excluded = i.excluded /\ y.have = i.have
            /\ y.current = i.current
            /\ Regular(tor) => Changes(i, y, {}, {})
        BY <3>1, PreviewChanges
      <3>3. v = y
        BY <2>1
      <3> HIDE DEF v, y
      <3>4. Tame(q, y)
        BY <1>4, <3>2, TameTwice
      <3> QED BY <1>4, <2>1, <3>2, <3>3, <3>4 DEF Changes
    <2>2. CASE r.file[f] # EXCLUDED
      BY <1>3, <2>2, TameSame
    <2> QED BY <2>1, <2>2
  <1>6. v \in Memory /\ v.file = q.file
    BY <1>5 DEF Tame
  <1> HIDE DEF v
  <1>7. /\ Changes(v, t, ends, {})
        /\ \A c \in ends : Marked(v, c) => Fits(t, c)
    <2>1. v.file[f] = p
      BY <1>3, <1>6
    <2>2. ends \in SUBSET (Chunks \cap Span(f))
      BY <1>2
    <2> HIDE DEF ends
    <2> QED BY <1>6, <2>1, <2>2, BordersChange
  <1>8. t \in Memory
    BY <1>7 DEF Changes, Tame
  <1> HIDE DEF t
  <1>9. /\ Changes(t, u, Span(f) \ ends, {})
        /\ \A c \in Span(f) \ ends : Marked(t, c) /\ p = Top(t, c) => Fits(u, c)
    <2>1. Span(f) \ ends \in SUBSET Chunks
      BY <1>2
    <2> HIDE DEF ends
    <2> QED BY <1>8, <2>1, SetChunkPriorityChanges
  <1>10. u \in Memory
    BY <1>9 DEF Changes, Tame
  <1> HIDE DEF u
  <1>11. Changes(u, x, {}, {})
    BY <1>2, <1>10, OnExcludedChanges
  <1>12. x \in Memory
    BY <1>11 DEF Changes, Tame
  <1> HIDE DEF x
  <1>13. /\ Tame(x, s) /\ s.excluded = x.excluded /\ s.have = x.have
         /\ Regular(tor) => Changes(x, s, {}, {})
    BY <1>12, PreviewChanges
  <1> HIDE DEF s
  <1>14. Changes(v, x, Span(f), {})
    <2>1. Changes(v, u, ends \cup (Span(f) \ ends), {} \cup {})
      BY <1>7, <1>9, ChangesTwice
    <2>2. Changes(v, x, (ends \cup (Span(f) \ ends)) \cup {}, ({} \cup {}) \cup {})
      BY <1>11, <2>1, ChangesTwice
    <2> QED BY <1>2, <2>2, ChangesMore
  <1>15. Tame(q, s)
    BY <1>5, <1>13, <1>14, TameTwice DEF Changes
  <1>16. Adjusted(r, s, f, p)
    <2>1. s.excluded \subseteq r.excluded
      BY <1>3, <1>5, <1>13, <1>14 DEF Changes
    <2> QED BY <1>3, <1>15, <2>1 DEF Adjusted, Tame
  <1>17. ASSUME Regular(tor), \A c \in Chunks : Fits(r, c) PROVE AdjustedRight(r, s, f)
    <2>1. ASSUME NEW c \in Chunks \ Span(f) PROVE Fits(q, c)
      <3>1. Top(q, c) = Top(r, c)
        <4>1. {q.file[h] : h \in FilesOf(c)} = {r.file[h] : h \in FilesOf(c)}
          <5>1. \A h \in FilesOf(c) : h # f /\ h \in Files
            BY DEF FilesOf
          <5> QED BY <1>3, <5>1 DEF Memory
        <4> QED BY <4>1 DEF Top
      <3> QED BY <1>3, <1>17, <3>1 DEF Fits, Marked
    <2>2. ASSUME NEW c \in Span(f) PROVE Marked(v, c)
      <3>1. c \in Chunks /\ f \in FilesOf(c)
        BY <1>2 DEF FilesOf
      <3>2. Top(v, c) # EXCLUDED
        <4>1. v.file[f] = p /\ v.file[f] <= Top(v, c) /\ Top(v, c) \in Priorities
          BY <1>3, <1>6, <3>1, TopIs
        <4> QED BY <4>1, PriorityOrder
      <3>3. c \notin v.excluded
        <4>1. CASE r.file[f] = EXCLUDED
          BY <1>5, <4>1
        <4>2. CASE r.file[f] # EXCLUDED
          <5>1. r.file[f] \in Priorities /\ r.file[f] <= Top(r, c) /\ Top(r, c) \in Priorities
            BY <3>1, TopIs DEF Memory
          <5>2. Top(r, c) # EXCLUDED
            BY <4>2, <5>1, PriorityOrder
          <5>3. c \notin r.excluded
            BY <1>17, <3>1, <5>2 DEF Fits, Marked
          <5> QED BY <1>3, <1>5, <5>3
        <4> QED BY <4>1, <4>2
      <3> QED BY <3>2, <3>3 DEF Marked
    <2>3. ASSUME NEW c \in Span(f) PROVE Fits(u, c)
      <3>1. CASE c \in ends
        <4>1. Fits(t, c) /\ c \in Chunks
          BY <1>2, <1>7, <2>2, <3>1
        <4> QED BY <1>9, <3>1, <4>1 DEF Changes
      <3>2. CASE c \notin ends
        <4>1. Marked(t, c) /\ Top(t, c) = Top(v, c)
          BY <1>7, <2>2, MarkedSame
        <4>2. FilesOf(c) = {f}
          <5>1. \A g \in FilesOf(c) : g = f
            BY <3>2, SharedChunk DEF FilesOf
          <5> QED BY <5>1 DEF FilesOf
        <4>3. Top(v, c) = p
          <5>1. c \in Chunks
            BY <1>2
          <5>2. \E h \in FilesOf(c) : Top(v, c) = v.file[h]
            BY <1>6, <5>1, TopIs
          <5> QED BY <1>3, <1>6, <4>2, <5>2
        <4> QED BY <1>9, <3>2, <4>1, <4>3
      <3> QED BY <3>1, <3>2
    <2>4. \A c \in Chunks \ Span(f) : Fits(x, c)
      BY <1>5, <1>14, <1>17, <2>1 DEF Changes
    <2>5. \A c \in Span(f) : Fits(x, c)
      BY <1>2, <1>11, <2>3 DEF Changes
    <2>6. \A c \in Chunks : Fits(s, c)
      BY <1>13, <1>17, <2>4, <2>5 DEF Changes
    <2>7. r.have \ s.have \subseteq r.current
      BY <1>3, <1>5, <1>13, <1>14 DEF Changes
    <2> QED BY <2>6, <2>7 DEF AdjustedRight, Lost
  <1> QED BY <1>1, <1>16, <1>17

LEMMA ReprioritiseIs ==
  ASSUME tor \in Torrents, NEW r \in Memory, NEW f \in Files, NEW p \in Priorities
  PROVE  LET s == Reprioritise(r, f, p)
         IN  /\ Adjusted(r, s, f, p)
             /\ Regular(tor) /\ (\A c \in Chunks : Fits(r, c)) => AdjustedRight(r, s, f)
  BY AdjustExcluded, AdjustOther

LEMMA SetDoNotDownloadIs ==
  ASSUME tor \in Torrents, NEW r \in Memory, NEW f \in Files, NEW dnd \in BOOLEAN
  PROVE  LET s == SetDoNotDownload(r, f, dnd)
             p == IF dnd THEN EXCLUDED ELSE NORMAL
         IN  /\ \/ s = r /\ dnd = (r.file[f] = EXCLUDED)
                \/ Adjusted(r, s, f, p)
             /\ Regular(tor) /\ (\A c \in Chunks : Fits(r, c)) => AdjustedRight(r, s, f)
  <1> DEFINE p == IF dnd THEN EXCLUDED ELSE NORMAL
  <1>1. p \in Priorities
    BY DEF Priorities
  <1>2. CASE dnd = (r.file[f] = EXCLUDED)
    <2>1. SetDoNotDownload(r, f, dnd) = r
      BY <1>2 DEF SetDoNotDownload
    <2> QED BY <1>2, <2>1 DEF AdjustedRight, Lost
  <1>3. CASE dnd # (r.file[f] = EXCLUDED)
    <2>1. SetDoNotDownload(r, f, dnd) = Reprioritise(r, f, p)
      BY <1>3 DEF SetDoNotDownload
    <2> HIDE DEF p
    <2> QED BY <1>1, <2>1, ReprioritiseIs DEF p
  <1> QED BY <1>2, <1>3

LEMMA SetPriorityIs ==
  ASSUME tor \in Torrents, NEW r \in Memory, NEW f \in Files, NEW p \in Priorities
  PROVE  LET s == SetPriority(r, f, p)
         IN  /\ (s = r /\ r.file[f] = p) \/ Adjusted(r, s, f, p)
             /\ Regular(tor) /\ (\A c \in Chunks : Fits(r, c)) => AdjustedRight(r, s, f)
  <1>1. CASE r.file[f] = p
    <2>1. SetPriority(r, f, p) = r
      BY <1>1 DEF SetPriority
    <2> QED BY <1>1, <2>1 DEF AdjustedRight, Lost
  <1>2. CASE r.file[f] # p /\ p = EXCLUDED
    <2>1. SetPriority(r, f, p) = SetDoNotDownload(r, f, TRUE)
      BY <1>2 DEF SetPriority
    <2> QED BY <1>2, <2>1, SetDoNotDownloadIs
  <1>3. CASE r.file[f] # p /\ p # EXCLUDED
    <2> DEFINE q == SetDoNotDownload(r, f, FALSE)
               s == Reprioritise(q, f, p)
    <2>1. SetPriority(r, f, p) = s
      BY <1>3 DEF SetPriority
    <2>2. /\ q = r \/ Adjusted(r, q, f, NORMAL)
          /\ Regular(tor) /\ (\A c \in Chunks : Fits(r, c)) => AdjustedRight(r, q, f)
      BY SetDoNotDownloadIs
    <2>3. q \in Memory
      BY <2>2 DEF Adjusted
    <2> HIDE DEF q
    <2>4. /\ Adjusted(q, s, f, p)
          /\ Regular(tor) /\ (\A c \in Chunks : Fits(q, c)) => AdjustedRight(q, s, f)
      BY <2>3, ReprioritiseIs
    <2> HIDE DEF s
    <2>5. NORMAL # EXCLUDED
      BY DEF NORMAL, EXCLUDED
    <2>6. /\ q.file = r.file \/ q.file = [r.file EXCEPT ![f] = NORMAL]
          /\ q.loading = r.loading /\ q.running = r.running
          /\ q.current \subseteq r.current /\ q.have \subseteq r.have
          /\ q.onDisk \subseteq r.onDisk /\ q.have \ q.onDisk \subseteq r.have \ r.onDisk
          /\ q.gone \subseteq r.gone
          /\ q.current \cap q.excluded \subseteq r.excluded
          /\ q.data = r.data
      BY <2>2, <2>5 DEF Adjusted
    <2>7. s.file = [r.file EXCEPT ![f] = p]
      BY <2>4, <2>6 DEF Adjusted, Memory
    <2>8. Adjusted(r, s, f, p)
      BY <1>3, <2>4, <2>6, <2>7 DEF Adjusted
    <2>9. ASSUME Regular(tor), \A c \in Chunks : Fits(r, c) PROVE AdjustedRight(r, s, f)
      <3>1. AdjustedRight(r, q, f) /\ AdjustedRight(q, s, f)
        BY <2>2, <2>4, <2>9 DEF AdjustedRight
      <3>2. \A c : \A g \in FilesOf(c) \ {f} : q.file[g] = r.file[g]
        BY <2>6 DEF Memory, FilesOf
      <3>3. Lost(r, s, f)
        <4> SUFFICES ASSUME NEW c \in r.have \ s.have, c \notin r.current,
                            NEW g \in FilesOf(c) \ {f}
                     PROVE  r.file[g] = EXCLUDED
          BY DEF Lost
        <4>1. CASE c \notin q.have
          BY <3>1, <4>1 DEF AdjustedRight, Lost
        <4>2. CASE c \in q.have
          BY <2>6, <3>1, <3>2, <4>2 DEF AdjustedRight, Lost
        <4> QED BY <4>1, <4>2
      <3> QED BY <3>1, <3>3 DEF AdjustedRight
    <2> QED BY <2>1, <2>8, <2>9
  <1> QED BY <1>1, <1>2, <1>3

-----------------------------------------------------------------------------
(* What holds of the record between the calls                               *)

\* Of a file that is not downloaded only the ends are on disk
Bare(r) ==
    \A f \in Files : r.file[f] = EXCLUDED =>
       \A fc \in r.data : fc[1] = f => fc[2] \in {tor[f].first, tor[f].last}

\* From r to s: what several changes of priorities may do
Shrunk(r, s) ==
    /\ s \in Memory /\ s.loading = r.loading /\ s.running = r.running
    /\ s.current \subseteq r.current /\ s.have \subseteq r.have
    /\ s.onDisk \subseteq r.onDisk /\ s.have \ s.onDisk \subseteq r.have \ r.onDisk
    /\ s.gone \subseteq r.gone
    /\ s.current \cap s.excluded \subseteq r.excluded
    /\ s.data \subseteq r.data /\ \A fc \in r.data \ s.data : fc[2] \notin s.have
    /\ Bare(r) => Bare(s)
    /\ Regular(tor) /\ (\A c \in Chunks : Fits(r, c)) => \A c \in Chunks : Fits(s, c)

LEMMA ShrunkSame == ASSUME NEW r \in Memory PROVE Shrunk(r, r)
  BY DEF Shrunk

LEMMA ShrunkTwice ==
  ASSUME NEW r, NEW s, NEW t, Shrunk(r, s), Shrunk(s, t)
  PROVE  Shrunk(r, t)
  <1>1. \A fc \in r.data \ t.data : fc[2] \notin t.have
    BY DEF Shrunk
  <1> QED BY <1>1 DEF Shrunk

LEMMA AdjustedShrunk ==
  ASSUME tor \in Torrents, NEW r \in Memory, NEW s, NEW f \in Files, NEW p \in Priorities,
         Adjusted(r, s, f, p),
         Regular(tor) /\ (\A c \in Chunks : Fits(r, c)) => AdjustedRight(r, s, f)
  PROVE  Shrunk(r, s)
  <1>1. s.data \subseteq r.data
    BY DEF Adjusted
  <1>2. ASSUME NEW fc \in r.data \ s.data PROVE fc[2] \notin s.have
    <2>1. p = EXCLUDED /\ fc[1] = f /\ fc[2] \notin {tor[f].first, tor[f].last}
      BY <1>2 DEF Adjusted
    <2>2. fc[2] \in Span(f)
      BY <2>1 DEF Memory, Fragments
    <2> QED BY <2>1, <2>2 DEF Adjusted, Inside
  <1>3. ASSUME Bare(r) PROVE Bare(s)
    <2> SUFFICES ASSUME NEW g \in Files, s.file[g] = EXCLUDED, NEW fc \in s.data, fc[1] = g
                 PROVE  fc[2] \in {tor[g].first, tor[g].last}
      BY DEF Bare
    <2>1. CASE g = f
      <3>1. s.file[f] = p
        BY DEF Adjusted, Memory
      <3> QED BY <2>1, <3>1 DEF Adjusted
    <2>2. CASE g # f
      <3>1. r.file[g] = EXCLUDED
        BY <2>2 DEF Adjusted, Memory
      <3> QED BY <1>1, <1>3, <3>1 DEF Bare
    <2> QED BY <2>1, <2>2
  <1> QED BY <1>1, <1>2, <1>3 DEF Shrunk, Adjusted, AdjustedRight

LEMMA SetPriorityShrinks ==
  ASSUME tor \in Torrents, NEW r \in Memory, NEW f \in Files, NEW p \in Priorities
  PROVE  Shrunk(r, SetPriority(r, f, p))
  BY SetPriorityIs, AdjustedShrunk, ShrunkSame

LEMMA SetDoNotDownloadShrinks ==
  ASSUME tor \in Torrents, NEW r \in Memory, NEW f \in Files
  PROVE  Shrunk(r, SetDoNotDownload(r, f, TRUE))
  <1>1. EXCLUDED \in Priorities
    BY DEF Priorities
  <1> DEFINE s == SetDoNotDownload(r, f, TRUE)
  <1>2. /\ s = r \/ Adjusted(r, s, f, EXCLUDED)
        /\ Regular(tor) /\ (\A c \in Chunks : Fits(r, c)) => AdjustedRight(r, s, f)
    BY SetDoNotDownloadIs
  <1> HIDE DEF s
  <1>3. Shrunk(r, s)
    BY <1>1, <1>2, AdjustedShrunk, ShrunkSame
  <1> QED BY <1>3 DEF s

LEMMA ResetAllShrinks ==
  ASSUME tor \in Torrents, NEW r \in Memory, NEW C \in SUBSET Chunks
  PROVE  Shrunk(r, ResetAll(r, C))
  <1> DEFINE s == ResetAll(r, C)
  <1>1. Changes(r, s, {}, C)
    BY ResetAllChanges
  <1> HIDE DEF s
  <1>2. Bare(r) => Bare(s)
    BY <1>1 DEF Changes, Tame, Bare
  <1>3. Shrunk(r, s)
    BY <1>1, <1>2 DEF Changes, Tame, Shrunk
  <1> QED BY <1>3 DEF s

LEMMA FilesInTurn ==
  ASSUME tor \in Torrents
  PROVE  [f \in Files |-> f] \in Seq(Files)
  <1>1. Files = 1 .. Len(tor) /\ Len(tor) \in Nat
    BY TorrentType
  <1> QED BY <1>1

LEMMA RecreateShrinks ==
  ASSUME tor \in Torrents, NEW r \in Memory
  PROVE  Shrunk(r, RecreateMissing(r))
  <1> DEFINE C == UNION {Span(f) : f \in r.gone}
             q == ResetAll(r, C)
             s == [q EXCEPT !.gone = {}]
  <1>1. C \in SUBSET Chunks
    BY SpanIn DEF Memory
  <1>2. Shrunk(r, q)
    BY <1>1, ResetAllShrinks
  <1>3. q \in Memory
    BY <1>2 DEF Shrunk
  <1> HIDE DEF q
  <1>4. /\ s \in Memory /\ s.gone = {} /\ s.data = q.data /\ s.file = q.file
        /\ s.prio = q.prio /\ s.onlySeed = q.onlySeed /\ s.todo = q.todo
        /\ s.excluded = q.excluded /\ s.have = q.have /\ s.loading = q.loading
        /\ s.current = q.current /\ s.running = q.running /\ s.onDisk = q.onDisk
    BY <1>3 DEF Memory
  <1> HIDE DEF s
  <1>5. \A c : Top(s, c) = Top(q, c)
    BY <1>4 DEF Top
  <1>6. \A c \in Chunks : Fits(q, c) => Fits(s, c)
    BY <1>4, <1>5 DEF Fits, Marked
  <1>7. Shrunk(q, s)
    BY <1>4, <1>6 DEF Shrunk, Bare
  <1>8. Shrunk(r, s)
    BY <1>2, <1>7, ShrunkTwice
  <1> QED BY <1>8 DEF RecreateMissing, s, q

LEMMA DndShrinks ==
  ASSUME tor \in Torrents, NEW r \in Memory
  PROVE  Shrunk(r, DndMissing(r))
  <1> DEFINE A == {s \in Memory : Shrunk(r, s)}
             seq == [f \in Files |-> f]
             gone == r.gone
  <1>1. DndMissing(r) = FDnd!SeqFold(gone, 0, r, seq)
    BY DEF DndMissing, FDnd!SeqFold, FoldLeft, MapThenFoldSet, Max, OpDnd
  <1>2. r \in A
    BY ShrunkSame
  <1>3. ASSUME NEW f \in Files, NEW s \in A PROVE OpDnd(gone, 0, f, s) \in A
    <2>1. CASE f \notin gone
      BY <2>1 DEF OpDnd
    <2>2. CASE f \in gone
      <3> DEFINE q == ResetAll(s, Span(f))
                 u == SetDoNotDownload(q, f, TRUE)
      <3>1. Span(f) \in SUBSET Chunks
        BY SpanIn
      <3>2. Shrunk(s, q)
        BY <3>1, ResetAllShrinks
      <3>3. q \in Memory
        BY <3>2 DEF Shrunk
      <3> HIDE DEF q
      <3>4. Shrunk(q, u)
        BY <3>3, SetDoNotDownloadShrinks
      <3> HIDE DEF u
      <3>5. Shrunk(r, u)
        BY <3>2, <3>4, ShrunkTwice
      <3>6. u \in Memory
        BY <3>5 DEF Shrunk
      <3>7. OpDnd(gone, 0, f, s) = u
        BY <2>2 DEF OpDnd, u, q
      <3> QED BY <3>5, <3>6, <3>7
    <2> QED BY <2>1, <2>2
  <1>4. seq \in Seq(Files)
    BY FilesInTurn
  <1> HIDE DEF A, seq, gone
  <1>5. FDnd!SeqFold(gone, 0, r, seq) \in A
    BY <1>2, <1>3, <1>4, FDnd!SeqFoldIn
  <1> QED BY <1>1, <1>5 DEF A

\* What was loaded before the index
Begun(s, data) ==
    /\ s \in Memory /\ s.loading /\ ~s.running
    /\ s.have = {} /\ s.onDisk = {} /\ s.current = {}
    /\ s.data \subseteq data /\ Bare(s)
    /\ Regular(tor) => \A c \in Chunks : Fits(s, c)

LEMMA NewManagerIs ==
  ASSUME tor \in Torrents, NEW data \in SUBSET Fragments(Chunks), NEW gone \in SUBSET Files
  PROVE  Begun(NewManager(data, gone), data) /\ NewManager(data, gone).data = data
  <1> DEFINE r == [file |-> [f \in Files |-> NORMAL], prio |-> [c \in Chunks |-> NORMAL],
                   onDisk |-> {}, have |-> {}, excluded |-> {}, onlySeed |-> {},
                   todo |-> Chunks, loading |-> TRUE,
                   selector |-> {}, current |-> {}, data |-> data, gone |-> gone,
                   running |-> FALSE]
             A == {s \in Memory : /\ Begun(s, data) /\ s.data = data
                                  /\ s.file = [f \in Files |-> NORMAL]}
  <1>1. NewManager(data, gone) = FPreview!SetFold(0, 0, r, Files)
    BY DEF NewManager, FoldSet, MapThenFoldSet, FPreview!SetFold, OpPreview
  <1>2. FPreview!IsFiniteSet(Files)
    <2>1. IsFiniteSet(Files)
      BY TorrentType, FS_Interval
    <2> QED BY <2>1 DEF IsFiniteSet, FPreview!IsFiniteSet
  <1>3. NORMAL \in Priorities
    BY DEF Priorities
  <1>4. r \in Memory
    BY <1>3 DEF Memory
  <1>5. NORMAL # EXCLUDED /\ NORMAL # ONLY_SEED /\ NORMAL \notin Unwanted
    BY DEF NORMAL, EXCLUDED, ONLY_SEED, Unwanted
  <1>6. r \in A
    <2>1. Bare(r)
      BY <1>5 DEF Bare
    <2>2. ASSUME NEW c \in Chunks PROVE Fits(r, c)
      <3>1. Top(r, c) = NORMAL
        <4>1. PICK f \in FilesOf(c) : Top(r, c) = r.file[f]
          BY <1>4, TopIs
        <4> QED BY <4>1 DEF FilesOf
      <3> QED BY <1>5, <3>1 DEF Fits, Marked
    <2> QED BY <1>4, <2>1, <2>2 DEF Begun
  <1>7. ASSUME NEW f \in Files, NEW s \in A PROVE OpPreview(0, 0, f, s) \in A
    <2> DEFINE u == DoPreviewPriority(s, f)
    <2>1. s \in Memory /\ Begun(s, data) /\ s.data = data /\ s.file = [g \in Files |-> NORMAL]
      OBVIOUS
    <2>2. /\ Tame(s, u) /\ u.have = s.have /\ u.current = s.current
          /\ Regular(tor) => Changes(s, u, {}, {})
      BY <2>1, PreviewChanges
    <2> HIDE DEF u
    <2>3. Bare(u)
      BY <1>5, <2>1, <2>2 DEF Bare, Tame
    <2>4. Begun(u, data)
      BY <2>1, <2>2, <2>3 DEF Begun, Tame, Changes
    <2>5. u \in A
      BY <2>1, <2>2, <2>4 DEF Tame
    <2> QED BY <2>5 DEF OpPreview, u
  <1> HIDE DEF A, r
  <1>8. FPreview!SetFold(0, 0, r, Files) \in A
    BY <1>2, <1>6, <1>7, FPreview!SetFoldIn
  <1> QED BY <1>1, <1>8 DEF A

\* The data fits the priorities: nothing is thrown away when they are read
Suits(prios, data) ==
    \A f \in Files : prios[f] = EXCLUDED =>
       \A fc \in data : fc[1] = f => fc[2] \in {tor[f].first, tor[f].last}

LEMMA LoadPriorityIs ==
  ASSUME tor \in Torrents, NEW data \in SUBSET Fragments(Chunks), NEW r,
         Begun(r, data), r.data = data, NEW prios \in [Files -> Priorities]
  PROVE  LET s == LoadPriorityInfo(r, prios)
         IN  Begun(s, data) /\ (Suits(prios, data) => s.data = data)
  <1> DEFINE A == {s \in Memory : Begun(s, data) /\ (Suits(prios, data) => s.data = data)}
             seq == [f \in Files |-> f]
  <1>1. LoadPriorityInfo(r, prios) = FPriority!SeqFold(prios, 0, r, seq)
    BY DEF LoadPriorityInfo, FPriority!SeqFold, FoldLeft, MapThenFoldSet, Max, OpPriority
  <1>2. r \in A
    BY DEF Begun
  <1>3. ASSUME NEW f \in Files, NEW s \in A PROVE OpPriority(prios, 0, f, s) \in A
    <2> DEFINE u == SetPriority(s, f, prios[f])
    <2>1. s \in Memory /\ Begun(s, data) /\ (Suits(prios, data) => s.data = data)
      OBVIOUS
    <2>2. prios[f] \in Priorities
      OBVIOUS
    <2>3. Shrunk(s, u)
      BY <2>1, <2>2, SetPriorityShrinks
    <2>4. (s = u /\ s.file[f] = prios[f]) \/ Adjusted(s, u, f, prios[f])
      BY <2>1, <2>2, SetPriorityIs
    <2> HIDE DEF u
    <2>5. Begun(u, data)
      BY <2>1, <2>3 DEF Begun, Shrunk
    <2>6. ASSUME Suits(prios, data) PROVE u.data = data
      <3>1. CASE s = u
        BY <2>1, <2>6, <3>1
      <3>2. CASE Adjusted(s, u, f, prios[f]) /\ prios[f] # EXCLUDED
        BY <2>1, <2>6, <3>2 DEF Adjusted
      <3>3. CASE Adjusted(s, u, f, prios[f]) /\ prios[f] = EXCLUDED
        <4>1. u.data = {fc \in data : fc[1] = f => fc[2] \in {tor[f].first, tor[f].last}}
          BY <2>1, <2>6, <3>3 DEF Adjusted
        <4>2. \A fc \in data : fc[1] = f => fc[2] \in {tor[f].first, tor[f].last}
          BY <2>6, <3>3 DEF Suits
        <4> QED BY <4>1, <4>2
      <3> QED BY <2>4, <3>1, <3>2, <3>3
    <2>7. u \in A
      BY <2>5, <2>6 DEF Begun
    <2> QED BY <2>7 DEF OpPriority, u
  <1>4. seq \in Seq(Files)
    BY FilesInTurn
  <1> HIDE DEF A, seq
  <1>5. FPriority!SeqFold(prios, 0, r, seq) \in A
    BY <1>2, <1>3, <1>4, FPriority!SeqFoldIn
  <1> QED BY <1>1, <1>5 DEF A

LEMMA LoadIs ==
  ASSUME tor \in Torrents, NEW data \in SUBSET Fragments(Chunks), NEW gone \in SUBSET Files,
         NEW prios \in [Files -> Priorities], NEW idx \in SUBSET Chunks
  PROVE  LET s == Load(prios, idx, data, gone)
         IN  /\ s \in Memory /\ ~s.loading /\ ~s.running
             /\ s.have = idx /\ s.onDisk = idx /\ s.current = {}
             /\ s.data \subseteq data /\ (Suits(prios, data) => s.data = data)
             /\ Bare(s)
             /\ Regular(tor) => \A c \in Chunks : Fits(s, c)
  <1> DEFINE n == NewManager(data, gone)
             q == LoadPriorityInfo(n, prios)
             d == q.todo \ idx
             e == Chunks \ idx
             s == [q EXCEPT !.onDisk = idx, !.have = idx, !.todo = d, !.loading = FALSE,
                            !.selector = e, !.current = {}]
  <1>1. Load(prios, idx, data, gone) = s
    BY DEF Load
  <1>2. Begun(n, data) /\ n.data = data
    BY NewManagerIs
  <1> HIDE DEF n
  <1>3. Begun(q, data) /\ (Suits(prios, data) => q.data = data)
    BY <1>2, LoadPriorityIs
  <1>4. q \in Memory
    BY <1>3 DEF Begun
  <1> HIDE DEF q
  <1>5. d \in SUBSET Chunks /\ e \in SUBSET Chunks
    BY <1>4 DEF Memory
  <1> HIDE DEF e
  <1>6. /\ s \in Memory /\ s.gone = q.gone /\ s.data = q.data /\ s.file = q.file
        /\ s.prio = q.prio /\ s.onlySeed = q.onlySeed /\ s.todo = d
        /\ s.excluded = q.excluded /\ s.have = idx /\ s.loading = FALSE
        /\ s.current = {} /\ s.running = q.running /\ s.onDisk = idx
    <2> HIDE DEF d
    <2> QED BY <1>4, <1>5 DEF Memory
  <1> HIDE DEF s
  <1>7. \A c : Top(s, c) = Top(q, c)
    BY <1>6 DEF Top
  <1>8. ASSUME Regular(tor), NEW c \in Chunks PROVE Fits(s, c)
    <2>1. Fits(q, c) /\ c \notin q.have
      BY <1>3, <1>8 DEF Begun
    <2> QED BY <1>6, <1>7, <2>1 DEF Fits, Marked
  <1>9. Bare(s)
    BY <1>3, <1>6 DEF Begun, Bare
  <1> QED BY <1>1, <1>3, <1>6, <1>8, <1>9 DEF Begun

-----------------------------------------------------------------------------
(* The steps                                                                *)

\* What every torrent keeps: the index lists what is marked as on disk, or a save
\* has failed to
SoundAt(r, idx, sv, db, un) ==
    /\ r \in Memory /\ ~r.loading
    /\ idx \in SUBSET Chunks /\ sv \in SUBSET Chunks /\ db \in SUBSET Chunks
    /\ un \in SUBSET Chunks
    /\ r.onDisk \subseteq idx \cup un

\* What the regular torrents keep
RealAt(r, db) == \A c \in r.have \ db : Fragments({c}) \subseteq r.data
DeepAt(r, idx, sv, db) ==
    /\ \A c \in Chunks : Fits(r, c)
    /\ Bare(r) /\ RealAt(r, db)
    /\ r.current \cap r.excluded = {} /\ r.current \cap r.have = {}
    /\ idx \ r.have \subseteq db
    /\ ~r.running => sv \cap (r.have \ r.onDisk) = {}

Step(r, idx, sv, db, un) ==
    /\ SoundAt(r, idx, sv, db, un) /\ tor' = tor
    /\ Regular(tor) /\ DeepAt(m, index, saved, doubt) => DeepAt(r, idx, sv, db)

LEMMA FitsKept ==
  ASSUME NEW r, NEW s, s.file = r.file, s.prio = r.prio, s.excluded = r.excluded,
         s.onlySeed = r.onlySeed, NEW c, Fits(r, c),
         c \in s.todo <=> Top(r, c) \notin Unwanted /\ c \notin s.have
  PROVE  Fits(s, c)
  <1>1. Top(s, c) = Top(r, c)
    BY DEF Top
  <1> QED BY <1>1 DEF Fits, Marked

LEMMA FragmentsIs ==
  ASSUME NEW C \in SUBSET Chunks
  PROVE  /\ Fragments(C) \in SUBSET Fragments(Chunks)
         /\ \A fc \in Fragments(C) : fc[1] \in Files /\ fc[2] \in C /\ fc[2] \in Span(fc[1])
  BY DEF Fragments

\* A call that takes chunks away, and an index that may be written anew
LEMMA ShrunkStep ==
  ASSUME tor \in Torrents, SoundAt(m, index, saved, doubt, unlisted), NEW s, Shrunk(m, s),
         NEW idx \in SUBSET Chunks, NEW un \in SUBSET Chunks, s.onDisk \subseteq idx \cup un,
         NEW db \in SUBSET Chunks, doubt \subseteq db, idx \ s.have \subseteq db, tor' = tor
  PROVE  Step(s, idx, saved, db, un)
  <1>1. SoundAt(s, idx, saved, db, un)
    BY DEF SoundAt, Shrunk
  <1>2. ASSUME Regular(tor), DeepAt(m, index, saved, doubt) PROVE DeepAt(s, idx, saved, db)
    <2>1. (\A c \in Chunks : Fits(s, c)) /\ Bare(s)
      BY <1>2 DEF Shrunk, DeepAt
    <2>2. RealAt(s, db)
      <3> SUFFICES ASSUME NEW c \in s.have \ db, NEW fc \in Fragments({c})
                   PROVE  fc \in s.data
        BY DEF RealAt
      <3>1. c \in Chunks /\ c \in m.have \ doubt
        BY DEF Shrunk, Memory
      <3>2. {c} \in SUBSET Chunks
        BY <3>1
      <3>3. fc \in m.data /\ fc[2] = c
        BY <1>2, <3>1, <3>2, FragmentsIs DEF DeepAt, RealAt
      <3> QED BY <3>3 DEF Shrunk
    <2>3. s.current \cap s.excluded = {} /\ s.current \cap s.have = {}
      BY <1>2 DEF Shrunk, DeepAt
    <2>4. ~s.running => saved \cap (s.have \ s.onDisk) = {}
      BY <1>2 DEF Shrunk, DeepAt
    <2> QED BY <2>1, <2>2, <2>3, <2>4 DEF DeepAt
  <1> QED BY <1>1, <1>2 DEF Step

LEMMA SetFilePriorityStep ==
  ASSUME tor \in Torrents, SoundAt(m, index, saved, doubt, unlisted),
         NEW f \in Files, NEW p \in Offered, SetFilePriority(f, p)
  PROVE  Step(m', index', saved', doubt', unlisted')
  <1> DEFINE s == SetPriority(m, f, p)
             db == doubt \cup (index \ s.have)
  <1>1. m' = s /\ index' = index /\ saved' = saved /\ tor' = tor
        /\ doubt' = db /\ unlisted' = unlisted
    BY DEF SetFilePriority, Suspect
  <1>2. m \in Memory /\ p \in Priorities
    BY ChunkAssumption DEF SoundAt
  <1>3. Shrunk(m, s)
    BY <1>2, SetPriorityShrinks
  <1> HIDE DEF s
  <1>4. /\ index \in SUBSET Chunks /\ unlisted \in SUBSET Chunks /\ db \in SUBSET Chunks
        /\ s.onDisk \subseteq index \cup unlisted
    BY <1>3 DEF SoundAt, Shrunk
  <1>5. doubt \subseteq db /\ index \ s.have \subseteq db
    OBVIOUS
  <1> HIDE DEF db
  <1> QED BY <1>1, <1>3, <1>4, <1>5, ShrunkStep

LEMMA SelectStep ==
  ASSUME tor \in Torrents, SoundAt(m, index, saved, doubt, unlisted), NEW c \in Chunks, Select(c)
  PROVE  Step(m', index', saved', doubt', unlisted')
  <1>1. PICK had \in SUBSET (m.selector \cap m.have) :
           m' = [m EXCEPT !.selector = @ \ had, !.current = @ \cup {c}]
    BY DEF Select
  <1> DEFINE a == m.selector \ had
             b == m.current \cup {c}
             s == [m EXCEPT !.selector = a, !.current = b]
  <1>2. m' = s
    BY <1>1
  <1>3. a \in SUBSET Chunks /\ b \in SUBSET Chunks
    BY DEF SoundAt, Memory
  <1> HIDE DEF a
  <1>4. /\ s \in Memory /\ s.gone = m.gone /\ s.data = m.data /\ s.file = m.file
        /\ s.prio = m.prio /\ s.onlySeed = m.onlySeed /\ s.todo = m.todo
        /\ s.excluded = m.excluded /\ s.have = m.have /\ s.loading = m.loading
        /\ s.current = b /\ s.running = m.running /\ s.onDisk = m.onDisk
    <2> HIDE DEF b
    <2> QED BY <1>3 DEF SoundAt, Memory
  <1> HIDE DEF s
  <1>5. SoundAt(s, index, saved, doubt, unlisted)
    BY <1>4 DEF SoundAt
  <1>6. ASSUME Regular(tor), DeepAt(m, index, saved, doubt) PROVE DeepAt(s, index, saved, doubt)
    <2>1. \A d \in Chunks : Fits(s, d)
      BY <1>4, <1>6, FitsKept DEF DeepAt, Fits
    <2>2. c \notin m.have /\ m.prio[c] \notin {EXCLUDED, ONLY_SEED} /\ m.running
      BY DEF Select
    <2>3. c \notin m.excluded
      BY <1>6, <2>2 DEF DeepAt, Fits, Marked, Unwanted
    <2> QED BY <1>4, <1>6, <2>1, <2>2, <2>3 DEF DeepAt, Bare, RealAt
  <1> QED BY <1>2, <1>5, <1>6 DEF Step, Select, lapses

\* A chunk that is in one of the downloads has come: c is had
LEMMA Arrived ==
  ASSUME tor \in Torrents, SoundAt(m, index, saved, doubt, unlisted), NEW c \in m.current, m.running,
         NEW s \in Memory, NEW idx \in SUBSET Chunks,
         s.file = m.file, s.prio = m.prio, s.excluded = m.excluded, s.onlySeed = m.onlySeed,
         s.running = m.running, s.loading = m.loading,
         s.current = m.current \ {c}, s.data = m.data \cup Fragments({c}),
         s.have = m.have \cup {c}, s.todo = m.todo \ {c}, index \subseteq idx,
         idx \subseteq index \cup {c}, NEW un \in SUBSET Chunks,
         s.onDisk \subseteq idx \cup un, tor' = tor
  PROVE  Step(s, idx, saved, doubt \ {c}, un)
  <1>1. SoundAt(s, idx, saved, doubt \ {c}, un)
    BY DEF SoundAt
  <1>2. ASSUME Regular(tor), DeepAt(m, index, saved, doubt)
        PROVE  DeepAt(s, idx, saved, doubt \ {c})
    <2>0. c \in Chunks /\ c \notin m.excluded
      BY <1>2 DEF SoundAt, Memory, DeepAt
    <2>1. ASSUME NEW d \in Chunks PROVE Fits(s, d)
      <3>1. Fits(m, d)
        BY <1>2 DEF DeepAt
      <3>2. d \in s.todo <=> Top(m, d) \notin Unwanted /\ d \notin s.have
        BY <3>1 DEF Fits
      <3> QED BY <3>1, <3>2, FitsKept
    <2>2. Bare(s)
      <3> SUFFICES ASSUME NEW f \in Files, s.file[f] = EXCLUDED, NEW fc \in s.data, fc[1] = f
                   PROVE  fc[2] \in {tor[f].first, tor[f].last}
        BY DEF Bare
      <3>1. CASE fc \in m.data
        BY <1>2, <3>1 DEF Bare, DeepAt
      <3>2. CASE fc \in Fragments({c})
        <4>1. {c} \in SUBSET Chunks
          BY <2>0
        <4>2. fc[2] = c /\ c \in Span(f)
          BY <3>2, <4>1, FragmentsIs
        <4> SUFFICES ASSUME c \in Inside(f) PROVE FALSE
          BY <4>2 DEF Inside
        <4>3. FilesOf(c) = {f}
          BY InsideOnly
        <4>4. m \in Memory
          BY DEF SoundAt
        <4>5. PICK g \in FilesOf(c) : Top(m, c) = m.file[g]
          BY <2>0, <4>4, TopIs
        <4>6. Top(m, c) = EXCLUDED
          BY <4>3, <4>5
        <4> QED BY <1>2, <2>0, <4>6 DEF DeepAt, Fits, Marked
      <3> QED BY <3>1, <3>2
    <2>3. RealAt(s, doubt \ {c})
      BY <1>2 DEF DeepAt, RealAt
    <2> QED BY <1>2, <2>1, <2>2, <2>3 DEF DeepAt
  <1> QED BY <1>1, <1>2 DEF Step

LEMMA FinishedStep ==
  ASSUME tor \in Torrents, SoundAt(m, index, saved, doubt, unlisted), NEW c \in Chunks,
         Finished(c) \/ FinishedIndexFails(c)
  PROVE  Step(m', index', saved', doubt', unlisted')
  <1> DEFINE a == m.current \ {c}
             b == m.data \cup Fragments({c})
             d == m.have \cup {c}
             e == m.todo \ {c}
             g == m.onDisk \cup {c}
             r == [m EXCEPT !.current = a, !.data = b]
             s == [r EXCEPT !.have = r.have \cup {c}, !.todo = r.todo \ {c}]
             t == [s EXCEPT !.onDisk = s.onDisk \cup {c}]
  <1>0. m.running /\ c \in m.current /\ m \in Memory /\ tor' = tor /\ saved' = saved
    BY DEF Finished, FinishedIndexFails, SoundAt
  <1>1. /\ a \in SUBSET Chunks /\ d \in SUBSET Chunks /\ e \in SUBSET Chunks
        /\ g \in SUBSET Chunks /\ b \in SUBSET Fragments(Chunks)
    <2>1. Fragments({c}) \in SUBSET Fragments(Chunks)
      BY FragmentsIs
    <2> QED BY <1>0, <2>1 DEF Memory
  <1>2. /\ r \in Memory /\ r.file = m.file /\ r.prio = m.prio /\ r.onlySeed = m.onlySeed
        /\ r.todo = m.todo /\ r.excluded = m.excluded /\ r.have = m.have
        /\ r.loading = m.loading /\ r.current = a /\ r.running = m.running
        /\ r.onDisk = m.onDisk /\ r.data = b
    <2> HIDE DEF a, b
    <2> QED BY <1>0, <1>1 DEF Memory
  <1> HIDE DEF r
  <1>3. /\ s \in Memory /\ s.file = m.file /\ s.prio = m.prio /\ s.onlySeed = m.onlySeed
        /\ s.todo = e /\ s.excluded = m.excluded /\ s.have = d
        /\ s.loading = m.loading /\ s.current = a /\ s.running = m.running
        /\ s.onDisk = m.onDisk /\ s.data = b
    <2>1. r.have \cup {c} = d /\ r.todo \ {c} = e
      BY <1>2
    <2> HIDE DEF a, b, d, e
    <2> QED BY <1>1, <1>2, <2>1 DEF Memory
  <1> HIDE DEF s
  <1>4. /\ t \in Memory /\ t.file = m.file /\ t.prio = m.prio /\ t.onlySeed = m.onlySeed
        /\ t.todo = e /\ t.excluded = m.excluded /\ t.have = d
        /\ t.loading = m.loading /\ t.current = a /\ t.running = m.running
        /\ t.onDisk = g /\ t.data = b
    <2>1. s.onDisk \cup {c} = g
      BY <1>3
    <2> HIDE DEF a, b, d, e, g
    <2> QED BY <1>1, <1>3, <2>1 DEF Memory
  <1> HIDE DEF t
  <1>5. CASE Finished(c) /\ m.prio[c] = EXCLUDED
    <2>1. m' = r /\ index' = index /\ doubt' = doubt /\ unlisted' = unlisted
      BY <1>5 DEF Finished, r
    <2>2. SoundAt(r, index, saved, doubt, unlisted)
      BY <1>2 DEF SoundAt
    <2>3. ~DeepAt(m, index, saved, doubt)
      <3>1. PREVIEW # EXCLUDED
        BY DEF PREVIEW, EXCLUDED
      <3> QED BY <1>0, <1>5, <3>1 DEF DeepAt, Fits, Marked, Memory
    <2> QED BY <1>0, <2>1, <2>2, <2>3 DEF Step
  <1>6. CASE Finished(c) /\ m.prio[c] # EXCLUDED
    <2>1. /\ m' = t /\ index' = index \cup {c} /\ doubt' = doubt \ {c}
          /\ unlisted' = unlisted \ {c}
      BY <1>6 DEF Finished, TakeChunk, r, s, t
    <2>2. /\ index \cup {c} \in SUBSET Chunks /\ unlisted \ {c} \in SUBSET Chunks
          /\ t.onDisk \subseteq (index \cup {c}) \cup (unlisted \ {c})
      BY <1>4 DEF SoundAt
    <2>3. Step(t, index \cup {c}, saved, doubt \ {c}, unlisted \ {c})
      BY <1>0, <1>4, <2>2, Arrived
    <2> QED BY <1>0, <2>1, <2>3
  <1>7. CASE FinishedIndexFails(c)
    <2>1. m' = s /\ index' = index /\ doubt' = doubt \ {c} /\ unlisted' = unlisted
      BY <1>7 DEF FinishedIndexFails, TakeChunk, r, s, lapses
    <2>2. /\ index \in SUBSET Chunks /\ unlisted \in SUBSET Chunks
          /\ s.onDisk \subseteq index \cup unlisted
      BY <1>3 DEF SoundAt
    <2>3. Step(s, index, saved, doubt \ {c}, unlisted)
      BY <1>0, <1>3, <2>2, Arrived
    <2> QED BY <1>0, <2>1, <2>3
  <1> QED BY <1>5, <1>6, <1>7

LEMMA FinishedBadStep ==
  ASSUME tor \in Torrents, SoundAt(m, index, saved, doubt, unlisted), NEW c \in Chunks, FinishedBad(c)
  PROVE  Step(m', index', saved', doubt', unlisted')
  <1> DEFINE a == m.current \ {c}
             b == m.data \ Fragments({c})
             e == m.selector \cup {c}
             r == [m EXCEPT !.current = a, !.selector = e, !.data = b]
             s == ResetChunk(r, c)
  <1>0. m.running /\ c \in m.current /\ m \in Memory /\ ~m.loading /\ m' = s
        /\ tor' = tor /\ saved' = saved /\ index' = index /\ doubt' = doubt
        /\ unlisted' = unlisted
    BY DEF FinishedBad, SoundAt, lapses
  <1>1. a \in SUBSET Chunks /\ e \in SUBSET Chunks /\ b \in SUBSET Fragments(Chunks)
    BY <1>0 DEF Memory
  <1>2. /\ r \in Memory /\ r.file = m.file /\ r.prio = m.prio /\ r.onlySeed = m.onlySeed
        /\ r.todo = m.todo /\ r.excluded = m.excluded /\ r.have = m.have
        /\ r.loading = m.loading /\ r.current = a /\ r.running = m.running
        /\ r.onDisk = m.onDisk /\ r.data = b
    <2> HIDE DEF a, b, e
    <2> QED BY <1>0, <1>1 DEF Memory
  <1> HIDE DEF r
  <1>3. ResetTo(r, {c}, s)
    BY <1>0, <1>2, ResetChunkIs
  <1> HIDE DEF s
  <1>4. SoundAt(s, index, saved, doubt, unlisted)
    BY <1>0, <1>2, <1>3 DEF SoundAt, ResetTo
  <1>5. ASSUME Regular(tor), DeepAt(m, index, saved, doubt) PROVE DeepAt(s, index, saved, doubt)
    <2>0. c \notin m.have /\ c \notin m.excluded
      BY <1>0, <1>5 DEF DeepAt
    <2>1. ASSUME NEW d \in Chunks PROVE Fits(s, d)
      <3>1. Fits(m, d)
        BY <1>5 DEF DeepAt
      <3>2. s.file = m.file /\ s.prio = m.prio /\ s.excluded = m.excluded /\ s.onlySeed = m.onlySeed
        BY <1>2, <1>3 DEF ResetTo
      <3>3. d \in s.todo <=> Top(m, d) \notin Unwanted /\ d \notin s.have
        <4>1. CASE d = c
          <5>1. d \in s.todo <=> d \notin m.excluded \cup m.onlySeed
            BY <1>2, <1>3, <4>1 DEF ResetTo
          <5>2. d \notin s.have
            BY <1>3, <4>1 DEF ResetTo
          <5> QED BY <3>1, <5>1, <5>2 DEF Fits, Marked, Unwanted
        <4>2. CASE d # c
          <5>1. (d \in s.todo <=> d \in m.todo) /\ (d \in s.have <=> d \in m.have)
            BY <1>2, <1>3, <4>2 DEF ResetTo
          <5> QED BY <3>1, <5>1 DEF Fits
        <4> QED BY <4>1, <4>2
      <3> QED BY <3>1, <3>2, <3>3, FitsKept
    <2>2. Bare(s)
      BY <1>2, <1>3, <1>5 DEF ResetTo, Bare, DeepAt
    <2>3. RealAt(s, doubt)
      <3> SUFFICES ASSUME NEW d \in s.have \ doubt, NEW fc \in Fragments({d})
                   PROVE  fc \in s.data
        BY DEF RealAt
      <3>1. d \in m.have /\ d # c /\ d \in Chunks
        BY <1>0, <1>2, <1>3 DEF ResetTo, Memory
      <3>2. {c} \in SUBSET Chunks /\ {d} \in SUBSET Chunks
        BY <3>1
      <3>3. fc[2] = d
        BY <3>2, FragmentsIs
      <3>4. fc \notin Fragments({c})
        BY <3>1, <3>2, <3>3, FragmentsIs
      <3>5. fc \in m.data
        BY <1>5, <3>1 DEF DeepAt, RealAt
      <3> QED BY <1>2, <1>3, <3>4, <3>5 DEF ResetTo
    <2>4. s.current \cap s.excluded = {} /\ s.current \cap s.have = {} /\ index \ s.have \subseteq doubt
      BY <1>2, <1>3, <1>5, <2>0 DEF ResetTo, DeepAt
    <2>5. s.running
      BY <1>0, <1>2, <1>3 DEF ResetTo
    <2> QED BY <2>1, <2>2, <2>3, <2>4, <2>5 DEF DeepAt
  <1> QED BY <1>0, <1>4, <1>5 DEF Step

LEMMA StopStep ==
  ASSUME tor \in Torrents, SoundAt(m, index, saved, doubt, unlisted), Stop
  PROVE  Step(m', index', saved', doubt', unlisted')
  <1> DEFINE s == [m EXCEPT !.current = {}, !.running = FALSE]
  <1>0. m.running /\ m \in Memory /\ ~m.loading /\ m' = s
        /\ tor' = tor /\ saved' = m.current /\ index' = index /\ doubt' = doubt
        /\ unlisted' = unlisted
    BY DEF Stop, SoundAt, lapses
  <1>1. /\ s \in Memory /\ s.gone = m.gone /\ s.data = m.data /\ s.file = m.file
        /\ s.prio = m.prio /\ s.onlySeed = m.onlySeed /\ s.todo = m.todo
        /\ s.excluded = m.excluded /\ s.have = m.have /\ s.loading = m.loading
        /\ s.current = {} /\ s.running = FALSE /\ s.onDisk = m.onDisk
    BY <1>0 DEF Memory
  <1> HIDE DEF s
  <1>2. m.current \in SUBSET Chunks
    BY <1>0 DEF Memory
  <1>3. SoundAt(s, index, m.current, doubt, unlisted)
    BY <1>1, <1>2 DEF SoundAt
  <1>4. ASSUME Regular(tor), DeepAt(m, index, saved, doubt)
        PROVE  DeepAt(s, index, m.current, doubt)
    <2>1. \A d \in Chunks : Fits(s, d)
      BY <1>1, <1>4, FitsKept DEF DeepAt, Fits
    <2> QED BY <1>1, <1>4, <2>1 DEF DeepAt, Bare, RealAt
  <1> QED BY <1>0, <1>3, <1>4 DEF Step

\* A torrent that is started takes up the saved downloads
LEMMA LoadDownloadsIs ==
  ASSUME NEW r \in Memory, saved \in SUBSET Chunks
  PROVE  LET s == LoadDownloads(r)
         IN  /\ s \in Memory /\ s.data = r.data /\ s.file = r.file
             /\ s.prio = r.prio /\ s.onlySeed = r.onlySeed /\ s.todo = r.todo
             /\ s.excluded = r.excluded /\ s.have = r.have /\ s.loading = r.loading
             /\ s.running = TRUE /\ s.onDisk = r.onDisk
             /\ \A c \in s.current : c \in saved \ r.onDisk /\ r.prio[c] # EXCLUDED
  <1> DEFINE a == IF Completed(r) THEN {} ELSE {c \in saved \ r.onDisk : r.prio[c] # EXCLUDED}
             s == [r EXCEPT !.running = TRUE, !.current = a]
  <1>1. a \in SUBSET Chunks /\ \A c \in a : c \in saved \ r.onDisk /\ r.prio[c] # EXCLUDED
    OBVIOUS
  <1>2. LoadDownloads(r) = s
    BY DEF LoadDownloads
  <1> HIDE DEF a
  <1>3. /\ s \in Memory /\ s.data = r.data /\ s.file = r.file
        /\ s.prio = r.prio /\ s.onlySeed = r.onlySeed /\ s.todo = r.todo
        /\ s.excluded = r.excluded /\ s.have = r.have /\ s.loading = r.loading
        /\ s.running = TRUE /\ s.onDisk = r.onDisk /\ s.current = a
    BY <1>1 DEF Memory
  <1> HIDE DEF s
  <1> QED BY <1>1, <1>2, <1>3

LEMMA CheckedIs ==
  ASSUME NEW r \in Memory, NEW ok \in SUBSET Chunks
  PROVE  LET s == DownloaderChecked(r, ok)
         IN  /\ s \in Memory /\ s.data = r.data /\ s.file = r.file /\ s.gone = r.gone
             /\ s.prio = r.prio /\ s.onlySeed = r.onlySeed /\ s.todo = r.todo
             /\ s.excluded = r.excluded /\ s.have = r.have /\ s.loading = r.loading
             /\ s.running = r.running /\ s.onDisk = r.onDisk
             /\ s.current = r.current \ ok
  <1> DEFINE a == r.current \ ok
             b == (r.selector \ ok) \cup (Chunks \ ok)
             s == [r EXCEPT !.current = a, !.selector = b]
  <1>1. a \in SUBSET Chunks /\ b \in SUBSET Chunks
    BY DEF Memory
  <1>2. DownloaderChecked(r, ok) = s
    BY DEF DownloaderChecked
  <1> HIDE DEF a, b
  <1>3. /\ s \in Memory /\ s.data = r.data /\ s.file = r.file /\ s.gone = r.gone
        /\ s.prio = r.prio /\ s.onlySeed = r.onlySeed /\ s.todo = r.todo
        /\ s.excluded = r.excluded /\ s.have = r.have /\ s.loading = r.loading
        /\ s.running = r.running /\ s.onDisk = r.onDisk /\ s.current = a
    BY <1>1 DEF Memory
  <1> HIDE DEF s
  <1> QED BY <1>2, <1>3 DEF a

\* Started with r, which has at most what m had
LEMMA Started ==
  ASSUME tor \in Torrents, SoundAt(m, index, saved, doubt, unlisted), ~m.running,
         NEW r, Shrunk(m, r), NEW s \in Memory,
         s.data = r.data, s.file = r.file, s.prio = r.prio, s.onlySeed = r.onlySeed,
         s.todo = r.todo, s.excluded = r.excluded, s.have = r.have, s.loading = r.loading,
         s.running = TRUE, s.onDisk = r.onDisk,
         \A c \in s.current : c \in saved \ r.onDisk /\ r.prio[c] # EXCLUDED,
         NEW idx \in SUBSET Chunks, NEW un \in SUBSET Chunks, r.onDisk \subseteq idx \cup un,
         NEW db \in SUBSET Chunks, doubt \cap r.have \subseteq db, idx \ r.have \subseteq db,
         tor' = tor
  PROVE  Step(s, idx, saved, db, un)
  <1>1. SoundAt(s, idx, saved, db, un)
    BY DEF SoundAt, Shrunk
  <1>2. ASSUME Regular(tor), DeepAt(m, index, saved, doubt) PROVE DeepAt(s, idx, saved, db)
    <2>1. (\A c \in Chunks : Fits(r, c)) /\ Bare(r)
      BY <1>2 DEF Shrunk, DeepAt
    <2>2. \A c \in Chunks : Fits(s, c)
      BY <2>1, FitsKept DEF Fits
    <2>3. Bare(s)
      BY <2>1 DEF Bare
    <2>4. RealAt(s, db)
      <3> SUFFICES ASSUME NEW c \in s.have \ db, NEW fc \in Fragments({c})
                   PROVE  fc \in s.data
        BY DEF RealAt
      <3>1. c \in Chunks /\ c \in m.have /\ c \notin doubt
        BY DEF Shrunk, Memory
      <3>2. {c} \in SUBSET Chunks
        BY <3>1
      <3>3. fc \in m.data /\ fc[2] = c
        BY <1>2, <3>1, <3>2, FragmentsIs DEF DeepAt, RealAt
      <3> QED BY <3>3 DEF Shrunk
    <2>5. s.current \cap s.excluded = {}
      <3> SUFFICES ASSUME NEW c \in s.current, c \in s.excluded PROVE FALSE
        OBVIOUS
      <3>1. c \in Chunks
        BY DEF SoundAt
      <3>2. PREVIEW # EXCLUDED
        BY DEF PREVIEW, EXCLUDED
      <3> QED BY <2>1, <3>1, <3>2 DEF Fits, Marked, Unwanted
    <2>6. s.current \cap s.have = {}
      BY <1>2 DEF DeepAt, Shrunk
    <2> QED BY <2>2, <2>3, <2>4, <2>5, <2>6 DEF DeepAt
  <1> QED BY <1>1, <1>2 DEF Step

LEMMA StartStep ==
  ASSUME tor \in Torrents, SoundAt(m, index, saved, doubt, unlisted), Start
  PROVE  Step(m', index', saved', doubt', unlisted')
  <1>0. ~m.running /\ m \in Memory /\ tor' = tor /\ saved' = saved /\ saved \in SUBSET Chunks
        /\ index \in SUBSET Chunks /\ doubt \in SUBSET Chunks /\ unlisted \in SUBSET Chunks
        /\ m.onDisk \subseteq index \cup unlisted
    BY DEF Start, SoundAt
  <1>1. CASE m.gone = {}
    <2> DEFINE s == LoadDownloads(m)
    <2>1. m' = s /\ index' = index /\ doubt' = doubt /\ unlisted' = unlisted
      BY <1>1 DEF Start, lapses
    <2>2. Shrunk(m, m)
      BY <1>0, ShrunkSame
    <2>3. /\ s \in Memory /\ s.data = m.data /\ s.file = m.file
          /\ s.prio = m.prio /\ s.onlySeed = m.onlySeed /\ s.todo = m.todo
          /\ s.excluded = m.excluded /\ s.have = m.have /\ s.loading = m.loading
          /\ s.running = TRUE /\ s.onDisk = m.onDisk
          /\ \A c \in s.current : c \in saved \ m.onDisk /\ m.prio[c] # EXCLUDED
      BY <1>0, LoadDownloadsIs
    <2> HIDE DEF s
    <2>4. CASE index \ m.have \subseteq doubt
      BY <1>0, <2>1, <2>2, <2>3, <2>4, Started
    <2>5. CASE ~(index \ m.have \subseteq doubt)
      BY <1>0, <2>1, <2>3, <2>5 DEF Step, DeepAt, SoundAt
    <2> QED BY <2>4, <2>5
  <1>2. CASE m.gone # {}
    <2>1. PICK r \in {RecreateMissing(m), DndMissing(m)} :
              /\ m' = LoadDownloads(DownloaderChecked(r, r.have))
              /\ index' = r.onDisk
              /\ doubt' = (doubt \cap r.have) \cup Suspect(index', r)
              /\ unlisted' = {}
      BY <1>2 DEF Start
    <2>2. Shrunk(m, r)
      BY <1>0, <2>1, RecreateShrinks, DndShrinks
    <2>3. r \in Memory /\ r.have \in SUBSET Chunks /\ r.onDisk \in SUBSET Chunks
      BY <2>2 DEF Shrunk, Memory
    <2> DEFINE q == DownloaderChecked(r, r.have)
               s == LoadDownloads(q)
               db == (doubt \cap r.have) \cup (r.onDisk \ r.have)
    <2>4. /\ q \in Memory /\ q.data = r.data /\ q.file = r.file
          /\ q.prio = r.prio /\ q.onlySeed = r.onlySeed /\ q.todo = r.todo
          /\ q.excluded = r.excluded /\ q.have = r.have /\ q.loading = r.loading
          /\ q.running = r.running /\ q.onDisk = r.onDisk
      BY <2>3, CheckedIs
    <2>5. m' = s /\ index' = r.onDisk /\ doubt' = db /\ unlisted' = {}
      BY <2>1 DEF Suspect
    <2> HIDE DEF q
    <2>6. /\ s \in Memory /\ s.data = q.data /\ s.file = q.file
          /\ s.prio = q.prio /\ s.onlySeed = q.onlySeed /\ s.todo = q.todo
          /\ s.excluded = q.excluded /\ s.have = q.have /\ s.loading = q.loading
          /\ s.running = TRUE /\ s.onDisk = q.onDisk
          /\ \A c \in s.current : c \in saved \ q.onDisk /\ q.prio[c] # EXCLUDED
      BY <1>0, <2>4, LoadDownloadsIs
    <2> HIDE DEF s
    <2>7. db \in SUBSET Chunks
      BY <1>0, <2>3
    <2>8. /\ doubt \cap r.have \subseteq db /\ r.onDisk \ r.have \subseteq db
          /\ {} \in SUBSET Chunks /\ r.onDisk \subseteq r.onDisk \cup {}
      OBVIOUS
    <2> HIDE DEF db
    <2>9. Step(s, r.onDisk, saved, db, {})
      BY <1>0, <2>2, <2>3, <2>4, <2>6, <2>7, <2>8, Started
    <2> QED BY <1>0, <2>5, <2>9
  <1> QED BY <1>1, <1>2

\* A save of the index that fails lists what is on disk in part, or what was listed
LEMMA FailedSaveIn ==
  ASSUME index \in SUBSET Chunks, NEW C \in SUBSET Chunks, NEW idx \in FailedSave(C)
  PROVE  idx \in SUBSET Chunks
  BY DEF FailedSave

LEMMA StartIndexFailsStep ==
  ASSUME tor \in Torrents, SoundAt(m, index, saved, doubt, unlisted), StartIndexFails
  PROVE  Step(m', index', saved', doubt', unlisted')
  <1>0. /\ ~m.running /\ m \in Memory /\ tor' = tor /\ saved' = saved
        /\ index \in SUBSET Chunks /\ doubt \in SUBSET Chunks
    BY DEF StartIndexFails, SoundAt
  <1>1. PICK r \in {RecreateMissing(m), DndMissing(m)} :
            /\ m' = r /\ index' \in FailedSave(r.onDisk)
            /\ doubt' = doubt \cup Suspect(index', r) /\ unlisted' = r.onDisk \ index'
    BY DEF StartIndexFails
  <1>2. Shrunk(m, r)
    BY <1>0, <1>1, RecreateShrinks, DndShrinks
  <1>3. r.onDisk \in SUBSET Chunks
    BY <1>2 DEF Shrunk, Memory
  <1>4. index' \in SUBSET Chunks
    BY <1>0, <1>1, <1>3, FailedSaveIn
  <1> DEFINE idx == index'
             db == doubt \cup (idx \ r.have)
             un == r.onDisk \ idx
  <1>5. /\ m' = r /\ doubt' = db /\ unlisted' = un
    BY <1>1 DEF Suspect
  <1>6. idx \in SUBSET Chunks /\ db \in SUBSET Chunks /\ un \in SUBSET Chunks
    BY <1>0, <1>3, <1>4
  <1>7. r.onDisk \subseteq idx \cup un /\ doubt \subseteq db /\ idx \ r.have \subseteq db
    OBVIOUS
  <1> HIDE DEF db, un
  <1>8. Step(r, idx, saved, db, un)
    <2> HIDE DEF idx
    <2> QED BY <1>0, <1>2, <1>6, <1>7, ShrunkStep
  <1> QED BY <1>0, <1>5, <1>8

LEMMA CheckedOnDisk ==
  ASSUME m \in Memory
  PROVE  Checked(m, {c \in Chunks : ReadsRight(c)}).onDisk \in SUBSET Chunks
  <1> DEFINE ok == {c \in Chunks : ReadsRight(c)}
             r == DownloaderChecked(m, ok)
             a == (r.have \cup (ok \ m.have)) \ (m.have \ ok)
             b == (r.onDisk \cup (ok \ m.have)) \ (m.have \ ok)
             d == (r.todo \ (ok \ m.have)) \cup ((m.have \ ok) \ (m.onlySeed \cup m.excluded))
  <1>1. ok \in SUBSET Chunks
    OBVIOUS
  <1> HIDE DEF ok
  <1>2. r \in Memory /\ r.onDisk = m.onDisk
    BY <1>1, CheckedIs
  <1>3. Checked(m, ok) = [r EXCEPT !.have = a, !.onDisk = b, !.todo = d]
    BY <1>2 DEF Checked, Memory
  <1> HIDE DEF a, b, d
  <1>4. Checked(m, ok).onDisk = b
    BY <1>2, <1>3 DEF Memory
  <1> QED BY <1>1, <1>2, <1>4 DEF b, ok, Memory

\* The data is checked, and the index lists what it may
LEMMA CheckedStep ==
  ASSUME tor \in Torrents, SoundAt(m, index, saved, doubt, unlisted), ~m.running,
         NEW s, s = Checked(m, {c \in Chunks : ReadsRight(c)}),
         NEW idx \in SUBSET Chunks, NEW un \in SUBSET Chunks, s.onDisk \subseteq idx \cup un,
         tor' = tor
  PROVE  Step(s, idx, saved, idx \ s.have, un)
  <1> DEFINE ok == {c \in Chunks : ReadsRight(c)}
             found == ok \ m.have
             lost == m.have \ ok
             r == DownloaderChecked(m, ok)
             a == (r.have \cup found) \ lost
             b == (r.onDisk \cup found) \ lost
             d == (r.todo \ found) \cup (lost \ (m.onlySeed \cup m.excluded))
  <1>0. /\ m \in Memory /\ ~m.loading /\ m.have \in SUBSET Chunks
        /\ s = [r EXCEPT !.have = (@ \cup found) \ lost,
                         !.onDisk = (@ \cup found) \ lost,
                         !.todo = (@ \ found) \cup (lost \ (m.onlySeed \cup m.excluded))]
    BY DEF Checked, SoundAt, Memory
  <1>1. ok \in SUBSET Chunks
    OBVIOUS
  <1>2. /\ r \in Memory /\ r.data = m.data /\ r.file = m.file /\ r.gone = m.gone
        /\ r.prio = m.prio /\ r.onlySeed = m.onlySeed /\ r.todo = m.todo
        /\ r.excluded = m.excluded /\ r.have = m.have /\ r.loading = m.loading
        /\ r.running = m.running /\ r.onDisk = m.onDisk
        /\ r.current = m.current \ ok
    <2> HIDE DEF ok
    <2> QED BY <1>0, <1>1, CheckedIs
  <1>3. \A c \in ok : c \in Chunks /\ ReadsRight(c)
    OBVIOUS
  <1> HIDE DEF ok, r
  <1>4. a \in SUBSET Chunks /\ b \in SUBSET Chunks /\ d \in SUBSET Chunks
    BY <1>0, <1>1, <1>2 DEF Memory
  <1>5. s = [r EXCEPT !.have = a, !.onDisk = b, !.todo = d]
    BY <1>0, <1>2 DEF Memory
  <1> HIDE DEF a, b, d
  <1>6. /\ s \in Memory /\ s.data = m.data /\ s.file = m.file
        /\ s.prio = m.prio /\ s.onlySeed = m.onlySeed /\ s.todo = d
        /\ s.excluded = m.excluded /\ s.have = a /\ s.loading = m.loading
        /\ s.running = m.running /\ s.onDisk = b /\ s.current = m.current \ ok
    BY <1>2, <1>4, <1>5 DEF Memory
  <1>7. a = ok /\ b = (m.onDisk \cup (ok \ m.have)) \ (m.have \ ok)
    BY <1>2 DEF a, b
  <1>8. d = (m.todo \ (ok \ m.have)) \cup ((m.have \ ok) \ (m.onlySeed \cup m.excluded))
    BY <1>2 DEF d
  <1>9. SoundAt(s, idx, saved, idx \ s.have, un)
    BY <1>0, <1>6, <1>4 DEF SoundAt
  <1>10. ASSUME Regular(tor), DeepAt(m, index, saved, doubt)
         PROVE  DeepAt(s, idx, saved, idx \ s.have)
    <2>1. ASSUME NEW c \in Chunks PROVE Fits(s, c)
      <3>1. Fits(m, c)
        BY <1>10 DEF DeepAt
      <3>2. c \in d <=> Top(m, c) \notin Unwanted /\ c \notin ok
        BY <1>8, <3>1 DEF Fits, Marked, Unwanted
      <3> QED BY <1>6, <1>7, <3>1, <3>2, FitsKept
    <2>2. Bare(s)
      BY <1>6, <1>10 DEF Bare, DeepAt
    <2>3. RealAt(s, idx \ s.have)
      BY <1>3, <1>6, <1>7 DEF RealAt, ReadsRight
    <2>4. s.current \cap s.excluded = {} /\ s.current \cap s.have = {}
      BY <1>6, <1>7, <1>10 DEF DeepAt
    <2>5. saved \cap (s.have \ s.onDisk) = {}
      BY <1>0, <1>6, <1>7, <1>10 DEF DeepAt
    <2> QED BY <2>1, <2>2, <2>3, <2>4, <2>5 DEF DeepAt
  <1> QED BY <1>9, <1>10 DEF Step

LEMMA DataCheckStep ==
  ASSUME tor \in Torrents, SoundAt(m, index, saved, doubt, unlisted),
         DataCheck \/ DataCheckIndexFails
  PROVE  Step(m', index', saved', doubt', unlisted')
  <1> DEFINE s == Checked(m, {c \in Chunks : ReadsRight(c)})
  <1>1. /\ ~m.running /\ m' = s /\ saved' = saved /\ tor' = tor
        /\ index' \in {s.onDisk} \cup FailedSave(s.onDisk) /\ doubt' = index' \ s.have
        /\ unlisted' = s.onDisk \ index'
    BY DEF DataCheck, DataCheckIndexFails, Suspect
  <1> HIDE DEF s
  <1>2. s.onDisk \in SUBSET Chunks /\ index \in SUBSET Chunks
    BY CheckedOnDisk DEF s, SoundAt
  <1>3. index' \in SUBSET Chunks
    BY <1>1, <1>2, FailedSaveIn
  <1> DEFINE idx == index'
             un == s.onDisk \ idx
  <1>4. idx \in SUBSET Chunks /\ un \in SUBSET Chunks /\ s.onDisk \subseteq idx \cup un
    BY <1>2, <1>3
  <1>5. s = Checked(m, {c \in Chunks : ReadsRight(c)})
    BY DEF s
  <1>6. Step(s, idx, saved, idx \ s.have, un)
    <2> HIDE DEF idx, un
    <2> QED BY <1>1, <1>4, <1>5, CheckedStep
  <1> QED BY <1>1, <1>6

LEMMA RemoveFileStep ==
  ASSUME tor \in Torrents, SoundAt(m, index, saved, doubt, unlisted), NEW f \in Files, RemoveFile(f)
  PROVE  Step(m', index', saved', doubt', unlisted')
  <1> DEFINE a == m.gone \cup {f}
             b == {fc \in m.data : fc[1] # f}
             s == [m EXCEPT !.gone = a, !.data = b]
  <1>0. ~m.running /\ m \in Memory /\ ~m.loading /\ m' = s /\ index' = index
        /\ doubt' = doubt \cup Span(f) /\ saved' = saved /\ tor' = tor /\ unlisted' = unlisted
    <2>1. m' = [m EXCEPT !.gone = @ \cup {f}, !.data = {fc \in @ : fc[1] # f}]
      BY DEF RemoveFile
    <2> QED BY <2>1 DEF RemoveFile, SoundAt, lapses
  <1>1. a \in SUBSET Files /\ b \in SUBSET Fragments(Chunks)
    BY <1>0 DEF Memory
  <1>2. b = {fc \in m.data : fc[1] # f}
    OBVIOUS
  <1> HIDE DEF a, b
  <1>3. /\ s \in Memory /\ s.data = b /\ s.file = m.file
        /\ s.prio = m.prio /\ s.onlySeed = m.onlySeed /\ s.todo = m.todo
        /\ s.excluded = m.excluded /\ s.have = m.have /\ s.loading = m.loading
        /\ s.running = m.running /\ s.onDisk = m.onDisk /\ s.current = m.current
    BY <1>0, <1>1 DEF Memory
  <1> HIDE DEF s
  <1>4. Span(f) \in SUBSET Chunks
    BY SpanIn
  <1>5. SoundAt(s, index, saved, doubt \cup Span(f), unlisted)
    BY <1>3, <1>4 DEF SoundAt
  <1>6. ASSUME Regular(tor), DeepAt(m, index, saved, doubt)
        PROVE  DeepAt(s, index, saved, doubt \cup Span(f))
    <2>1. \A c \in Chunks : Fits(s, c)
      BY <1>3, <1>6, FitsKept DEF DeepAt, Fits
    <2>2. Bare(s)
      BY <1>2, <1>3, <1>6 DEF DeepAt, Bare
    <2>3. RealAt(s, doubt \cup Span(f))
      <3> SUFFICES ASSUME NEW c \in s.have, c \notin doubt, c \notin Span(f),
                          NEW fc \in Fragments({c})
                   PROVE  fc \in s.data
        BY DEF RealAt
      <3>1. c \in m.have /\ c \in Chunks
        BY <1>0, <1>3 DEF Memory
      <3>2. fc \in m.data
        BY <1>6, <3>1 DEF DeepAt, RealAt
      <3>3. {c} \in SUBSET Chunks
        BY <3>1
      <3>4. fc[1] # f
        BY <3>3, FragmentsIs
      <3> QED BY <1>2, <1>3, <3>2, <3>4
    <2> QED BY <1>3, <1>6, <2>1, <2>2, <2>3 DEF DeepAt
  <1> QED BY <1>0, <1>5, <1>6 DEF Step

LEMMA RestartStep ==
  ASSUME tor \in Torrents, SoundAt(m, index, saved, doubt, unlisted), Restart
  PROVE  Step(m', index', saved', doubt', unlisted')
  <1> DEFINE s == Load(m.file, index, m.data, m.gone)
  <1>0. /\ m' = s /\ index' = index /\ doubt' = doubt /\ saved' = saved /\ tor' = tor
        /\ unlisted' = {}
        /\ m.file \in [Files -> Priorities] /\ index \in SUBSET Chunks
        /\ m.data \in SUBSET Fragments(Chunks) /\ m.gone \in SUBSET Files
    BY DEF Restart, SoundAt, Memory
  <1>1. /\ s \in Memory /\ ~s.loading /\ ~s.running
        /\ s.have = index /\ s.onDisk = index /\ s.current = {}
        /\ s.data \subseteq m.data /\ (Suits(m.file, m.data) => s.data = m.data)
        /\ Bare(s)
        /\ Regular(tor) => \A c \in Chunks : Fits(s, c)
    BY <1>0, LoadIs, Zenon
  <1> HIDE DEF s
  <1>2. SoundAt(s, index, saved, doubt, {})
    BY <1>1 DEF SoundAt
  <1>3. ASSUME Regular(tor), DeepAt(m, index, saved, doubt)
        PROVE  DeepAt(s, index, saved, doubt)
    <2>1. s.data = m.data
      BY <1>1, <1>3 DEF DeepAt, Bare, Suits
    <2>2. RealAt(s, doubt)
      BY <1>1, <1>3, <2>1 DEF DeepAt, RealAt
    <2> QED BY <1>1, <1>3, <2>2 DEF DeepAt
  <1> QED BY <1>0, <1>2, <1>3 DEF Step

-----------------------------------------------------------------------------
(* The invariants and the theorems                                          *)

Sound == SoundAt(m, index, saved, doubt, unlisted)
Deep == DeepAt(m, index, saved, doubt)

Inv ==
    /\ tor \in Torrents
    /\ Sound
    /\ used \in Counters
    /\ missed \in SUBSET Chunks

\* The torrent is fixed: what is said of m' is said of m in the next state
LEMMA Primed ==
  ASSUME tor' = tor
  PROVE  /\ Sound' <=> SoundAt(m', index', saved', doubt', unlisted')
         /\ Deep' <=> DeepAt(m', index', saved', doubt')
         /\ Regular(tor)' <=> Regular(tor)
  <1>1. Files' = Files
    BY DEF Files
  <1>2. \A f : Span(f)' = Span(f)
    BY DEF Span
  <1>3. \A c : FilesOf(c)' = FilesOf(c)
    BY <1>1, <1>2 DEF FilesOf
  <1>4. \A C : Fragments(C)' = Fragments(C)
    BY <1>1, <1>2 DEF Fragments
  <1>5. Memory' = Memory
    BY <1>1, <1>4 DEF Memory
  <1>6. Sound' <=> SoundAt(m', index', saved', doubt', unlisted')
    BY <1>5 DEF Sound, SoundAt
  <1>7. \A c : Top(m, c)' = Top(m', c)
    BY <1>3 DEF Top
  <1>8. \A c : Fits(m, c)' <=> Fits(m', c)
    BY <1>7 DEF Fits, Marked
  <1>9. Bare(m)' <=> Bare(m')
    BY <1>1 DEF Bare
  <1>10. RealAt(m, doubt)' <=> RealAt(m', doubt')
    BY <1>4 DEF RealAt
  <1>11. Deep' <=> DeepAt(m', index', saved', doubt')
    BY <1>8, <1>9, <1>10 DEF Deep, DeepAt
  <1>12. Regular(tor)' <=> Regular(tor)
    BY DEF Regular, Shared
  <1> QED BY <1>6, <1>11, <1>12

LEMMA InitHolds ==
  ASSUME Init
  PROVE  Inv /\ (Regular(tor) => Deep)
  <1> DEFINE p == [f \in Files |-> NORMAL]
             s == Load(p, {}, {}, {})
  <1>1. m = s /\ tor \in Torrents /\ index = {} /\ saved = {} /\ doubt = {}
        /\ unlisted = {} /\ missed = {}
    BY DEF Init
  <1>t. tor \in Torrents
    BY DEF Init
  <1>2. p \in [Files -> Priorities]
    BY DEF Priorities
  <1>3. {} \in SUBSET Fragments(Chunks) /\ {} \in SUBSET Files /\ {} \in SUBSET Chunks
    OBVIOUS
  <1> HIDE DEF p
  <1>4. /\ s \in Memory /\ ~s.loading /\ ~s.running
        /\ s.have = {} /\ s.onDisk = {} /\ s.current = {}
        /\ s.data \subseteq {} /\ (Suits(p, {}) => s.data = {})
        /\ Bare(s)
        /\ Regular(tor) => \A c \in Chunks : Fits(s, c)
    BY <1>t, <1>2, <1>3, LoadIs, Zenon
  <1> HIDE DEF s
  <1>5. used \in Counters
    BY ChunkAssumption DEF Init, Counters
  <1> QED BY <1>1, <1>4, <1>5 DEF Inv, Sound, SoundAt, Deep, DeepAt, RealAt

LEMMA Counted ==
  ASSUME used \in Counters, [Next]_vars
  PROVE  used' \in Counters
  <1>1. MaxSets \in Nat /\ MaxFaults \in Nat
    BY ChunkAssumption
  <1>2. \A w \in {"sets", "faults"} :
           Spend(w, IF w = "sets" THEN MaxSets ELSE MaxFaults) => used' \in Counters
    BY <1>1 DEF Spend, Counters
  <1>3. Spend("sets", MaxSets) \/ Spend("faults", MaxFaults) => used' \in Counters
    BY <1>2
  <1>4. Spend("sets", MaxSets) \/ Spend("faults", MaxFaults) \/ used' = used
    BY DEF Next, vars, SetFilePriority, Select, Finished, FinishedIndexFails, FinishedBad,
           RemoveFile, Stop, Start, StartIndexFails, DataCheck, DataCheckIndexFails, Restart
  <1> QED BY <1>3, <1>4

\* What the selector was not told of was had
LEMMA MissedAreChunks ==
  ASSUME m \in Memory, missed \in SUBSET Chunks, [Next]_vars
  PROVE  missed' \in SUBSET Chunks
  <1>1. m.have \in SUBSET Chunks
    BY DEF Memory
  <1>2. CASE StartIndexFails
    BY <1>1, <1>2 DEF StartIndexFails
  <1>3. CASE ~StartIndexFails
    <2>1. missed' = missed \/ missed' = {} \/ missed' = missed \ m'.selector
      BY <1>3 DEF Next, vars, lapses, SetFilePriority, Select, Finished, FinishedIndexFails,
             FinishedBad, RemoveFile, Stop, Start, DataCheck, DataCheckIndexFails, Restart
    <2> QED BY <2>1
  <1> QED BY <1>2, <1>3

\* A step, of whatever kind, keeps both parts of the invariant
LEMMA NextHolds ==
  ASSUME Inv, [Next]_vars
  PROVE  Inv' /\ (Regular(tor) /\ Deep => Regular(tor)' /\ Deep')
  <1>1. tor \in Torrents /\ SoundAt(m, index, saved, doubt, unlisted)
    BY DEF Inv, Sound
  <1>2. Step(m', index', saved', doubt', unlisted')
    <2>1. CASE UNCHANGED vars
      BY <1>1, <2>1 DEF vars, lapses, Step
    <2>2. CASE \E f \in Files, p \in Offered : SetFilePriority(f, p)
      BY <1>1, <2>2, SetFilePriorityStep
    <2>3. CASE \E c \in Chunks : Select(c)
      BY <1>1, <2>3, SelectStep
    <2>4. CASE \E c \in Chunks : Finished(c) \/ FinishedIndexFails(c)
      BY <1>1, <2>4, FinishedStep
    <2>5. CASE \E c \in Chunks : FinishedBad(c)
      BY <1>1, <2>5, FinishedBadStep
    <2>6. CASE \E f \in Files : RemoveFile(f)
      BY <1>1, <2>6, RemoveFileStep
    <2>7. CASE Stop \/ Start \/ StartIndexFails \/ DataCheck \/ DataCheckIndexFails \/ Restart
      BY <1>1, <2>7, StopStep, StartStep, StartIndexFailsStep, DataCheckStep, RestartStep
    <2> QED BY <2>1, <2>2, <2>3, <2>4, <2>5, <2>6, <2>7 DEF Next
  <1>3. tor' = tor
    BY <1>2 DEF Step
  <1>4. used' \in Counters
    BY Counted DEF Inv
  <1>5. Counters' = Counters
    BY DEF Counters
  <1>6. missed' \in SUBSET Chunks
    BY MissedAreChunks DEF Inv, Sound, SoundAt
  <1>7. Inv'
    BY <1>1, <1>2, <1>3, <1>4, <1>5, <1>6, Primed DEF Step, Inv
  <1> QED BY <1>2, <1>3, <1>7, Primed DEF Step, Deep

LEMMA AlwaysInv == Spec => []Inv
  <1>1. Init => Inv
    BY InitHolds
  <1>2. Inv /\ [Next]_vars => Inv'
    BY NextHolds
  <1> QED BY <1>1, <1>2, PTL DEF Spec

LEMMA AlwaysDeep == Spec /\ Regular(tor) => [](Inv /\ Deep)
  <1> DEFINE R == Regular(tor)
  <1>1. Init /\ R => Inv /\ R /\ Deep
    BY InitHolds
  <1>2. Inv /\ R /\ Deep /\ [Next]_vars => Inv' /\ R' /\ Deep'
    BY NextHolds
  <1> HIDE DEF R
  <1>3. Spec /\ R => [](Inv /\ R /\ Deep)
    BY <1>1, <1>2, PTL DEF Spec
  <1>4. Spec /\ R => [](Inv /\ Deep)
    BY <1>3, PTL
  <1> QED BY <1>4 DEF R

\* The type invariant, of every torrent: the sets of chunks of the manager, the
\* priorities and what is on disk stay in their ranges, and during_load is off
\* between the calls.
THEOREM TypeCorrect == Spec => []TypeOK
  <1>1. Inv => TypeOK
    BY DEF Inv, Sound, SoundAt, Memory, TypeOK
  <1> QED BY <1>1, AlwaysInv, PTL

\* A chunk that is had and marked as on disk is listed in the index file after
\* every call, whatever the torrent, unless a save of the whole index failed and left
\* it out: chunkDownloaded writes the entry before the mark, and resetChunk takes the
\* mark away first.
THEOREM HadStayIndexed == Spec => []HadIndexed
  <1>1. Inv => HadIndexed
    BY DEF Inv, Sound, SoundAt, HadIndexed
  <1> QED BY <1>1, AlwaysInv, PTL

-----------------------------------------------------------------------------
(* The invariants of the regular torrents                                   *)

LEMMA TopWanted ==
  ASSUME tor \in Torrents, m \in Memory, NEW c \in Chunks
  PROVE  Top(m, c) \notin Unwanted <=> c \in Wanted(m)
  <1>1. \A f \in FilesOf(c) : m.file[f] \in Priorities /\ m.file[f] <= Top(m, c)
    BY TopIs DEF Memory, FilesOf
  <1>2. PICK f \in FilesOf(c) : Top(m, c) = m.file[f]
    BY TopIs
  <1>3. Top(m, c) \notin Unwanted => WantedBy(m, f)
    BY <1>2 DEF WantedBy, Unwanted
  <1>4. ASSUME NEW g \in FilesOf(c), WantedBy(m, g) PROVE Top(m, c) \notin Unwanted
    <2>1. m.file[g] \in Priorities \ {EXCLUDED, ONLY_SEED} /\ m.file[g] <= Top(m, c)
      BY <1>1, <1>4 DEF WantedBy
    <2>2. Top(m, c) \in Priorities
      BY <1>1, <1>2
    <2> QED BY <2>1, <2>2 DEF Unwanted, Priorities, PREVIEW, FIRST, NORMAL, LAST, ONLY_SEED, EXCLUDED
  <1> QED BY <1>3, <1>4 DEF Wanted

\* todo holds exactly the chunks that a file to be downloaded needs and that are
\* not had: updateStats and completed() are right about a regular torrent after
\* any sequence of calls, faults and restarts.
THEOREM TodoIsExact == Spec /\ Regular(tor) => []TodoExact
  <1>1. Inv /\ Deep => TodoExact
    <2> SUFFICES ASSUME Inv, Deep PROVE TodoExact
      OBVIOUS
    <2>1. tor \in Torrents /\ m \in Memory
      BY DEF Inv, Sound, SoundAt
    <2>2. ASSUME NEW c \in Chunks PROVE c \in m.todo <=> c \in Wanted(m) \ m.have
      BY <2>1, TopWanted DEF Deep, DeepAt, Fits
    <2>3. m.todo \subseteq Chunks /\ Wanted(m) \subseteq Chunks
      BY <2>1 DEF Memory, Wanted
    <2> QED BY <2>2, <2>3 DEF TodoExact
  <1> QED BY <1>1, AlwaysDeep, PTL

\* A chunk a regular torrent has is whole on disk, unless its data was deleted
\* behind the program's back or a stale index entry brought it back.
THEOREM HadIsReal == Spec /\ Regular(tor) => []HaveIsReal
  <1>1. Deep => HaveIsReal
    BY DEF Deep, DeepAt, RealAt, HaveIsReal
  <1> QED BY <1>1, AlwaysDeep, PTL

\* A chunk of a regular torrent has the highest priority of the files it lies in
\* (the preview apart), in whatever order they were set or read back.
THEOREM PriorityIsHighest == Spec /\ Regular(tor) => []PriorityHighest
  <1>1. Deep => PriorityHighest
    BY DEF Deep, DeepAt, Fits, Top, PriorityHighest
  <1> QED BY <1>1, AlwaysDeep, PTL

\* Changing the priority of one file of a regular torrent loses no chunk that
\* another file keeps.
THEOREM NeededIsKept == Spec /\ Regular(tor) => NeededKept
  <1> DEFINE A == \A g \in Files : (\E p \in Offered : SetFilePriority(g, p)) =>
                     \A c \in m.have \ m'.have :
                        \A f \in FilesOf(c) \ {g} : m.file[f] = EXCLUDED
             R == Regular(tor)
  <1>1. Inv /\ R /\ Deep => A
    <2> SUFFICES ASSUME Inv, Regular(tor), Deep, NEW g \in Files, NEW p \in Offered,
                        SetFilePriority(g, p), NEW c \in m.have \ m'.have
                 PROVE  \A f \in FilesOf(c) \ {g} : m.file[f] = EXCLUDED
      OBVIOUS
    <2>1. tor \in Torrents /\ m \in Memory /\ p \in Priorities /\ m' = SetPriority(m, g, p)
      BY ChunkAssumption DEF Inv, Sound, SoundAt, SetFilePriority
    <2>2. Lost(m, m', g)
      BY <2>1, SetPriorityIs DEF Deep, DeepAt, AdjustedRight
    <2>3. c \notin m.current
      BY DEF Deep, DeepAt
    <2> QED BY <2>2, <2>3 DEF Lost
  <1>2. Init /\ R => Inv /\ R /\ Deep
    BY InitHolds
  <1>3. Inv /\ R /\ Deep /\ [Next]_vars => Inv' /\ R' /\ Deep'
    BY NextHolds
  <1> HIDE DEF A, R
  <1>4. Spec /\ R => [][A]_vars
    BY <1>1, <1>2, <1>3, PTL DEF Spec
  <1> QED BY <1>4 DEF NeededKept, A, R
=============================================================================
