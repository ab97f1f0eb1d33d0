---------------------------- MODULE ChunkManager ----------------------------
(***************************************************************************)
(* One torrent's book-keeping of chunks: the ChunkManager, the priorities  *)
(* of the files (TorrentFile), the list of chunks the ChunkSelector picks  *)
(* from, the set of chunks the Downloader works on, and what is on disk:   *)
(* data files, the "do not download" copies, the index, the file with      *)
(* priorities and the saved chunk downloads.                               *)
(*                                                                         *)
(* All of it is driven from one GUI thread: an action is a whole call,     *)
(* with the signals it emits, which are delivered inside the call.  That   *)
(* is why the state is one record m: the nested calls of one action pass   *)
(* it on.  The abstractions: a chunk's data is a set of fragments, one per *)
(* file the chunk lies in; a fragment is on disk or it is not; a downloaded *)
(* chunk is one step whose hash check may fail.                            *)
(***************************************************************************)
EXTENDS Integers, FiniteSetsExt, SequencesExt

CONSTANTS
    NumChunks,      \* the number of chunks of the torrent
    Torrents,       \* torrents: sequences of files [first, last, media]
    PreviewChunks,  \* doPreviewPriority's nchunks
    Offered,        \* the priorities the user picks from
    MaxSets,        \* bound: calls that set a file's priority
    MaxFaults,      \* bound: failed hash checks, failed writes and saves of the
                    \* index, data files deleted by someone else, together
    MaxEvents       \* bound: the calls of MaxSets and the faults together

PREVIEW == 60
FIRST == 50
NORMAL == 40
LAST == 30
ONLY_SEED == 20
EXCLUDED == 10
Priorities == {PREVIEW, FIRST, NORMAL, LAST, ONLY_SEED, EXCLUDED}

Chunks == 0 .. NumChunks - 1

WellFormed(t) ==
    /\ t \in Seq([first : Nat, last : Nat, media : BOOLEAN]) /\ t # <<>>
    /\ t[1].first = 0 /\ t[Len(t)].last = NumChunks - 1
    /\ \A f \in DOMAIN t : t[f].first <= t[f].last
    /\ \A f \in 1 .. Len(t) - 1 : t[f + 1].first \in {t[f].last, t[f].last + 1}

ASSUME ChunkAssumption ==
    /\ NumChunks \in Nat \ {0} /\ PreviewChunks \in Nat \ {0}
    /\ \A t \in Torrents : WellFormed(t)
    /\ Offered \subseteq Priorities \ {PREVIEW}
    /\ {MaxSets, MaxFaults, MaxEvents} \subseteq Nat

VARIABLES
    tor,     \* the torrent's files (Torrent::files), fixed
    m,       \* the program's memory and what it reads back from disk
    index,   \* the chunks in the index file
    saved,   \* the chunks in the current_chunks file
    used,    \* how often each bound was used
    doubt,   \* chunks whose data went behind the program's back, or that the
             \* index file still lists though they were reset (history)
    unlisted, \* chunks on disk that a failed save left out of the index (history)
    missed   \* chunks reset by a start that failed, so that the selector was
             \* not told (history)

lapses == <<unlisted, missed>>
vars == <<tor, m, index, saved, used, doubt, lapses>>

Files == DOMAIN tor
Span(f) == tor[f].first .. tor[f].last
FilesOf(c) == {f \in Files : c \in Span(f)}
Fragments(C) == {fc \in Files \X C : fc[2] \in Span(fc[1])}

\* createBorderChunkSet: the last chunk of a file and the first of the next
BorderChunks == {tor[f].last : f \in {g \in Files \ {Len(tor)} :
                                        tor[g].last = tor[g + 1].first}}
IsBorderChunk(c) == c \in BorderChunks

-----------------------------------------------------------------------------
(* The ChunkManager's operations on the record m:
     file      priority of every file            prio      of every chunk
     onDisk    chunks with status ON_DISK        have      bitset
     excluded, onlySeed, todo                    the bit sets of these names
     loading   during_load                       running   stats.running
     selector  ChunkSelector::chunks             current   current_chunks
     data      the fragments on disk             gone      missing files
   The cached number of chunks left is for display, and left out.         *)

\* Mutant of ResetChunk: every chunk that is reset is to be done again.
ResetChunkWanted(r, c) ==
    IF r.loading THEN r
    ELSE [r EXCEPT !.onDisk = @ \ {c}, !.have = @ \ {c}, !.todo = @ \cup {c}]

ResetChunk(r, c) ==
    IF r.loading THEN r
    ELSE [r EXCEPT !.onDisk = @ \ {c}, !.have = @ \ {c},
                   !.todo = IF c \in r.excluded \cup r.onlySeed
                            THEN @ \ {c} ELSE @ \cup {c}]

ResetAll(r, C) == FoldSet(LAMBDA c, s : ResetChunk(s, c), r, C)

\* Downloader::onExcluded: running downloads of these chunks are given up
OnExcluded(r, C) ==
    ResetAll([r EXCEPT !.current = @ \ C], r.current \cap C)

\* Downloader::onIncluded, ChunkSelector::reincluded
Reincluded(r, C) == [r EXCEPT !.selector = @ \cup (C \ r.onDisk)]

Prioritise(r, C, p) ==
    LET mine == C \cap Chunks IN
    [r EXCEPT
        !.prio = [c \in Chunks |-> IF c \in mine THEN p ELSE @[c]],
        !.onlySeed = IF p = ONLY_SEED THEN @ \cup mine ELSE @ \ mine,
        !.todo = IF p \in {ONLY_SEED, EXCLUDED} THEN @ \ mine
                 ELSE (@ \ mine) \cup (mine \ r.have)]

Exclude(r, C) ==
    OnExcluded([r EXCEPT
        !.prio = [c \in Chunks |-> IF c \in C THEN EXCLUDED ELSE @[c]],
        !.excluded = @ \cup C, !.onlySeed = @ \ C,
        !.todo = @ \ C, !.have = @ \ C], C)

Include(r, C) ==
    Reincluded([r EXCEPT
        !.prio = [c \in Chunks |-> IF c \in C THEN NORMAL ELSE @[c]],
        !.excluded = @ \ C, !.todo = @ \cup (C \ r.have)], C)

\* prioritise, and the signal excluded for chunks that are only seeded
SetChunkPriority(r, C, p) ==
    IF p = ONLY_SEED THEN OnExcluded(Prioritise(r, C, p), C) ELSE Prioritise(r, C, p)

\* Mutant of SetBorderChunkPriority: the other files are not asked.
SetBorderChunkPriorityAlone(r, c, p) == Prioritise(r, {c}, p)

SetBorderChunkPriority(r, c, p) ==
    SetChunkPriority(r, {c}, Max({p} \cup {r.file[f] : f \in FilesOf(c)}))

\* Mutant of Needing: seeding alone is not taken for a need.
NeedingDownload(r, c, f) ==
    {g \in FilesOf(c) \ {f} : r.file[g] \notin {EXCLUDED, ONLY_SEED}}

\* The other files of the chunk that are to be kept: with one of them a chunk at
\* the end of file f stays, at the priority of the first.  Otherwise it is reset.
Needing(r, c, f) == {g \in FilesOf(c) \ {f} : r.file[g] # EXCLUDED}

Kept(r, c, f) == IsBorderChunk(c) /\ Needing(r, c, f) # {}

ResetEnd(r, c, f) ==
    IF Kept(r, c, f)
    THEN SetBorderChunkPriority(r, c, r.file[Min(Needing(r, c, f))])
    ELSE ResetChunk(r, c)

\* The chunks at both ends of a file that give a preview
PreviewOf(f) ==
    LET first == tor[f].first
        last == tor[f].last
    IN  IF first = last THEN {first}
        ELSE first .. first + PreviewChunks
             \cup IF last - first > PreviewChunks THEN last - PreviewChunks .. last ELSE {}

\* doPreviewPriority and the guards on a file being multimedia
DoPreviewPriority(r, f) ==
    IF ~tor[f].media \/ r.file[f] \in {EXCLUDED, ONLY_SEED} THEN r
    ELSE Prioritise(r, PreviewOf(f), PREVIEW)

\* Mutant of CacheStatus: only the first chunk of the file is saved.
CacheStatusFirst(r, f, download) ==
    IF download THEN r
    ELSE [r EXCEPT !.gone = @ \ {f},
                   !.data = {fc \in @ : fc[1] = f => fc[2] = tor[f].first}]

\* MultiFileCache::downloadStatusChanged: an excluded file keeps its first and
\* last chunk in a "dnd" file, an included one gets them back.
CacheStatus(r, f, download) ==
    IF download THEN r
    ELSE [r EXCEPT !.gone = @ \ {f},
                   !.data = {fc \in @ : fc[1] = f =>
                                fc[2] \in {tor[f].first, tor[f].last}}]

\* downloadStatusChanged(tf, false), for a file in one chunk and for a longer
\* one.  In the longer one the last chunk is looked at only while the range
\* first..last, from which a needed first chunk was taken, has two ends.
DropOneChunk(r, f) ==
    LET c == tor[f].first
    IN  IF Kept(r, c, f) THEN ResetEnd(r, c, f) ELSE Exclude(ResetChunk(r, c), {c})

DropChunks(r, f) ==
    LET first == tor[f].first
        last == tor[f].last
        from == IF Kept(r, first, f) THEN first + 1 ELSE first
        to == IF last # from /\ Kept(r, last, f) THEN last - 1 ELSE last
        ends == IF last = from THEN <<first>> ELSE <<first, last>>
        s == FoldLeft(LAMBDA q, c : ResetEnd(q, c, f),
                      ResetAll(r, first + 1 .. last - 1), ends)
    IN  IF from <= to THEN Exclude(s, from .. to) ELSE s

DownloadStatusChanged(r, f, download) ==
    LET s == IF download THEN DoPreviewPriority(Include(r, Span(f)), f)
             ELSE IF tor[f].first = tor[f].last THEN DropOneChunk(r, f)
             ELSE DropChunks(r, f)
    IN  CacheStatus(s, f, download)

\* The chunk of a short file is given up even if another file wants it
DownloadPriorityChanged(r, f, new, old) ==
    LET s == IF old = EXCLUDED THEN DownloadStatusChanged(r, f, TRUE) ELSE r
        ends == {tor[f].first, tor[f].last} \cap BorderChunks
        t == FoldSet(LAMBDA c, q : SetBorderChunkPriority(q, c, new), s, ends)
        u == SetChunkPriority(t, Span(f) \ ends, new)
        given == IF new = ONLY_SEED /\ tor[f].first = tor[f].last THEN Span(f) ELSE {}
    IN  IF new = EXCLUDED THEN DownloadStatusChanged(r, f, FALSE)
        ELSE DoPreviewPriority(OnExcluded(u, given), f)

\* TorrentFile::setDoNotDownload and setPriority
Reprioritise(r, f, new) ==
    DownloadPriorityChanged([r EXCEPT !.file[f] = new], f, new, r.file[f])

SetDoNotDownload(r, f, dnd) ==
    IF dnd = (r.file[f] = EXCLUDED) THEN r
    ELSE Reprioritise(r, f, IF dnd THEN EXCLUDED ELSE NORMAL)

SetPriority(r, f, new) ==
    CASE r.file[f] = new -> r
      [] r.file[f] # new /\ new = EXCLUDED -> SetDoNotDownload(r, f, TRUE)
      [] OTHER -> Reprioritise(SetDoNotDownload(r, f, FALSE), f, new)

-----------------------------------------------------------------------------
(* The constructors, and loading what an earlier session left.             *)

NewManager(data, gone) ==
    LET r == [file |-> [f \in Files |-> NORMAL], prio |-> [c \in Chunks |-> NORMAL],
              onDisk |-> {}, have |-> {}, excluded |-> {}, onlySeed |-> {},
              todo |-> Chunks, loading |-> TRUE,
              selector |-> {}, current |-> {}, data |-> data, gone |-> gone,
              running |-> FALSE]
    IN  FoldSet(LAMBDA f, s : DoPreviewPriority(s, f), r, Files)

\* loadPriorityInfo: file after file, the priorities that are not normal
LoadPriorityInfo(r, prios) ==
    FoldLeft(LAMBDA s, f : SetPriority(s, f, prios[f]), r, [f \in Files |-> f])

\* Mutant of Load: during_load stays set on an early return.
LoadUnfinished(prios, idx, data, gone) ==
    [LoadPriorityInfo(NewManager(data, gone), prios) EXCEPT
        !.onDisk = idx, !.have = idx, !.todo = @ \ idx, !.loading = (idx = {}),
        !.selector = Chunks \ idx, !.current = {}]

\* setupData: the manager, loadIndexFile, then the selector over what is not had
Load(prios, idx, data, gone) ==
    [LoadPriorityInfo(NewManager(data, gone), prios) EXCEPT
        !.onDisk = idx, !.have = idx, !.todo = @ \ idx, !.loading = FALSE,
        !.selector = Chunks \ idx, !.current = {}]

Init ==
    /\ tor \in Torrents
    /\ m = Load([f \in Files |-> NORMAL], {}, {}, {})
    /\ index = {} /\ saved = {} /\ doubt = {} /\ unlisted = {} /\ missed = {}
    /\ used = [sets |-> 0, faults |-> 0]

Spend(what, limit) ==
    /\ used[what] < limit /\ used.sets + used.faults < MaxEvents
    /\ used' = [used EXCEPT ![what] = @ + 1]

\* What the index lists although it is no longer had is in doubt
Suspect(idx, r) == idx \ r.have

\* saveIndexFile opens the index, which empties it, and writes the chunks on disk
\* in order.  A save that fails leaves the old index, or the first entries of the new.
FailedSave(onDisk) == {index} \cup {{c \in onDisk : c < n} : n \in 0 .. NumChunks}

-----------------------------------------------------------------------------
(* What the user, the downloader and the disk do.                           *)

SetFilePriority(f, p) ==
    /\ p # m.file[f] /\ Spend("sets", MaxSets)
    /\ m' = SetPriority(m, f, p)
    /\ doubt' = doubt \cup Suspect(index, m')
    /\ missed' = missed \ m'.selector
    /\ UNCHANGED <<tor, index, saved, unlisted>>

\* ChunkSelector::select: chunks found to be had are erased from the list up to
\* the first chunk nobody downloads
Select(c) ==
    /\ m.running /\ c \in m.selector \ (m.have \cup m.current)
    /\ m.prio[c] \notin {EXCLUDED, ONLY_SEED}
    /\ \E had \in SUBSET (m.selector \cap m.have) :
          m' = [m EXCEPT !.selector = @ \ had, !.current = @ \cup {c}]
    /\ UNCHANGED <<tor, index, saved, used, doubt, lapses>>

\* ChunkManager::chunkDownloaded, up to writing the index and after it
TakeChunk(r, c) ==
    [r EXCEPT !.have = @ \cup {c}, !.todo = @ \ {c}]

\* Mutant of Finished: the index entry is left to a later save.
FinishedUnlisted(c) ==
    /\ m.running /\ c \in m.current
    /\ m' = [TakeChunk([m EXCEPT !.current = @ \ {c},
                                 !.data = @ \cup Fragments({c})], c)
             EXCEPT !.onDisk = @ \cup {c}]
    /\ UNCHANGED <<tor, index, saved, used, doubt, lapses>>

\* Downloader::finished with a chunk whose hash is right
Finished(c) ==
    LET r == [m EXCEPT !.current = @ \ {c}, !.data = @ \cup Fragments({c})]
    IN  /\ m.running /\ c \in m.current
        /\ IF m.prio[c] = EXCLUDED
           THEN m' = r /\ UNCHANGED <<index, doubt, unlisted>>
           ELSE /\ m' = [TakeChunk(r, c) EXCEPT !.onDisk = @ \cup {c}]
                /\ index' = index \cup {c} /\ doubt' = doubt \ {c}
                /\ unlisted' = unlisted \ {c}
        /\ UNCHANGED <<tor, saved, used, missed>>

\* writeIndexFileEntry throws: the chunk is had, but not marked as on disk
FinishedIndexFails(c) ==
    /\ m.running /\ c \in m.current /\ m.prio[c] # EXCLUDED /\ Spend("faults", MaxFaults)
    /\ m' = TakeChunk([m EXCEPT !.current = @ \ {c},
                                !.data = @ \cup Fragments({c})], c)
    /\ doubt' = doubt \ {c}
    /\ UNCHANGED <<tor, index, saved, lapses>>

\* The hash is wrong: the chunk is reset and back in the selector's list
FinishedBad(c) ==
    /\ m.running /\ c \in m.current /\ Spend("faults", MaxFaults)
    /\ m' = ResetChunk([m EXCEPT !.current = @ \ {c}, !.selector = @ \cup {c},
                                 !.data = @ \ Fragments({c})], c)
    /\ UNCHANGED <<tor, index, saved, doubt, lapses>>

Completed(r) == r.todo = {} /\ r.have # {}

\* TorrentControl::stop: saveDownloads, clearDownloads
Stop ==
    /\ m.running
    /\ saved' = m.current
    /\ m' = [m EXCEPT !.current = {}, !.running = FALSE]
    /\ UNCHANGED <<tor, index, used, doubt, lapses>>

\* Mutant of DownloaderChecked: lost chunks are not put in the list.
DownloaderCheckedKeeps(r, ok) == [r EXCEPT !.current = @ \ ok, !.selector = @ \ ok]

\* Downloader::dataChecked and ChunkSelector::dataChecked
DownloaderChecked(r, ok) ==
    [r EXCEPT !.current = @ \ ok, !.selector = (@ \ ok) \cup (Chunks \ ok)]

\* recreateMissingFiles and dndMissingFiles, with saveIndexFile
RecreateMissing(r) ==
    LET s == ResetAll(r, UNION {Span(f) : f \in r.gone})
    IN  [s EXCEPT !.gone = {}]
DndMissing(r) ==
    LET dnd(s, f) == IF f \in r.gone
                     THEN SetDoNotDownload(ResetAll(s, Span(f)), f, TRUE) ELSE s
    IN  FoldLeft(dnd, r, [f \in Files |-> f])

\* Downloader::loadDownloads
LoadDownloads(r) ==
    [r EXCEPT !.running = TRUE,
              !.current = IF Completed(r) THEN {}
                          ELSE {c \in saved \ r.onDisk : r.prio[c] # EXCLUDED}]

\* TorrentControl::start.  With files missing the user has them recreated or
\* excludes them (or cancels, and nothing happens).
Start ==
    /\ ~m.running
    /\ IF m.gone = {}
       THEN m' = LoadDownloads(m) /\ UNCHANGED <<index, doubt, lapses>>
       ELSE \E r \in {RecreateMissing(m), DndMissing(m)} :
              /\ m' = LoadDownloads(DownloaderChecked(r, r.have))
              /\ index' = r.onDisk
              /\ doubt' = (doubt \cap r.have) \cup Suspect(index', r)
              /\ unlisted' = {} /\ missed' = {}
    /\ UNCHANGED <<tor, saved, used>>

\* saveIndexFile throws: the torrent is not started, and neither the downloader nor
\* the selector is told of the chunks that were reset.
StartIndexFails ==
    /\ ~m.running /\ m.gone # {} /\ Spend("faults", MaxFaults)
    /\ \E r \in {RecreateMissing(m), DndMissing(m)} :
          /\ m' = r
          /\ index' \in FailedSave(r.onDisk)
          /\ doubt' = doubt \cup Suspect(index', r)
          /\ unlisted' = r.onDisk \ index'
          /\ missed' = (missed \cup (m.have \ r.have)) \ r.selector
    /\ UNCHANGED <<tor, saved>>

\* MultiDataChecker::loadChunk: a chunk in one file is read only when the file
\* is downloaded, a shared one also from dnd files
ReadsRight(c) ==
    /\ Fragments({c}) \subseteq m.data
    /\ Cardinality(FilesOf(c)) = 1 => \A f \in FilesOf(c) : m.file[f] # EXCLUDED

\* afterDataCheck: Downloader::dataChecked, then ChunkManager::dataChecked
Checked(r, ok) ==
    LET found == ok \ r.have
        lost == r.have \ ok
    IN  [DownloaderChecked(r, ok) EXCEPT
           !.have = (@ \cup found) \ lost,
           !.onDisk = (@ \cup found) \ lost,
           !.todo = (@ \ found) \cup (lost \ (r.onlySeed \cup r.excluded))]

DataCheck ==
    /\ ~m.running
    /\ m' = Checked(m, {c \in Chunks : ReadsRight(c)})
    /\ index' = m'.onDisk /\ doubt' = Suspect(index', m')
    /\ unlisted' = {} /\ missed' = {}
    /\ UNCHANGED <<tor, saved, used>>

\* saveIndexFile throws, which is caught and logged: what was found stays found.
DataCheckIndexFails ==
    /\ ~m.running /\ Spend("faults", MaxFaults)
    /\ m' = Checked(m, {c \in Chunks : ReadsRight(c)})
    /\ index' \in FailedSave(m'.onDisk) /\ doubt' = Suspect(index', m')
    /\ unlisted' = m'.onDisk \ index' /\ missed' = {}
    /\ UNCHANGED <<tor, saved>>

\* Somebody else deletes a data file while the torrent is stopped
RemoveFile(f) ==
    /\ ~m.running /\ f \notin m.gone /\ m.file[f] # EXCLUDED /\ Spend("faults", MaxFaults)
    /\ m' = [m EXCEPT !.gone = @ \cup {f}, !.data = {fc \in @ : fc[1] # f}]
    /\ doubt' = doubt \cup Span(f)
    /\ UNCHANGED <<tor, index, saved, lapses>>

\* The program ends, in good order after Stop or by a crash between two calls, and
\* starts again; it is a crash within a save of the index if that has just failed.
\* savePriorityInfo has written the priorities whenever one was changed.
Restart ==
    /\ m' = Load(m.file, index, m.data, m.gone)
    /\ unlisted' = {} /\ missed' = {}
    /\ UNCHANGED <<tor, index, saved, used, doubt>>

Next ==
    \/ \E f \in Files, p \in Offered : SetFilePriority(f, p)
    \/ \E c \in Chunks : Select(c)
    \/ \E c \in Chunks : Finished(c)
    \/ \E c \in Chunks : FinishedIndexFails(c)
    \/ \E c \in Chunks : FinishedBad(c)
    \/ \E f \in Files : RemoveFile(f)
    \/ Stop
    \/ Start
    \/ StartIndexFails
    \/ DataCheck
    \/ DataCheckIndexFails
    \/ Restart

\* The timer keeps asking for work while the torrent runs, and peers answer
Fairness ==
    \A c \in 0 .. NumChunks - 1 : WF_vars(Select(c) \/ Finished(c))

Spec == Init /\ [][Next]_vars
FairSpec == Spec /\ Fairness

-----------------------------------------------------------------------------
Counters == [sets : 0 .. MaxSets, faults : 0 .. MaxFaults]

\* The type invariant.
TypeOK ==
    /\ tor \in Torrents
    /\ m.file \in [Files -> Priorities] /\ m.prio \in [Chunks -> Priorities]
    /\ {m.onDisk, m.have, m.excluded, m.onlySeed, m.todo, m.selector, m.current,
        index, saved, doubt, unlisted, missed} \subseteq SUBSET Chunks
    /\ m.data \subseteq Fragments(Chunks) /\ m.gone \subseteq Files
    /\ m.running \in BOOLEAN /\ ~m.loading
    /\ used \in Counters

WantedBy(r, f) == r.file[f] \notin {EXCLUDED, ONLY_SEED}
Wanted(r) == {c \in Chunks : \E f \in FilesOf(c) : WantedBy(r, f)}

\* What is still to do is exactly what a file that is to be downloaded needs
\* and the torrent does not have: neither a chunk forgotten (the torrent would
\* report to be complete) nor one nobody wants (it never would).
TodoExact == m.todo = Wanted(m) \ m.have

\* A chunk had and marked as on disk is listed in the index file, so that a crash
\* loses none of them, but for those a save that failed left out: dataChecked goes
\* on with them as if it had not, and no later download lists them again.
HadIndexed == m.have \cap m.onDisk \subseteq index \cup unlisted

\* A chunk the torrent has, and offers to its peers, is whole on disk, split
\* over the data files and the dnd files, unless its data was deleted behind
\* the program's back or the index listed it after it was reset.
HaveIsReal == \A c \in m.have \ doubt : Fragments({c}) \subseteq m.data

\* A chunk has the highest priority of the files it lies in, whatever the order
\* in which the priorities were set or read back (preview apart).
PriorityHighest ==
    \A c \in Chunks :
      m.prio[c] = PREVIEW \/ m.prio[c] = Max({m.file[f] : f \in FilesOf(c)})

\* Changing the priority of one file never loses a chunk that another file
\* needs: the comment of resetBorderChunk, "This file needs to be downloaded,
\* so we can't reset the chunk".
NeededKept ==
    [][\A g \in Files : (\E p \in Offered : SetFilePriority(g, p)) =>
         \A c \in m.have \ m'.have :
            \A f \in FilesOf(c) \ {g} : m.file[f] = EXCLUDED]_vars

\* A torrent that is left running gets all it has to do, in spite of bad chunks,
\* except what a start that failed has reset: the selector has erased some of it, and
\* never hears of it before the program is started again.
RunsToCompletion == <>[](m.running) => <>(m.todo \subseteq missed)
=============================================================================
