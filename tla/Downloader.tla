----------------------------- MODULE Downloader -----------------------------
(***************************************************************************)
(* How one torrent gets its chunks from peers and from a web seed: the     *)
(* Downloader, its ChunkDownloads, the PeerDownloader at every peer and    *)
(* the WebSeed.  A packet, and each part of the timer's update, is handled *)
(* in one go by the one thread there is; calls and signals between the     *)
(* objects happen inside it, so that an action passes the record m through *)
(* the operations it is made of.                                           *)
(*                                                                         *)
(* Abstractions: a piece is right or wrong; all chunks have one priority;  *)
(* rates, which the code turns into limits, are the constants MaxReqs,     *)
(* MaxWait and MaxGrab; times are left out, a request may be late whenever *)
(* it is outstanding.                                                      *)
(***************************************************************************)
EXTENDS Integers, FiniteSetsExt, SequencesExt

CONSTANTS
    NumChunks,    \* chunks of the torrent
    NumPieces,    \* pieces of a chunk
    Peers,        \* the peers that are connected
    Has,          \* the chunks each peer has
    FastPeers,    \* the peers with the fast extensions
    BadPeers,     \* the peers that may send a wrong piece
    MaxReqs,      \* requests sent to a peer and not answered: max_reqs
    MaxWait,      \* requests that wait to be sent: max_wait_queue_size
    MaxGrab,      \* getMaxChunkDownloads
    WebSeeds,     \* whether there is a web seed
    WebRange,     \* webseed_range_size
    WebIsRight,   \* whether every byte that comes from it is stored where it
                  \* belongs: it sends what is right and, in a torrent of several
                  \* files, closes no connection inside a chunk (WebCloses)
    MaxFaults     \* bound: chokes, late, rejected and wrong pieces, lost connections

Chunks == 0 .. NumChunks - 1
Pieces == 0 .. NumPieces - 1
Earlier == "earlier"   \* the provider of pieces got in an earlier session

ASSUME DownloaderAssumption ==
    /\ {NumChunks, NumPieces, MaxReqs, MaxWait, MaxGrab, WebRange} \subseteq Nat \ {0}
    /\ Has \in [Peers -> SUBSET Chunks] /\ Earlier \notin Peers
    /\ FastPeers \cup BadPeers \subseteq Peers /\ IsFiniteSet(Peers)
    /\ {WebSeeds, WebIsRight} \subseteq BOOLEAN /\ MaxFaults \in Nat

VARIABLES
    m,         \* the program's memory, and the pieces on disk
    wire,      \* requests sent to a peer that it has not answered
    liars,     \* the peers that have sent a wrong piece (history)
    faults     \* how much of MaxFaults was used

vars == <<m, wire, liars, faults>>

(* m has the fields
     have     the chunks had                      disk    content of every piece
     cur      current_chunks: a ChunkDownload each, with got (pieces), hashed
              (num_pieces_in_hash) and right (the hash so far), from
              (piece_providers), pds (pdown) and ds (dstatus)
     peer     at every peer: state, choked, grabbed, nearly (nearly_done),
              reqs, wait (wait_queue), and sent: what this action sends
     list     piece_downloaders                   banned  by AccessManager
     web      first, last, cur, n (bytes_of_cur_chunk, in pieces) and failed
              (num_failures)
     webch    webseeds_chunks                                              *)

Idle == [first |-> NumChunks + 1, last |-> NumChunks + 1, cur |-> 0, n |-> 0,
         failed |-> 0]
Busy(s) == s.web.first < NumChunks
InCurrentRange(s, c) == s.web.first <= c /\ c <= s.web.last
Completed(s) == s.have = Chunks
Without(seq, x) == FoldLeft(LAMBDA q, y : IF y = x THEN q ELSE Append(q, y), <<>>, seq)
Downloads(s) == DOMAIN s.cur
Uses(s, p) == {c \in Downloads(s) : Contains(s.cur[c].pds, p)}

-----------------------------------------------------------------------------
(* PeerDownloader                                                           *)

\* update: requests that wait are sent while there is room
UpdatePD(s, p) ==
    LET pd == s.peer[p]
        room == MaxReqs - Cardinality(pd.reqs)
        k == Max({0, Min({room, Len(pd.wait)})})
        go == ToSet(SubSeq(pd.wait, 1, k))
    IN  [s EXCEPT !.peer[p].reqs = @ \cup go, !.peer[p].sent = @ \cup go,
                  !.peer[p].wait = SubSeq(@, k + 1, Len(@))]

Download(s, p, r) == UpdatePD([s EXCEPT !.peer[p].wait = Append(@, r)], p)

CancelRequest(s, p, r) ==
    [s EXCEPT !.peer[p].wait = Without(@, r),
              !.peer[p].reqs = @ \ {r}]

Release(s, p) == [s EXCEPT !.peer[p].grabbed = Max({0, @ - 1})]

CanDownloadChunk(s, p) ==
    LET pd == s.peer[p]
    IN  /\ pd.grabbed < MaxGrab \/ (pd.grabbed = 1 /\ pd.nearly)
        /\ Len(pd.wait) < MaxWait

-----------------------------------------------------------------------------
(* ChunkDownload                                                            *)

NewDownload == [got |-> {}, hashed |-> 0, right |-> TRUE, from |-> {},
                pds |-> <<>>, ds |-> [p \in Peers |-> {}]]

\* bestPiece: a missing piece that was not asked of this peer, and of the fewest
\* others; the first of them
AskedOf(cd, i) == Cardinality({p \in Peers : i \in cd.ds[p]})
Candidates(cd, p) == Pieces \ (cd.got \cup cd.ds[p])
BestPiece(cd, p) ==
    LET least == Min({AskedOf(cd, i) : i \in Candidates(cd, p)})
    IN  Min({i \in Candidates(cd, p) : AskedOf(cd, i) = least})

\* sendRequest, and nothing where the code skips the peer
SendRequest(s, c, p) ==
    LET cd == s.cur[c]
        i == BestPiece(cd, p)
        t == [Download(s, p, <<c, i>>) EXCEPT !.cur[c].ds[p] = @ \cup {i}]
    IN  IF s.peer[p].choked \/ Len(s.peer[p].wait) >= MaxWait \/ Candidates(cd, p) = {}
        THEN s
        ELSE IF NumPieces - Cardinality(cd.got) = 1
             THEN [t EXCEPT !.peer[p].nearly = TRUE] ELSE t

\* sendRequests: rounds over the peers, one request each, while any can be sent
Round(s, c, pds) == FoldLeft(LAMBDA t, p : SendRequest(t, c, p), s, pds)
SendRequests(s, c) ==
    FoldLeft(LAMBDA t, n : Round(t, c, s.cur[c].pds), s, [n \in 1 .. NumPieces |-> n])

\* mutant: forgets the requests and does not cancel them
SendCancelsForget(s, c, p) == [s EXCEPT !.cur[c].ds[p] = {}]

SendCancels(s, c, p) ==
    [FoldSet(LAMBDA i, t : CancelRequest(t, p, <<c, i>>), s, s.cur[c].ds[p])
       EXCEPT !.cur[c].ds[p] = {}]

\* killed: the peer no longer works on the chunk
Drop(s, c, p) ==
    [s EXCEPT !.cur[c].ds[p] = {},
              !.cur[c].pds = Without(@, p)]

\* mutant: the peers are dropped and not released
ReleaseAllDrop(s, c) ==
    FoldLeft(LAMBDA t, p : Drop(SendCancels(t, c, p), c, p), s, s.cur[c].pds)

ReleaseAll(s, c) ==
    FoldLeft(LAMBDA t, p : Drop(SendCancels(Release(t, p), c, p), c, p),
             s, s.cur[c].pds)

CancelAll(s, c) == FoldLeft(LAMBDA t, p : SendCancels(t, c, p), s, s.cur[c].pds)

\* assign, of a peer that does not work on the chunk yet
Assign(s, c, p) ==
    SendRequests([s EXCEPT !.peer[p].grabbed = @ + 1,
                           !.cur[c].pds = Append(@, p)], c)

\* notDownloaded: rejected or late, the peer is released either way (the count of
\* timeouts is one by then and the count of peers never zero)
\* (mutant: it is ignored)
NotDownloadedIgnored(s, c, p) == s

NotDownloaded(s, c, p) ==
    IF c \notin Downloads(s) \/ p \notin ToSet(s.cur[c].pds) THEN s
    ELSE SendRequests(Drop(SendCancels(Release(s, p), c, p), c, p), c)

\* mutant: the last pieces alone decide
UpdateHashLast(s, c) ==
    LET cd == s.cur[c]
        n == Max({k \in 0 .. NumPieces : \A i \in 0 .. k - 1 : i \in cd.got})
    IN  [s EXCEPT !.cur[c].hashed = n,
                  !.cur[c].right = \A i \in cd.hashed .. n - 1 : s.disk[c][i] = "good"]

\* updateHash: pieces are hashed in order, as they are stored at that time
UpdateHash(s, c) ==
    LET cd == s.cur[c]
        n == Max({k \in 0 .. NumPieces : \A i \in 0 .. k - 1 : i \in cd.got})
    IN  [s EXCEPT !.cur[c].hashed = n,
                  !.cur[c].right = @ /\ \A i \in cd.hashed .. n - 1 :
                                            s.disk[c][i] = "good"]

\* endgameCancel: the piece is no longer asked of anyone
CancelPiece(s, c, i, p) ==
    IF i \in s.cur[c].ds[p]
    THEN [CancelRequest(s, p, <<c, i>>) EXCEPT !.cur[c].ds[p] = @ \ {i}] ELSE s
EndgameCancel(s, c, i) ==
    FoldLeft(LAMBDA t, p : CancelPiece(t, c, i, p), s, s.cur[c].pds)

\* piece, of one that is not there yet
StorePiece(s, c, p, i, q) ==
    LET t == [s EXCEPT !.cur[c].ds[p] = @ \ {i}, !.disk[c][i] = q,
                       !.cur[c].got = @ \cup {i}, !.cur[c].from = @ \cup {p}]
        u == IF Len(t.cur[c].pds) > 1 THEN EndgameCancel(t, c, i) ELSE t
        v == UpdateHash(u, c)
    IN  IF v.cur[c].got = Pieces THEN ReleaseAll(v, c) ELSE SendRequests(v, c)

-----------------------------------------------------------------------------
(* Downloader                                                               *)

Forget(s, c) == [s EXCEPT !.cur = [d \in Downloads(s) \ {c} |-> s.cur[d]]]

\* WebSeed::reset, and WebSeed::chunkDownloaded told of a chunk
ResetWeb(s) == [s EXCEPT !.web = Idle, !.webch = {}]
TellWeb(s, c) ==
    IF InCurrentRange(s, c) /\ c >= s.web.cur THEN ResetWeb(s) ELSE s

\* getOnlyDownloader, of a peer that is still there
\* mutant: everyone who sent a piece of the chunk
OnlyDownloaderAny(s, cd) == {p \in Peers : p \in cd.from /\ s.peer[p].state # "gone"}

OnlyDownloader(s, cd) == {p \in Peers : cd.from = {p} /\ s.peer[p].state # "gone"}

\* finished, and the end of pieceReceived
Finish(s, c) ==
    LET cd == s.cur[c]
        t == Forget(s, c)
    IN  IF cd.right
        THEN [TellWeb(t, c) EXCEPT !.have = @ \cup {c}]
        ELSE LET only == OnlyDownloader(s, cd)
             IN  [t EXCEPT !.banned = @ \cup only,
                           !.peer = [p \in Peers |->
                              IF p \in only THEN [t.peer[p] EXCEPT !.state = "killed"]
                              ELSE t.peer[p]]]

PieceReceived(s, p, r, q) ==
    LET c == r[1]
    IN  IF Completed(s) \/ c \notin Downloads(s) \/ r[2] \in s.cur[c].got THEN s
        ELSE LET t == StorePiece(s, c, p, r[2], q)
             IN  IF t.cur[c].got = Pieces THEN Finish(t, c) ELSE t

\* downloadFrom: a download nobody works on, the first new chunk of the selector's
\* list, or another peer's chunk when the peer has nothing else.  "none" if there
\* is nothing to do.
Left(s, c) == NumPieces - Cardinality(s.cur[c].got)
Unattended(s, p) == {c \in Downloads(s) : c \in Has[p] /\ s.cur[c].pds = <<>>}
FirstIn(order, C) == order[Min({i \in DOMAIN order : order[i] \in C})]
ChunkFor(s, p, order) ==
    LET free == Unattended(s, p)
        least == {c \in free : \A d \in free :
                      Left(s, c) < Left(s, d) \/ (Left(s, c) = Left(s, d) /\ c <= d)}
        new == {c \in Has[p] : c \notin s.have \cup Downloads(s)}
        others == {c \in Downloads(s) \cap Has[p] : c \notin Uses(s, p)}
    IN  CASE free # {} -> CHOOSE c \in least : TRUE
          [] free = {} /\ new # {} -> FirstIn(order, new)
          [] free = {} /\ new = {} /\ others # {} /\ s.peer[p].grabbed = 0 ->
               FirstIn(order, others)
          [] OTHER -> NumChunks

DownloadFrom(s, p, order) ==
    LET c == ChunkFor(s, p, order)
        t == IF c \in Downloads(s) THEN s
             ELSE [s EXCEPT !.cur = [d \in Downloads(s) \cup {c} |->
                                       IF d = c THEN NewDownload ELSE s.cur[d]]]
    IN  IF s.peer[p].choked \/ ~CanDownloadChunk(s, p) \/ c = NumChunks THEN s
        ELSE [Assign(t, c, p) EXCEPT !.peer[p].nearly = FALSE]

\* ChunkSelector::selectRange: of the runs of chunks that are missing and that
\* nobody downloads, the start of the first one that is long enough, or else the
\* longest.  A run from chunk 0 that is not long enough is never taken.
SelectRange(free) ==
    LET runs == {ab \in Chunks \X Chunks :
                   /\ ab[1] <= ab[2] /\ ab[1] .. ab[2] \subseteq free
                   /\ ab[1] - 1 \notin free /\ ab[2] + 1 \notin free}
        size(ab) == ab[2] - ab[1] + 1
        long == {ab \in runs : size(ab) >= WebRange}
        short == {ab \in runs : ab[1] > 0}
        first(R) == CHOOSE ab \in R : \A cd \in R : ab[1] <= cd[1]
    IN  IF long # {} THEN <<first(long)[1], first(long)[1] + WebRange - 1>>
        ELSE IF short # {} THEN first({ab \in short : \A cd \in short : size(cd) <= size(ab)})
        ELSE <<NumChunks, NumChunks>>

\* downloadFrom(WebSeed): what peers do not download, in endgame mode anything
StartWeb(s) ==
    LET missing == Chunks \ s.have
        plain == SelectRange(missing \ Downloads(s))
        range == IF plain[1] < NumChunks THEN plain ELSE SelectRange(missing)
    IN  IF ~WebSeeds \/ Busy(s) \/ s.web.failed >= 3 \/ range[1] = NumChunks THEN s
        ELSE [s EXCEPT !.web = [@ EXCEPT !.first = range[1], !.last = range[2],
                                         !.cur = range[1], !.n = 0]]

\* onChunkReady: the web seed has a chunk in full
WebReady(s, c) ==
    LET right == \A i \in Pieces : s.disk[c][i] = "good"
        t == [s EXCEPT !.webch = @ \ {c}]
        u == IF c \in Downloads(t) THEN Forget(CancelAll(t, c), c) ELSE t
    IN  IF right THEN [TellWeb(u, c) EXCEPT !.have = @ \cup {c}] ELSE t

-----------------------------------------------------------------------------
(* Steps                                                                    *)

\* Nothing is downloaded yet, or one chunk in part in an earlier session
RestoredState(s, C, q) ==
    FoldSet(LAMBDA c, t :
              UpdateHash([t EXCEPT
                !.disk[c][0] = q,
                !.cur = [d \in {c} |-> [NewDownload EXCEPT !.got = {0},
                                                           !.from = {Earlier}]]], c),
            s, C)

Empty ==
    [have |-> {}, disk |-> [c \in Chunks |-> [i \in Pieces |-> "none"]],
     cur |-> [c \in {} |-> NewDownload],
     peer |-> [p \in Peers |-> [state |-> "up", choked |-> TRUE, grabbed |-> 0,
                 nearly |-> FALSE, reqs |-> {}, wait |-> <<>>, sent |-> {}]],
     list |-> SetToSeq(Peers), banned |-> {}, web |-> Idle, webch |-> {}]

Init ==
    /\ \E C \in {{}, {NumChunks - 1}}, q \in {"good", "bad"} :
          m = RestoredState(Empty, C, q)
    /\ wire = [p \in Peers |-> {}] /\ liars = {} /\ faults = 0

\* What an action has sent goes on the wire
Become(s, w) ==
    /\ m' = [s EXCEPT !.peer = [p \in Peers |-> [s.peer[p] EXCEPT !.sent = {}]]]
    /\ wire' = [p \in Peers |-> IF s.peer[p].state = "gone" THEN {}
                                ELSE w[p] \cup s.peer[p].sent]

Fault == faults < MaxFaults /\ faults' = faults + 1
Listens(p) == m.peer[p].state = "up"

\* Downloader::update, first part: normalUpdate, which tends the downloads (slow:
\* those that are slow or idle) and then lets each peer take more of them
Tend(s, c, slow) ==
    CASE s.cur[c].pds = <<>> -> s
      [] s.cur[c].pds # <<>> /\ \A p \in ToSet(s.cur[c].pds) : s.peer[p].choked ->
           ReleaseAll(s, c)
      [] OTHER -> IF c \in slow THEN SendRequests(s, c) ELSE s
Tended(slow) == FoldSet(LAMBDA c, s : Tend(s, c, slow), m, Downloads(m))
Tries(s, p, order) ==
    FoldLeft(LAMBDA t, n : DownloadFrom(t, p, order), s, [n \in 1 .. MaxGrab + 1 |-> n])
Updated(slow, order) ==
    StartWeb(FoldLeft(LAMBDA s, p : Tries(s, p, order), Tended(slow), m.list))

NormalUpdate ==
    \E slow \in SUBSET Downloads(m), order \in SetToSeqs(Chunks) :
        /\ ~Completed(m)
        /\ Become(Updated(slow, order), wire)
        /\ UNCHANGED <<liars, faults>>

\* Second part: checkTimeouts finds a request that is sixty seconds old.  Bad peers
\* may be late again and again
Timeout(p, r) ==
    LET s == [m EXCEPT !.peer[p].reqs = @ \ {r}]
    IN  /\ ~Completed(m) /\ m.peer[p].state # "gone" /\ r \in m.peer[p].reqs
        /\ IF p \in BadPeers THEN UNCHANGED faults ELSE Fault
        /\ Become(NotDownloaded(s, r[1], p), wire)
        /\ UNCHANGED liars

\* mutant: the count of the chunk's bytes goes on
NextWebChunkCounts(s) == [s EXCEPT !.web.cur = @ + 1, !.web.n = @ + 1]

NextWebChunk(s) == [s EXCEPT !.web.cur = @ + 1, !.web.n = 0]

\* Third part: WebSeed::update with data, a piece at a time (readData, handleData)
WebData(q) ==
    LET c == m.web.cur
        fresh == c \notin m.have
        s == [m EXCEPT !.webch = {c}, !.web.n = @ + 1,
                       !.disk[c][m.web.n] = IF fresh THEN q ELSE @]
        t == NextWebChunk(s)
        u == IF fresh THEN WebReady(t, c) ELSE t
        done == ~Busy(u) \/ u.web.cur > u.web.last \/ Completed(u)
    IN  /\ ~Completed(m) /\ Busy(m)
        /\ IF m.web.n + 1 < NumPieces THEN Become(s, wire)
           ELSE IF done THEN Become(ResetWeb(u), wire)
           ELSE Become([u EXCEPT !.webch = {c + 1}], wire)
        /\ UNCHANGED <<liars, faults>>

\* Third part: the connection is not ok
WebFails ==
    /\ ~Completed(m) /\ Busy(m) /\ Fault
    /\ Become([ResetWeb(m) EXCEPT !.web.failed = m.web.failed + 1], wire)
    /\ UNCHANGED liars

\* Third part: the connection is closed.  WebSeed::download asks for the rest of the
\* range, and continueCurChunk (first = cur, n > 0) for the rest of the chunk.  That
\* is what it does for one file; of several it skips whole ranges, so that what then
\* comes may be stored at a wrong place, which is WebData("bad")
WebCloses ==
    /\ ~Completed(m) /\ Busy(m)
    /\ Become([m EXCEPT !.web.first = m.web.cur,
                        !.webch = IF m.web.n > 0 THEN {m.web.cur} ELSE {}], wire)
    /\ UNCHANGED <<liars, faults>>

Choke(p) ==
    LET s == [m EXCEPT !.peer[p].choked = TRUE]
        asked == {r[1] : r \in m.peer[p].reqs \cup ToSet(m.peer[p].wait)}
        t == FoldSet(LAMBDA c, u : NotDownloaded(u, c, p), s, asked)
    IN  /\ Listens(p) /\ ~m.peer[p].choked /\ Fault
        /\ IF p \in FastPeers THEN Become(s, wire)
           ELSE Become([t EXCEPT !.peer[p].reqs = {}, !.peer[p].wait = <<>>],
                       [wire EXCEPT ![p] = {}])
        /\ UNCHANGED liars

Unchoke(p) ==
    /\ Listens(p) /\ m.peer[p].choked
    /\ Become([m EXCEPT !.peer[p].choked = FALSE], wire)
    /\ UNCHANGED <<liars, faults>>

\* A PIECE packet: PeerDownloader::piece, pieceReceived, PeerDownloader::update
ReceivePiece(p, r, q) ==
    LET s == PieceReceived(CancelRequest(m, p, r), p, r, q)
    IN  /\ Listens(p) /\ r \in wire[p]
        /\ Become(UpdatePD(s, p), [wire EXCEPT ![p] = @ \ {r}])
        /\ IF q = "bad" THEN Fault /\ liars' = liars \cup {p}
           ELSE UNCHANGED <<faults, liars>>

\* A REJECT_REQUEST packet
Reject(p, r) ==
    /\ Listens(p) /\ p \in FastPeers /\ r \in wire[p] /\ r \in m.peer[p].reqs /\ Fault
    /\ Become(NotDownloaded([m EXCEPT !.peer[p].reqs = @ \ {r}], r[1], p),
              [wire EXCEPT ![p] = @ \ {r}])
    /\ UNCHANGED liars

\* A request that was cancelled is not answered, or rejected, which nobody heeds
Unanswered(p, r) ==
    /\ Listens(p) /\ r \in wire[p] \ m.peer[p].reqs
    /\ wire' = [wire EXCEPT ![p] = @ \ {r}]
    /\ UNCHANGED <<m, liars, faults>>

\* The connection breaks; PeerManager::update then removes the peer (onPeerKilled)
Disconnect(p) ==
    /\ Listens(p) /\ p \in BadPeers /\ Fault
    /\ Become([m EXCEPT !.peer[p].state = "killed"], wire)
    /\ UNCHANGED liars

Reap(p) ==
    LET s == FoldSet(LAMBDA c, t : Drop(t, c, p), m, Downloads(m))
    IN  /\ m.peer[p].state = "killed"
        /\ Become([s EXCEPT !.list = Without(@, p),
                            !.peer[p] = [Empty.peer[p] EXCEPT !.state = "gone"]], wire)
        /\ UNCHANGED <<liars, faults>>

Next ==
    \/ NormalUpdate
    \/ \E p \in Peers : \E r \in m.peer[p].reqs : Timeout(p, r)
    \/ \E q \in {"good", "bad"} : (WebIsRight => q = "good") /\ WebData(q)
    \/ WebFails
    \/ WebCloses
    \/ \E p \in Peers : Choke(p)
    \/ \E p \in Peers : Unchoke(p)
    \/ \E p \in Peers : \E r \in wire[p], q \in {"good", "bad"} :
          (q = "bad" => p \in BadPeers) /\ ReceivePiece(p, r, q)
    \/ \E p \in Peers : \E r \in wire[p] : Reject(p, r)
    \/ \E p \in Peers : \E r \in wire[p] : Unanswered(p, r)
    \/ \E p \in Peers : Disconnect(p)
    \/ \E p \in Peers : Reap(p)

Spec == Init /\ [][Next]_vars

\* The timer runs, killed peers are removed, and the peers that are not bad
\* unchoke and answer what was asked of them; what the others do not answer is
\* late at some time.  The conjuncts with []<> are weak fairness with ENABLED
\* written out: TLC evaluates nested definitions again and again under ENABLED.
Honest == Peers \ BadPeers
UpdateChanges ==
    /\ ~Completed(m)
    /\ \E slow \in SUBSET Downloads(m), order \in SetToSeqs(Chunks) :
          Updated(slow, order) # m
Late(p) == \E r \in m.peer[p].reqs : Timeout(p, r)
Answer(p) ==
    \E r \in wire[p] : ReceivePiece(p, r, "good") \/ Unanswered(p, r)
Fairness ==
    /\ []<>~UpdateChanges \/ []<><<NormalUpdate>>_vars
    /\ \A p \in Peers : WF_vars(Reap(p))
    /\ \A p \in Honest :
          /\ WF_vars(Unchoke(p))
          /\ []<>(wire[p] = {}) \/ []<><<Answer(p)>>_vars
    /\ \A p \in BadPeers :
          []<>(m.peer[p].reqs = {} \/ Completed(m)) \/ []<><<Late(p)>>_vars
FairSpec == Spec /\ Fairness

-----------------------------------------------------------------------------
Requests == Chunks \X Pieces
Downloading == [got : SUBSET Pieces, hashed : 0 .. NumPieces, right : BOOLEAN,
                from : SUBSET (Peers \cup {Earlier}), pds : Seq(Peers),
                ds : [Peers -> SUBSET Pieces]]
Connection == [state : {"up", "killed", "gone"}, choked : BOOLEAN,
               grabbed : Nat, nearly : BOOLEAN, reqs : SUBSET Requests,
               wait : Seq(Requests), sent : {{}}]

\* The type invariant.
TypeOK ==
    /\ m.have \subseteq Chunks /\ Downloads(m) \subseteq Chunks
    /\ \A c \in Downloads(m) : m.cur[c] \in Downloading
    /\ m.peer \in [Peers -> Connection] /\ m.list \in Seq(Peers)
    /\ m.disk \in [Chunks -> [Pieces -> {"none", "good", "bad"}]]
    /\ m.webch \subseteq Chunks /\ m.banned \subseteq Peers
    /\ m.web.n \in 0 .. NumPieces - 1 /\ m.web.failed \in Nat
    /\ wire \in [Peers -> SUBSET Requests] /\ liars \subseteq Peers
    /\ faults \in 0 .. MaxFaults

Pending(p) == m.peer[p].reqs \cup ToSet(m.peer[p].wait)

\* A piece that a chunk download believes to have asked of a peer, and still
\* misses, is among that peer's requests: forgotten, it would never be asked
\* again.  And a request is always one that some download knows of.
RequestsTracked ==
    /\ \A c \in Downloads(m) : \A p \in ToSet(m.cur[c].pds) :
          \A i \in m.cur[c].ds[p] \ m.cur[c].got : <<c, i>> \in Pending(p)
    /\ \A p \in Peers : \A r \in Pending(p) :
          /\ r[1] \in Downloads(m) /\ p \in ToSet(m.cur[r[1]].pds)
          /\ r[2] \in m.cur[r[1]].ds[p]

\* The count that limits the chunks a peer works on is the number of downloads
\* that use it: each of them releases it, once.  (Not so with a web seed, for
\* onChunkReady erases a download and releases nobody.)
GrabsExact == \A p \in Peers : m.peer[p].grabbed = Cardinality(Uses(m, p))

\* Only a peer that did send a wrong piece is banned for it, also when a chunk
\* was begun in another session or by several peers.
InnocentNotBanned == m.banned \subseteq liars

\* The download does what ChunkTransfer promises: a chunk is taken only whole and
\* right, and its data is never touched again.
Transfer == INSTANCE ChunkTransfer WITH
              Chunks <- Chunks, Pieces <- Pieces, have <- m.have, disk <- m.disk
TransferPromise == [][Transfer!Next]_(Transfer!vars)

\* Nothing is asked of the peer and requests wait to be: only an answer, or another
\* request, makes PeerDownloader call update.
Starved(p) == m.peer[p].reqs = {} /\ m.peer[p].wait # <<>>

\* With an honest peer that has everything, everything is downloaded in the end,
\* however often peers choke, fail to answer, lie or leave; unless an honest peer is
\* starved for good, which cancelling its last request does to a peer whose limit
\* (max_reqs, 1 as long as the rate is 0) kept others waiting.
AllDownloaded == <>(m.have = Chunks) \/ <>[](\E p \in Honest : Starved(p))
=============================================================================
