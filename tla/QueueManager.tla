---------------------------- MODULE QueueManager ----------------------------
(***************************************************************************)
(* Which torrents run: KTorrent's QueueManager with the start and stop of  *)
(* a TorrentControl and its JobQueue.  Everything happens in one thread,   *)
(* and signals are synchronous: stopping a torrent emits torrentStopped,   *)
(* whose slot is orderQueue.                                               *)
(*                                                                         *)
(* Abstractions: the priorities are the order of the list downloads; a     *)
(* torrent has one job at most; the two limits of seeding (ratio, time)    *)
(* are one flag; a question to the user is answered at once, and the       *)
(* policy on low disk space is to start (Forced) or not to.                *)
(***************************************************************************)
EXTENDS Integers, FiniteSetsExt, SequencesExt

CONSTANTS
    Torrents,
    MaxDownloads,   \* max_downloads, 0 for no limit
    MaxSeeds,       \* max_seeds, 0 for no limit
    KeepSeeding,    \* keep_seeding
    Forced,         \* startDownloadsOnLowDiskSpace() = 2
    MaxEvents       \* bound: what users, disks and peers do

ASSUME QueueAssumption ==
    /\ IsFiniteSet(Torrents) /\ {MaxDownloads, MaxSeeds} \subseteq Nat
    /\ {KeepSeeding, Forced} \subseteq BOOLEAN /\ MaxEvents \in Nat

VARIABLES
    m,         \* the program's memory
    events     \* how much of MaxEvents was used

vars == <<m, events>>

(* m has the fields
     tor        at every torrent: run, allowed (qm_can_start), done
                (completed), err (stopped_by_error), io (io_error), over (a limit
                of seeding is reached), job (the running job), restart (of the
                JobQueue), pre (still to be preallocated), broken (its files are
                missing), doomed (delayed_removal)
     downloads  the list, by priority               paused   paused_state
     resume     paused_torrents                     manual   ~enabled()
     ordering                                       low      disk space is low *)

NoJob == "none"
Fresh == [run |-> FALSE, allowed |-> FALSE, done |-> FALSE,
          err |-> FALSE, io |-> FALSE, over |-> FALSE, job |-> NoJob,
          restart |-> FALSE, pre |-> FALSE, broken |-> FALSE, doomed |-> FALSE]

Kind(s, t) == IF s.tor[t].done THEN "seed" ELSE "download"

\* Without a limit there is always room for one torrent more
Limit(kind) ==
    LET max == IF kind = "seed" THEN MaxSeeds ELSE MaxDownloads
    IN  IF max = 0 THEN Cardinality(Torrents) + 1 ELSE max

Listed(s) == ToSet(s.downloads)
Without(seq, S) == FoldLeft(LAMBDA q, t : IF t \in S THEN q ELSE Append(q, t), <<>>, seq)

-----------------------------------------------------------------------------
(* TorrentControl                                                           *)

\* start: not of one that runs or has a job; when files are missing it fails
StartTorrent(s, t) ==
    LET x == s.tor[t]
        y == [x EXCEPT !.err = x.broken, !.io = x.broken]
    IN  CASE x.run \/ x.job # NoJob -> s
          [] ~x.run /\ x.job = NoJob /\ x.broken -> [s EXCEPT !.tor[t] = y]
          [] OTHER ->
               IF x.pre /\ ~x.done
               THEN [s EXCEPT !.tor[t] = [y EXCEPT !.run = TRUE, !.job = "prealloc"]]
               ELSE [s EXCEPT !.tor[t] = [y EXCEPT !.run = TRUE, !.pre = FALSE]]

\* stop, without the signal at its end.  A torrent that is being preallocated is
\* stopped by a pause alone (PauseOne): all other callers see its job and let it be.
StopTorrent(s, t) == [s EXCEPT !.tor[t].run = FALSE]

\* setAllowedToStart
Allow(s, t, on) ==
    [s EXCEPT !.tor[t].allowed = on, !.tor[t].err = @ /\ ~on]

-----------------------------------------------------------------------------
(* QueueManager                                                             *)

\* startInternal: whether it tries to start, and is then START_OK, come what may
Refused(s, t) ==
    LET x == s.tor[t]
    IN  \/ ~x.done /\ s.low /\ ~Forced
        \/ x.done /\ x.over /\ s.manual
StartInternal(s, t) == IF Refused(s, t) THEN s ELSE StartTorrent(s, t)

\* What orderQueue does to one torrent of a queue, when n of it run already
OrderOne(st, t) ==
    LET s == st.s
    IN  IF st.n < Limit(Kind(s, t))
        THEN [s |-> IF s.tor[t].run THEN s ELSE StartInternal(s, t),
              n |-> IF ~s.tor[t].run /\ Refused(s, t) THEN st.n ELSE st.n + 1]
        ELSE [s |-> IF s.tor[t].run THEN StopTorrent(s, t) ELSE s, n |-> st.n]

\* mutant: the queue starts what it may not start
EligibleAll(s, t) ==
    LET x == s.tor[t]
    IN  ~x.err /\ x.job = NoJob /\ (x.done => ~x.over)

Eligible(s, t) ==
    LET x == s.tor[t]
    IN  /\ x.allowed /\ ~x.err /\ x.job = NoJob
        /\ x.done => ~x.over

\* One round of the loops of orderQueue: when the queue of a kind was made, from s,
\* t was put into it or not
OrderNext(s, kind, t, st) ==
    IF Eligible(s, t) /\ Kind(s, t) = kind THEN OrderOne(st, t) ELSE st

OrderQueue(s) ==
    LET pass(u, kind) == FoldLeft(LAMBDA st, t : OrderNext(s, kind, t, st),
                                  [s |-> u, n |-> 0], s.downloads).s
    IN  IF s.ordering \/ s.manual \/ s.paused THEN s
        ELSE pass(pass(s, "download"), "seed")

\* stop of a torrent, with the signal torrentStopped
Stop(s, t) == OrderQueue(StopTorrent(s, t))

\* start(tc)
QMStart(s, t) ==
    LET u == Allow(s, t, TRUE)
    IN  CASE s.manual -> StartInternal(s, t)
          [] ~s.manual /\ (s.tor[t].job # NoJob \/ (~s.tor[t].done /\ s.low /\ ~Forced)) -> u
          [] OTHER -> OrderQueue(u)

\* stop(tc)
QMStop(s, t) ==
    LET u == IF s.manual THEN s ELSE Allow(s, t, FALSE)
    IN  CASE s.tor[t].job # NoJob -> s
          [] s.tor[t].job = NoJob /\ s.tor[t].run -> Stop(u, t)
          [] OTHER -> u

\* start(todo): yes are the torrents the user wants in spite of a limit
QMStartList(s, S, yes) ==
    LET spaced == {t \in S : s.tor[t].done \/ ~s.low \/ (Forced /\ t \in yes)}
        todo == {t \in spaced : s.tor[t].done /\ s.tor[t].over => t \in yes}
        reset == [s EXCEPT !.tor = [t \in Torrents |->
                    [s.tor[t] EXCEPT !.over = @ /\ ~(t \in todo /\ s.tor[t].done)]]]
        idle == {t \in todo : ~s.tor[t].run /\ s.tor[t].job = NoJob}
        begin(t, u) == IF s.manual THEN StartTorrent(u, t) ELSE Allow(u, t, TRUE)
    IN  IF todo = {} THEN s ELSE OrderQueue(FoldSet(begin, reset, idle))

QMStartAll(s, yes) ==
    IF s.manual THEN QMStartList(s, Listed(s), yes)
    ELSE OrderQueue(FoldSet(LAMBDA t, u : Allow(u, t, TRUE), s, Listed(s)))

\* stop(todo)
QMStopList(s, S) ==
    LET u == FoldSet(LAMBDA t, v : QMStop(v, t), [s EXCEPT !.ordering = TRUE], S)
    IN  OrderQueue([u EXCEPT !.ordering = FALSE])

\* torrentFinished, of Core and of QueueManager: without keep_seeding the torrent
\* is stopped by both, and only then is the queue told that it may not start
Finished(s, t) ==
    LET u == Stop(s, t)
        v == Stop(IF s.manual THEN u ELSE Allow(u, t, FALSE), t)
    IN  OrderQueue(IF KeepSeeding THEN s ELSE v)

\* onLowDiskSpace: the torrent is stopped first, then barred
LowDiskSpace(s, t) ==
    LET u == Stop(s, t)
    IN  IF s.manual THEN u ELSE OrderQueue(Allow(u, t, FALSE))

Resume(s) ==
    LET u == FoldSet(LAMBDA t, v : StartTorrent(v, t), [s EXCEPT !.paused = FALSE],
                     s.resume)
    IN  OrderQueue([u EXCEPT !.resume = {}])

\* checkStalledTorrents: they go to the end of the list if others follow them
Stalled(s, S) ==
    LET others == Without(s.downloads, S)
        stalled == Without(s.downloads, Torrents \ S)
        follows == \E i, j \in DOMAIN s.downloads :
                      i < j /\ s.downloads[i] \in S /\ s.downloads[j] \notin S
    IN  IF s.manual \/ ~follows THEN s
        ELSE OrderQueue([s EXCEPT !.downloads = others \o stalled])

-----------------------------------------------------------------------------
(* Core and the JobQueue                                                    *)

\* Core::remove, put off while a job runs
\* mutant: paused_torrents keeps the torrent
CoreRemoveKeeps(s, t) ==
    LET u == QMStop(s, t)
    IN  IF s.tor[t].job # NoJob THEN [s EXCEPT !.tor[t].doomed = TRUE]
        ELSE OrderQueue([u EXCEPT !.downloads = Without(@, {t}),
                                  !.tor[t] = Fresh])

CoreRemove(s, t) ==
    LET u == QMStop(s, t)
    IN  IF s.tor[t].job # NoJob THEN [s EXCEPT !.tor[t].doomed = TRUE]
        ELSE OrderQueue([u EXCEPT !.downloads = Without(@, {t}),
                                  !.resume = @ \ {t}, !.tor[t] = Fresh])

\* Core::init, and torrentAdded: a new torrent goes to the end of the list; its
\* data is checked when there is some
Added(s, t, start, existing) ==
    LET u == [s EXCEPT !.downloads = Append(@, t),
                       !.tor[t] = [Fresh EXCEPT !.pre = TRUE,
                                     !.job = IF existing THEN "check" ELSE NoJob]]
    IN  CASE s.manual -> IF start THEN QMStart(u, t) ELSE u
          [] OTHER -> OrderQueue(Allow(u, t, start))

\* JobQueue::enqueue of a job that needs the torrent stopped
\* mutant: its place in the queue is not filled
EnqueueQuiet(s, t) ==
    LET u == [s EXCEPT !.tor[t].job = "check"]
    IN  IF s.tor[t].run THEN [StopTorrent(u, t) EXCEPT !.tor[t].restart = TRUE] ELSE u

Enqueue(s, t) ==
    LET u == [s EXCEPT !.tor[t].job = "check"]
    IN  IF s.tor[t].run THEN [Stop(u, t) EXCEPT !.tor[t].restart = TRUE] ELSE u

\* jobDone and allJobsDone; a removal that was put off follows
JobDone(s, t) ==
    LET u == [s EXCEPT !.tor[t].job = NoJob]
        v == OrderQueue(IF s.tor[t].restart THEN StartTorrent(u, t) ELSE u)
        w == [v EXCEPT !.tor[t].restart = FALSE]
    IN  IF s.tor[t].doomed THEN CoreRemove(w, t) ELSE w

\* A pause stops a torrent.  That kills its preallocation, which ends the job: the
\* removal that was put off takes place in the middle of the pause.
PauseOne(s, t) ==
    StopTorrent(IF s.tor[t].job = "prealloc" THEN JobDone(s, t) ELSE s, t)

Pause(s) ==
    LET running == {t \in Listed(s) : s.tor[t].run}
    IN  FoldSet(LAMBDA t, u : PauseOne(u, t),
                [s EXCEPT !.paused = TRUE, !.resume = @ \cup running], running)

\* The end of a data check, which may find chunks more or less
CheckDone(s, t, done) == JobDone([s EXCEPT !.tor[t].done = done], t)

\* preallocFinished: the start goes on, or an error is noted
PreallocDone(s, t, ok) ==
    JobDone(IF ok THEN [s EXCEPT !.tor[t].pre = FALSE]
            ELSE [s EXCEPT !.tor[t].err = TRUE, !.tor[t].io = TRUE], t)

-----------------------------------------------------------------------------
(* Steps                                                                    *)

\* The torrents of L were found, in this order; those of D are complete
LoadedFrom(L, D, order) ==
    [tor |-> [t \in Torrents |->
                IF t \in L
                THEN [Fresh EXCEPT !.allowed = TRUE, !.done = (t \in D), !.pre = (t \notin D)]
                ELSE Fresh],
     downloads |-> order, paused |-> FALSE, resume |-> {}, manual |-> FALSE,
     ordering |-> FALSE, low |-> FALSE]

Loaded == UNION {{LoadedFrom(L, D, order) : D \in SUBSET L, order \in SetToSeqs(L)} :
                 L \in {Torrents, {}}}

\* Core::loadTorrents
Init == m \in {OrderQueue(s) : s \in Loaded} /\ events = 0

Event(s) == events < MaxEvents /\ events' = events + 1 /\ m' = s
Follows(s) == UNCHANGED events /\ m' = s

\* What users do
UserStarts(t) == t \in Listed(m) /\ Event(QMStart(m, t))
UserStops(t) == t \in Listed(m) /\ Event(QMStop(m, t))
UserStartsSome ==
    \E S \in SUBSET Listed(m) : \E yes \in SUBSET S :
        Cardinality(S) > 1 /\ Event(QMStartList(m, S, yes))
UserStartsAll == \E yes \in SUBSET Listed(m) : Event(QMStartAll(m, yes))
UserStopsSome ==
    \E S \in SUBSET Listed(m) : Cardinality(S) > 1 /\ Event(QMStopList(m, S))
UserPauses == ~m.paused /\ Event(Pause(m))
UserResumes == m.paused /\ Event(Resume(m))
UserMoves ==
    \E order \in SetToSeqs(Listed(m)) : Event(OrderQueue([m EXCEPT !.downloads = order]))
UserSwitches == Event(OrderQueue([m EXCEPT !.manual = ~@]))
UserAdds(t) ==
    t \notin Listed(m) /\ \E start, existing \in BOOLEAN : Event(Added(m, t, start, existing))
UserRemoves(t) == t \in Listed(m) /\ Event(CoreRemove(m, t))
UserChecks(t) == t \in Listed(m) /\ m.tor[t].job = NoJob /\ Event(Enqueue(m, t))

\* What TorrentControl::update finds, of a torrent that runs and has no job
Updated(t) == m.tor[t].run /\ m.tor[t].job = NoJob
Finishes(t) ==
    /\ Updated(t) /\ ~m.tor[t].io /\ ~m.tor[t].done
    /\ Event(Finished([m EXCEPT !.tor[t].done = TRUE], t))
WantsMore(t) ==
    /\ Updated(t) /\ ~m.tor[t].io /\ m.tor[t].done
    /\ Event(OrderQueue([m EXCEPT !.tor[t].done = FALSE]))
ReachesLimit(t) ==
    /\ Updated(t) /\ ~m.tor[t].io /\ m.tor[t].done
    /\ Event(Stop([m EXCEPT !.tor[t].over = TRUE], t))
RunsOutOfSpace(t) ==
    /\ Updated(t) /\ ~m.tor[t].io /\ ~m.tor[t].done /\ m.low
    /\ Event(LowDiskSpace(m, t))
Stalls(S) == S # {} /\ (\A t \in S : m.tor[t].run) /\ Event(Stalled(m, S))
FailsIO(t) == Updated(t) /\ Event([m EXCEPT !.tor[t].err = TRUE, !.tor[t].io = TRUE])
StopsByError(t) == Updated(t) /\ m.tor[t].io /\ Follows(Stop(m, t))

JobEnds(t) ==
    \/ m.tor[t].job = "check" /\ \E done \in BOOLEAN : Follows(CheckDone(m, t, done))
    \/ m.tor[t].job = "prealloc" /\ \E ok \in BOOLEAN : Follows(PreallocDone(m, t, ok))

DiskFills == ~m.low /\ Event([m EXCEPT !.low = TRUE])
FilesVanish(t) == t \in Listed(m) /\ ~m.tor[t].broken /\ Event([m EXCEPT !.tor[t].broken = TRUE])

Next ==
    \/ \E t \in Torrents :
         \/ UserStarts(t)
         \/ UserStops(t)
         \/ UserAdds(t)
         \/ UserRemoves(t)
         \/ UserChecks(t)
         \/ Finishes(t)
         \/ WantsMore(t)
         \/ ReachesLimit(t)
         \/ RunsOutOfSpace(t)
         \/ FailsIO(t)
         \/ StopsByError(t)
         \/ JobEnds(t)
         \/ FilesVanish(t)
    \/ UserStartsSome
    \/ UserStartsAll
    \/ UserStopsSome
    \/ UserPauses
    \/ UserResumes
    \/ UserMoves
    \/ UserSwitches
    \/ \E S \in SUBSET Torrents : Stalls(S)
    \/ DiskFills

Spec == Init /\ [][Next]_vars

-----------------------------------------------------------------------------
Torrent == [run : BOOLEAN, allowed : BOOLEAN, done : BOOLEAN,
            err : BOOLEAN, io : BOOLEAN, over : BOOLEAN,
            job : {NoJob, "check", "prealloc"}, restart : BOOLEAN, pre : BOOLEAN,
            broken : BOOLEAN, doomed : BOOLEAN]

\* The type invariant; what is kept of a torrent does not outlive it.
TypeOK ==
    /\ m.tor \in [Torrents -> Torrent]
    /\ m.downloads \in Seq(Torrents) /\ IsInjective(m.downloads)
    /\ m.resume \subseteq Listed(m)
    /\ {m.paused, m.manual, m.low} \subseteq BOOLEAN /\ m.ordering = FALSE
    /\ \A t \in Torrents \ Listed(m) : m.tor[t] = Fresh
    /\ events \in 0 .. MaxEvents

Before(s, t) == {s.downloads[i] : i \in {j \in DOMAIN s.downloads :
                    \E k \in DOMAIN s.downloads : s.downloads[k] = t /\ j < k}}
Rivals(t) == {u \in Before(m, t) : Kind(m, u) = Kind(m, t)}
Settled == ~m.paused /\ ~m.manual /\ \A t \in Torrents : ~(m.tor[t].run /\ m.tor[t].io)

\* Whatever happened, the queue is in order after it: of the torrents that may run,
\* one runs exactly when fewer than the limit run before it in the list.  Excused
\* are downloads when disk space is low, for then start returns before the queue
\* is put in order, and a torrent that waits after one whose start failed, for the
\* failed start was counted.
QueueInOrder ==
    Settled => \A t \in Listed(m) : Eligible(m, t) =>
        \/ Refused(m, t)
        \/ IF m.tor[t].run
           THEN Cardinality({u \in Rivals(t) : m.tor[u].run /\ Eligible(m, u)})
                  < Limit(Kind(m, t))
           ELSE Cardinality({u \in Rivals(t) : m.tor[u].run \/ m.tor[u].io})
                  >= Limit(Kind(m, t))

\* Against the will of the user, who has stopped it, a torrent is started by nothing
\* but the end of a pause or of a job that had stopped it.
StartedAsAllowed ==
    [][\A t \in Torrents :
          ~m.tor[t].run /\ m'.tor[t].run /\ ~m'.manual =>
              m'.tor[t].allowed \/ t \in m.resume \/ m.tor[t].restart]_vars
=============================================================================
