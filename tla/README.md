# The cloud drive, modelled and checked

This directory holds TLA+ models of the Echoii cloud drive: the server
(`src/project/cloud/source/echoii`, Java, a REST interface over Hibernate), the
programs that use it, and the torrent client it downloads with
(`src/project/cloud/source/ktorrent-3.3.4`, C++). Each module is a translation of the code it names; TLC
checks it on small instances, TLAPS proves what matters most for all instances.

Paths below are relative to
`src/project/cloud/source/echoii/src/main/java/com/echoii/cloud/platform/`
unless they start with `src/`; `tv/` stands for
`src/project/android/source/Echoii_TV2/src/com/echoii/tv/`, `kt/` for
`src/project/cloud/source/ktorrent-3.3.4/` and `bt/` for its `libbtcore/`.

## 1. Inventory

| part | where | state it keeps | operations |
| --- | --- | --- | --- |
| file store | `manager/FileManager`, `service/impl/FileServiceImpl`, `servlet/UploadServlet`, `jersey/File` | table `File`, contents on the shared disk | create folder, upload, delete, recover, rename, move, copy, listings |
| accounts and sessions | `manager/AuthManager`, `jersey/Auth`, `service/impl/CacheService*` | tables `User`, `UserDetail`; the token cache (Redis or a map) | register, pre-login, login, logout, validation of a token |
| password reset | `manager/EmailManager` | reset code and date in `User` | send a code, verify it, set a password |
| statistics | `manager/UserManager` | counters in `UserDetail` | recompute after an upload, query |
| groups | `manager/GroupManager` and its three services | tables `Group`, `GroupMember`, `GroupFile` | create, apply, join, quit, share a file, publish |
| share links | `manager/ShareManager` | table `ShareLinkFile`, archives on disk | share, cancel, change the code, list, download |
| offline downloads | `manager/OfflineDownloadManager`, `service/KtorrentService` | tables `TorrentTable`, `TorrentFile`; KTorrent's list | submit, list, progress |
| home data centres | `manager/HdcManager`, `jersey/Device` | tables `Hdc`, `HdcBinding`, `HdcFile` | register, login, heartbeat, bind, unbind, accept a binding |
| TV box, login | `tv/DatacenterAuth` | a file with the device's id and token | register or log in at the start |
| TV box, synchronisation | `tv/SyncFiles`, `tv/datacenter/download/*` | a directory, a download thread, three lists | start, stop, download |
| phone client | `src/project/android/source/Echoii2_Client` | what a screen shows | HTTP requests |
| KTorrent, chunks | `bt/diskio/chunkmanager`, `bt/diskio/multifilecache`, `bt/torrent/torrentfile`, `bt/download/chunkselector` | bit sets and priorities of chunks, data files, the index, the saved priorities and downloads | set a file's priority, take, reset, exclude and include a chunk, check the data, load |
| KTorrent, download | `bt/download/*`, `bt/peer/*` | the chunks being downloaded, requests at every peer, a web seed's range | ask, receive, cancel, time out, verify, ban |
| KTorrent, queue | `kt/libktcore/torrent/queuemanager`, `bt/torrent/jobqueue`, `kt/ktorrent/core` | the list of torrents, what each may do, its jobs | start, stop, pause, order, add, remove, check |
| KTorrent, the rest | `bt/dht`, `bt/tracker`, `bt/net`, `kt/plugins`, `kt/ktorrent` | their own | find peers, move bytes, show it |
| media and image servers, libraries | `src/project/cloud/source/*`, `src/project/android/source/library` | their own | vendored |

How they interact. Requests arrive at the Jersey resources (`jersey/*`) or the
servlets on threads of the servlet container. A resource validates the token in
the cache, calls a manager, the manager calls services, and every call of a
service opens a Hibernate session and commits a transaction of its own
(`service/HibernateDao`). There is no transaction around a request, no lock, no
version column and no unique constraint beside the primary keys: the parts share
state through the tables, and any two requests interleave between transactions.
An update is `session.merge` of a whole entity that was read in an earlier
transaction. The TV box is a client of the server and runs its own threads.
KTorrent runs beside the server, which gives it torrents over HTTP and reads the
files it leaves. It works in one thread (its network threads only move bytes),
where signals are synchronous calls: what looks like one step calls through
several objects and comes back to the first.

What is hard in this code, and where the properties aim:

* a check and the write that relies on it are two transactions (names, share
  links, bindings, registrations);
* a merged entity is stale in the columns others wrote meanwhile (a rename undoes
  a delete; a login undoes a password change);
* a request is many transactions and stops in the middle (a failed call, a crash,
  an unknown id in a list);
* contents on the disk and rows in the table are written apart;
* recursions over the folder tree run while the tree changes;
* the token cache writes the value and its expiry separately;
* on the TV box, a switch of the user interface starts and stops a thread
  through plain fields;
* in KTorrent, one fact is kept in several places: a chunk in five bit sets, a list
  and four files; a request at the chunk and at the peer; a running torrent in its
  own state and in the queue's count. Every call must change all of them, and the
  calls nest.

`PROJECT.json` lists every hazard at its line with the properties that cover it.

## 2. Plan

Done, the most important behaviour first: `FileStore` with its abstract
specification `DriveTable`; `HomeCenter`; `TVLogin`, which composes the boxes'
login with `HomeCenter`; `TVSync`; and, of KTorrent, `ChunkManager`, `Downloader`
with its abstract specification `ChunkTransfer`, and `QueueManager`. The modules
to come, in this order:

1. `Sessions`: accounts, the token cache and the reset of a password
   (`AuthManager`, `EmailManager`, `CacheServiceRedisImpl`). State: `User` rows
   and detached copies of them as in `FileStore`, the cache as a function from
   keys to a value and an expiry. Properties: a password that was reset stays
   reset, a token that was logged out is refused, a token expires, an email has
   one account. To prove: types, and that a validated token was issued for that
   user.
2. `OfflineDownload`: two submissions around an external list of torrents.
   Property: a submission records its own torrent's hash.
3. `Groups` and `ShareLinks`: check-then-insert, the three inserts of a new
   group, a merge that brings a cancelled link back.
4. `Statistics`, composed with `FileStore`: when nothing is in flight, the
   counters equal the counts over the table.
5. Incremental listing, over `FileStore` with a clock: a client that polls sees
   every change.

Theorems to come: those of the modules to come, the types of `Sessions` first. Of the
modules that are done every safety property the passing runs check is proved, some of
them under conditions (section 5).

## 3. The modules

| module | models | abstracts from |
| --- | --- | --- |
| `DriveTable` | what the file table promises to all who use it | who changes it, when and why |
| `FileStore` | `FileManager`, `FileServiceImpl`, `UploadServlet`, `HibernateDao` as used there | hashes, paths, sizes, dates, the type of a content |
| `MCFileStore` | the tables TLC starts `FileStore` from | |
| `HomeCenter` | `HdcManager` over `Hdc` and `HdcBinding` | IP addresses, dates, names; `HdcFile` |
| `TVLogin` | `DatacenterAuth` on the boxes, composed with `HomeCenter` | JSON, the MAC address behind the id |
| `TVSync` | `SyncFiles`, `DownloadFilesThread`, `DownloadTask`, `FileUtil` on one box | buffers, progress, JSON |
| `MCTVSync` | the relations between paths TLC starts `TVSync` with | |
| `ChunkManager` | `ChunkManager`, `TorrentFile`, `MultiFileCache`, the lists of `ChunkSelector` and `Downloader` | bytes: a chunk's data is the set of its fragments in files |
| `MCChunkManager` | the torrents TLC starts `ChunkManager` with | |
| `ChunkTransfer` | what downloading promises | peers, requests, order |
| `Downloader` | `Downloader`, `ChunkDownload`, `PeerDownloader`, `WebSeed` | rates and times; a piece is right or wrong |
| `MCDownloader` | which peer has which chunk | |
| `QueueManager` | `QueueManager`, `JobQueue`, the start and stop of `TorrentControl`, `Core` | what a torrent does while it runs |
| `MCQueueManager` | its symmetry | |
| `FileStore_proofs`, `HomeCenter_proofs`, `TVLogin_proofs`, `TVSync_proofs`, `ChunkManager_proofs`, `Downloader_proofs`, `QueueManager_proofs` | the theorems | |
| `FoldFacts` | what a loop keeps, proved once for any body of it; the proofs about KTorrent instantiate it | |

### FileStore

`FileStore` models the table `File`, the contents on the shared disk and the
threads of the servlet container that serve requests about files.

| variable | in the code |
| --- | --- |
| `files` | the table; the row at index k is the k-th inserted (the code uses hashes as ids) |
| `blobs` | how many contents were written to the disk |
| `thread` | for each servlet thread, the request it serves: where it stands (`pc`) and its local variables, the recursion stack of `deleteFileRecursive` included |
| `served`, `faults` | counters for the bounds |

One action is one transaction or one write to the disk, with the local
computation around it. `CreateFolder*` is `FileManager.createFolder`; `Upload*`
is `UploadServlet.doPost` and `fileUpload`; `Delete`, `Recover`, `Lookup`,
`Descend`, `Ascend` and the actions with those prefixes are
`FileManager.delete` and `recover` over the two recursions of
`FileServiceImpl`; `Rename*` is `FileManager.rename`; `Move*` is `move` and
`copy`. `Abort`, `UploadWriteFails`, `UploadInsertFails` are a call that throws,
`Crash` is the server dying and starting again.

`FileStore` implements `DriveTable` (`TablePromise`): the mapping is the identity
on `files` and `blobs`, everything the threads do in between is stuttering. Rows
are added, relabelled by name and status, and nothing else ever happens to them.

### HomeCenter

| variable | in the code |
| --- | --- |
| `hdcs` | the table `Hdc`; a row's id is the device (inserted by `register`) or random (inserted by `active`, `heartbeat`) |
| `bindings` | the table `HdcBinding` |
| `minted` | how many random ids and tokens were drawn; they are numbered |
| `thread` | as in `FileStore`; at `pc = "answer"` the request is done and its answer waits to be sent |

`Register`, `Active` (which is `heartbeat` too), `Login`, `Bind`, `Cancel` and
`Update` accept a request and make its first transaction; `DeviceInsert`,
`BindDevice`, `BindProbe`, `BindInsert`, `CancelDelete`, `UpdateProbe` and
`UpdateMerge` are the transactions that follow.

### TVLogin

`TVLogin` extends `HomeCenter`: its `BoxNext` takes the steps of the server
(`Server`), of the boxes, and those they take together. A box sends a request by
accepting it on a servlet thread (`SendRegister`, `SendLogin`), and receives the
answer of the thread that serves it (`ReceiveRegister`, `ReceiveLogin`).

| variable | in the code |
| --- | --- |
| `saved` | the token in the file `.echoii.dev` of each box |
| `login` | for each box and each activity of it, the thread `datacenterLogin` starts: where it stands, the token it holds, the servlet thread that serves its request |
| `opened` | activities created, for the bound |

A file is written in two steps, emptied (`Truncate`) and filled (`Save`), so a box
that is switched off between them has lost its token. `Lose` is a request that cannot
be sent, or a connection that is reset under the box; `Vanish` an answer that never
comes, for which the box then waits for ever, since `HttpUtil` sets no timeout for
reading; `SaveFails` a disk that refuses, `Die` a box switched off, `ServerCrash` the
server restarted under the boxes that wait for it.

### TVSync

One box, its files, and the cloud it copies from.

| variable | in the code |
| --- | --- |
| `disk`, `cloud` | for each file whether it is on the box, in part or whole; the files the server lists |
| `on` | the preference `sync_swich` |
| `ui` | how far the user interface is in `stopSync` and `DownloadTask.stop` |
| `starter` | the threads that run `syncAllFiles` |
| `lists` | the lists of `SyncFiles`, which those threads share |
| `dl` | the one `DownloadFilesThread`, with the fields of `DownloadTask` and `FileUtil` that the user interface reads and writes while the thread runs |

One action is one access to a field another thread uses, or one answer of the
network or the disk. An exception no thread catches ends the process (`Down`).
`Kill` is the system ending it, `Launch` the next start of the app.

### ChunkManager

One torrent of several files. The state of the program is one record `m`, because
its calls nest: setting a file's priority calls the chunk manager, which signals
the downloader, which resets chunks in the chunk manager. An operator that takes
and returns the record is one such call; an action is the outermost one.

| variable | in the code |
| --- | --- |
| `tor` | `Torrent::files`: the chunks each file spans, and whether it is a film or music |
| `m.file`, `m.prio` | the priorities of files and of chunks |
| `m.have`, `m.todo`, `m.excluded`, `m.onlySeed`, `m.onDisk` | the bit sets of `ChunkManager`, and the chunks with status `ON_DISK` |
| `m.selector`, `m.current` | `ChunkSelector::chunks`; `Downloader::current_chunks` |
| `m.data`, `m.gone` | the fragments of chunks on disk, in data files or in do-not-download copies; files that somebody deleted |
| `index`, `saved` | the files `index` and `current_chunks`; `file_priority` always equals `m.file` |
| `doubt` | history: chunks whose data was deleted from outside, or that the index still lists though they were reset |
| `unlisted`, `missed` | history: chunks on disk that a failed save left out of the index; chunks that were reset without the selector being told, since a save failed |

`SetFilePriority` is `TorrentFile::setPriority` with all it sets off; `Select`,
`Finished`, `FinishedBad` and `FinishedIndexFails` are a chunk chosen and
downloaded, with a right or a wrong hash or an index that cannot be written;
`DataCheck`, `Start` (with the question about missing files) and `Stop` are those
of `TorrentControl`; `DataCheckIndexFails` and `StartIndexFails` are the same when
`saveIndexFile` throws: the index is then the old one, or empty, or the first entries of
the new one (`FailedSave`), a data check goes on, and a start is given up before the
selector is told what was reset. `Restart` is the end of the program between two calls,
and what the next one loads; after a failed save it is a crash in that save.
`RemoveFile` is another program.

### Downloader and ChunkTransfer

| variable | in the code |
| --- | --- |
| `m.have`, `m.disk` | the chunks taken; what is stored of every piece |
| `m.cur` | `current_chunks`: a `ChunkDownload` each, with its pieces, the hash so far, its peers (`pdown`), what it asked of each (`dstatus`) and who sent something (`piece_providers`) |
| `m.peer` | every `PeerDownloader`: choked, `grabbed`, `nearly_done`, requests sent (`reqs`) and waiting (`wait_queue`) |
| `m.web`, `m.webch` | the web seed: its range, where it is in it, how often it failed; `webseeds_chunks` |
| `wire` | requests a peer was sent and did not answer, the cancelled ones included |

A packet is an action (`Choke`, `Unchoke`, `ReceivePiece`, `Reject`), and so is
each part of the timer's update: `NormalUpdate` assigns peers and web seed,
`Timeout` finds a late request, `WebData`, `WebFails` and `WebCloses` are the web
seed's part: data, a connection that failed, and one the server has closed, after which
the rest of the range, and of the chunk, is asked for. `Disconnect` breaks a connection, which `Reap` notices later. A peer may
answer a request that was cancelled, or never (`Unanswered`).

`Downloader` implements `ChunkTransfer` (`TransferPromise`): `have` and `disk` are
those of `m`, and peers, requests and the web seed are stuttering. A chunk is taken
when all its pieces are right, and its data is never written afterwards.

### QueueManager

| variable | in the code |
| --- | --- |
| `m.tor` | each torrent's part of `TorrentStats` and of `TorrentControl`: running, allowed to start, queued, complete, stopped by an error, over a limit of seeding; its job and whether the torrent is started after it |
| `m.downloads` | the list, by priority |
| `m.paused`, `m.resume` | `paused_state`, `paused_torrents` |
| `m.manual`, `m.low` | the setting to control torrents by hand; whether disk space is low |

`OrderQueue` is `orderQueue`; almost everything ends in it, and `Stop` calls it in
the middle, through the signal `torrentStopped`. `UserStarts`, `UserStops`,
`UserPauses`, ... are what a user can do, `Finishes`, `ReachesLimit`,
`StopsByError`, ... what the update of a running torrent finds, `JobEnds` the end of
a data check or of a preallocation, `DiskFills` and `FilesVanish` the disk. A pause
kills a preallocation under way (`PauseOne`), which ends the job there and then, with
all that waited for it: a torrent whose removal was put off is removed in the middle of
the pause.

## 4. What the runs check

The runs that must pass, with what would break each property:

| run | properties | question |
| --- | --- | --- |
| `filestore_race` | `TypeOK`, `CopiesAgree`, `FilesHaveBlobs`, `OrphansOnlyFromFaults`, `OnlyOwnRows`, `TablePromise`, `RequestsEnd` | Two threads, two users, a folder of the one that has a file of the other in it, every kind of request, one fault: is the table still a forest of rows with contents, changed by their owners? And do the loops for a free name, and the recursions, end while the other thread takes names and fills folders? |
| `filestore_alone` | `RootNamesUnique`, `SubtreeDeleted`, `OnlyRecoverRevives` | What can one user rely on who does one thing after the other? |
| `homecenter_race` | `TypeOK`, `BindingsNamed`, `ToldTokensStored` | Is every token that is told stored, when requests about one device overlap and fail? |
| `homecenter_alone` | `BindingsUnique` | Are bindings unique when requests do not overlap? |
| `tvlogin_race` | `BoxTypeOK`, `SavedTokenRegistered`, `TokenOpens` | Two activities, another client, a fault on either side: does the server know what the box has saved, and let it in? |
| `tvlogin_live` | `DevicesUnique`, `TokenKept`, `LoginsEnd` | Without other clients and overlapping activities: does the primary key make up for the look before the insert, does a box that met no fault keep its token, does every login end, unless its answer never comes? |
| `tvsync_race` | `TypeOK`, `PartialsBounded`, `WholeKept`, `AllFetched` | What can the switch, used at any moment, and a process that dies do to the files on the box; and does it get every file it finds missing when nothing is interrupted? |
| `chunkmanager_all` | `TypeOK`, `TodoExact`, `HadIndexed`, `HaveIsReal`, `PriorityHighest`, `NeededKept`, `RunsToCompletion` | Whatever files the user picks, whatever fails, and after whichever call the program is ended: do bit sets, lists, index and disk agree, does no file lose a chunk to another, and does a torrent left running get what it has to do? |
| `downloader_web` | `TypeOK`, `RequestsTracked`, `InnocentNotBanned`, `TransferPromise` | A web seed and two peers, one bad, race for two chunks, one of them begun in an earlier session: is a request ever forgotten, a chunk taken that is not right, or a peer banned for another's lie? |
| `downloader_live` | `GrabsExact`, `AllDownloaded` | Chokes, late answers, rejects, lies and lost connections: is every peer released once for each chunk, and is everything downloaded in the end, unless an honest peer is starved? |
| `queue_order` | `TypeOK`, `QueueInOrder`, `StartedAsAllowed` | After any seven events: do the torrents run that should, and is none started against the user's will? |

One run must fail. It shows where the code does not do what its comment says;
`findings` in `PROJECT.json` quotes the line.

| run | property | what TLC shows |
| --- | --- | --- |
| `chunkmanager_border` | `TodoExact` | a file of two chunks, both shared with its neighbours, is excluded, and its last chunk with it, though the next file needs it: the torrent reports to be complete |

What else the models show, and no run repeats. Of the file store: two requests with
one name, or a folder that is recovered, list two files of one name (only the row
recovered is looked at); `move` and `copy` compare strings with `==` and never do
anything (`MoveCompare`); a delete without `remove_source` puts a permanently
deleted row back into the trash (`Doomed`). Of the box: switched off and on again, the app dies, for a thread is
started twice; with `NestedCovers`, where the path of one file is part of another's,
a listed file is never fetched; and one failed answer to a download makes the box
ask the server to delete the file (`Refused`). Of KTorrent: the test that misses the last chunk in
`chunkmanager_border` also leaves a last chunk that is not shared without a reset, so
that it is never listed again and a file of two chunks that is set aside and taken
back stays incomplete; a chunk that was reset
is had again after a restart, since the index keeps it (`HaveIsReal` without
`doubt`); a peer whose only request was cancelled is never asked again, for those that
wait are sent only on an answer or with another request: `downloader_live` has the
limit of one request that the code sets while the rate is 0, and TLC finds the download
stuck there if `AllDownloaded` does not excuse it (`Starved`); a start that
fails when the index is saved leaves chunks to do that the selector does not list
(`RunsToCompletion` without `missed`); a box whose server vanishes waits for the answer
for ever (`LoginsEnd` without `Hangs`); with the policy to start by force a torrent
that finds the disk full is stopped, started again by the queue and only then barred,
so that it runs on; with a web
seed the count of chunks at a peer is not always taken back (`GrabsExact`), and one that sends
wrong data (`WebIsRight = FALSE`) writes over pieces of peers that were hashed when
they came, so that a wrong chunk is taken (`TransferPromise`) or a peer is banned for
what the web seed wrote (`InnocentNotBanned`); a film shorter than its preview spills
the preview into the next file's chunks, excluded ones too (`TodoExact`); and a
data check that ends during a pause starts its torrent (`StartedAsAllowed` without
its excuse).

Some pass only under the restriction of their run, and the restriction is the
point. `SubtreeDeleted` is stated for every return of the recursion, so that it says
something of deletes that die halfway too; it holds for deletes that overlap each
other, and not for a delete that overlaps an upload; `OnlyRecoverRevives` fails with two threads (a rename undoes a delete);
`BindingsUnique` fails with two threads (each finds no binding, and inserts one);
`RootNamesUnique` with two threads or a rename that fails halfway; `TokenKept` fails with one lost answer or with two activities at once (the second
registration is refused, and the refusal is saved over the token);
`DevicesUnique` fails when `active` is called (its rows have random ids).

### Bounds

`MaxRequests`, `MaxFaults`, `MaxOpens`, `MaxSwitches` and `MaxLaunches` bound
counters in the guards of the actions that start something; `MaxList` bounds the
ids and items of one request. Two threads are enough for every race the code
has: each is between one request's check and its write, and another request's
write. The seeds of `MCFileStore`: `SmallTree` is a folder with a file and
a folder that has a file, so that both recursions go two levels deep;
`SharedTree` is a folder with a file of its owner and one that another user put
there, which the recursions must leave alone. Five requests in
`homecenter_race` are a registration, two binds, an update and a cancel, the
longest chain in which one request's rows are another's input. Three uses of the
switch are on, off and on again; two launches and two faults let a box die in a
download and meet what it left. In `tvlogin_live` a fault lets a box ask again
while its first registration is still at work. `tvsync_race` takes `NestedCovers`,
so that the comparison misses a file; `AllFetched` speaks of the files whose path
no other contains.

`chunkmanager_all` has three chunks: a film that shares its first or its last chunk
with a second file, the smallest torrent with a border chunk, a preview and a chunk of
one file's own; and a torrent whose last chunk lies in three files, so that one that
is to be downloaded and one that is only seeded can both want what the third gives
up. Two priorities set and two faults (a wrong hash, an index entry or an index that
cannot be written, a deleted file), three of these together (`MaxEvents`), and any
number of restarts let a file be set aside and taken back with
a restart or a lost chunk in between, and let a deleted file meet a save that fails.
`chunkmanager_border` has three files that meet in two adjacent chunks.
`downloader_web` has two chunks of two pieces, so that a chunk can be half there,
and three faults; two peers are needed for the endgame and for a chunk of several
providers. One request at a time (`MaxReqs = 1`) and two that wait make every
request go through the waiting list, and are what the code allows a peer without a rate. The disk, in both, may hold a right or a wrong
piece of an earlier session. In `queue_order` two torrents compete for one place
among the downloads and one among the seeds; seven events are enough for a pause with
a job inside it that ends after it, a removal put off while the queue changes, or a
pause that makes the removal happen.

Deadlock is checked in the runs of the server and the box. A system at rest is a step of its own (`Wait`,
`Rest`) that is possible only when no thread is at work, so a thread that hangs is
reported. KTorrent's runs do not check it: a torrent that is complete, or a queue
whose events are used up, has nothing to do.

### Fairness

* `FileStore`: `WF` of `Continue(t)`. A servlet thread that has accepted a request
  is scheduled until it has answered; nothing is assumed about requests, faults or
  crashes arriving. `RequestsEnd` starts from any state with a request under way, and
  the bounded number of requests is what "no more requests come" means: with two
  threads each may be kept waiting by the other, and not for ever.
* `TVLogin`: `WF` of the servers' steps, and `SF` of the boxes'. A box that wants
  to send must find a servlet thread idle, and other clients' requests may take it
  again and again; the container's queue is what makes that end, and a queue is
  strong fairness. That an answer arrives is not assumed (`Vanish`); a login whose
  answer never comes is what `LoginsEnd` excuses.
* `TVSync`: `WF` of the download thread, of the threads of the switch and of the
  user interface. It includes that the network answers or fails in the end.
* `ChunkManager`: `WF`, for each chunk, of choosing or finishing it. The timer asks for
  work as long as a torrent runs, and somebody answers; a restart that comes
  again and again may undo both, and `RunsToCompletion` is about a torrent that is
  left running.
* `Downloader`: the timer's update is taken if it can change something, a killed
  peer is removed, honest peers unchoke and answer, and what a bad peer does not
  answer is late at some time. One peer is honest and has everything. The bounds on
  faults matter here: peers that lie in turn for ever are never caught.

## 5. What is proved

TLAPS checks these for every value of the constants: any number of users, threads,
boxes, requests and faults, and any table to begin with that satisfies
`SeedAssumption`; any number of torrents, files, chunks, pieces and peers, and any
limits.

| theorem | module | says |
| --- | --- | --- |
| `Invariance`, `TypeCorrect`, `FilesKeepBlobs`, `TreeStaysGrounded`, `CopiesStayCopies` | `FileStore_proofs` | `[]` of `IInv` and its parts |
| `OrphansStayFew` | `FileStore_proofs` | `OrphansOnlyFromFaults`: at most one content without a row for each thread at every fault, for a finite set of threads |
| `OwnRowsOnly` | `FileStore_proofs` | `OnlyOwnRows`: a step changes rows of the user it serves |
| `SubtreeGoes` | `FileStore_proofs` | `SubtreeDeleted`, with one thread, or with any number of them if requests delete and move only |
| `TableKept` | `FileStore_proofs` | `FileStore` implements `DriveTable` |
| `RecoverAloneRevives` | `FileStore_proofs` | with one thread, `OnlyRecoverRevives`: a deleted row comes back by a recover request only |
| `RootNamesStayUnique` | `FileStore_proofs` | with one thread and no failed call, `RootNamesUnique`, if the initial table has it |
| `Invariance`, `TypeCorrect`, `BindingsStayNamed`, `ToldTokensStayStored` | `HomeCenter_proofs` | `[]` of `IInv` and of what it implies |
| `BindingsStayUnique` | `HomeCenter_proofs` | with one thread, a user is bound to a device at most once |
| `DevicesStayUnique` | `HomeCenter_proofs` | a device has one row if `"active"` is not among the requests |
| `BoxInvariance`, `BoxTypeCorrect`, `SavedStaysRegistered` | `TVLogin_proofs` | what a box has saved is in the server's table |
| `TokenAlwaysOpens` | `TVLogin_proofs` | `TokenOpens`: a login with a token succeeds if the device has one row |
| `TokenStaysKept` | `TVLogin_proofs` | `TokenKept`, if boxes have one activity and nobody sends `"active"` |
| `Invariance`, `TypeCorrect`, `WholeStaysWhole` | `TVSync_proofs` | `WholeKept`: a whole file is never opened again |
| `PartialsStayBounded` | `TVSync_proofs` | at most one unfinished file for each start of the app |
| `TypeCorrect`, `HadStayIndexed` | `ChunkManager_proofs` | types; what is had is in the index, or a failed save left it out, for every torrent |
| `TodoIsExact`, `HadIsReal`, `PriorityIsHighest` | `ChunkManager_proofs` | for a regular torrent (below): what is to do is exactly what the files need, what is had is on disk, and priorities are the highest of the files |
| `NeededIsKept` | `ChunkManager_proofs` | for a regular torrent, setting a file's priority loses no chunk another file keeps |
| `TypeCorrect`, `RequestsStayTracked` | `Downloader_proofs` | types; downloads and peers agree on every request |
| `GrabsStayExact` | `Downloader_proofs` | without a web seed, every peer is released once for each chunk |
| `NoInnocentBanned` | `Downloader_proofs` | if a web seed, where there is one, is right: only liars are banned |
| `TransferKept`, `ImplementsTransfer` | `Downloader_proofs` | under the same condition, `Downloader` implements `ChunkTransfer` |
| `TypeCorrect`, `InOrderAlways` | `QueueManager_proofs` | types; the queue is in order after every event |
| `StartsAsAllowed` | `QueueManager_proofs` | no event starts what the user stopped, but the end of a pause or a job |

The inductive invariants, and why the properties alone do not do:

* `FileStore`: `IInv` is `TypeOK`, `FilesHaveBlobs`, `TreeGrounded` and
  `CopiesAgree`. A merge writes every column of a copy read long ago, so that the
  table keeps its shape depends on what the threads hold. `CopiesAgree` says that
  a copy agrees with its row in all columns but name and status, for every copy
  in the stack of a recursion too, and that a row about to be inserted names a
  parent that is there and a content that was written. It is checked by TLC as an
  invariant of its own. Steps of one thread change the table only by adding a row
  or by changing name and status (`KeepsIdentity`), which keeps what the other
  threads hold good.
* For `OrphansOnlyFromFaults`: under `IInv`, a step that is no fault orphans nothing,
  for a content is held by the thread that wrote it until a row names it; a failed
  call orphans at most the content its thread holds; a crash those all threads hold,
  which are no more than there are threads. The rest is counting finite sets.
* For `OnlyRecoverRevives` and `RootNamesUnique`, with one thread. `SInv` says that what
  the request in hand is going to save is `Sound`: a rename holds the status its row
  has, and every activation of a delete's recursion holds deleted copies only.
  `UInv` adds `Named`: two rows of one name in the root are at most there for the one row that
  is saved before its name is checked (`AtRisk`: recover and rename do so), a name that was
  found free is still free when the row is written (`Clear`), and so is the old name of a
  renamed row, which is what makes it safe to take it back. A recursion writes nothing
  in the root (`Deep`), so that recover may revive a subtree without a look at the names. A call
  that fails after the first save of a rename leaves the clash behind, hence
  `MaxFaults = 0`; two threads may each find the name free, hence one thread.
* For `SubtreeDeleted`, `DInv` says what the recursion of a delete has done so far
  (`Walked`): every child of a row on the stack is still to be visited, or is the next
  on the stack, or is `Gone` with all beneath it. A step of another delete or of a move
  lets the table only wane (`Wanes`), which keeps all three; when nothing is left to
  visit, all children are gone, and the row is marked last.
* `HomeCenter`: a thread is `Safe` if the device it found is in the table and the
  answer it is about to send tells a token that is. Both are stable because no
  operation deletes a device.
* For `DevicesUnique`, `UInv` adds that every row, and every row about to be
  inserted, has its device for an id.
* For `BindingsUnique`, with one thread, `SoloInv` adds that ids of bindings are drawn and
  unique, and `Fits`: between the look for a binding and the insert nothing else
  happens, so a bind about to insert finds none, and a row about to be merged is in
  the table under its id.
* `TVLogin`: `BInv` follows the token from the table to the answer of the servlet
  thread, to the login that waits for it, to the file; and says that a servlet
  thread serves one login only. For `TokenKept`, `KInv` adds that, while
  nothing has failed, a box is `Calm`: the token its device is registered under is in the
  file, or in the answer on its way to the login that will write it. For `TokenOpens`,
  `LInv` adds that a servlet thread that has done a box's login says OK, unless the
  device had two rows: the token was in the table when the box sent it, and
  the rows of a device only grow.
* `TVSync`: a thread of the switch compares lists that may be old by the time it
  starts the download. `IInv` says why that does no harm: a download thread that
  was not started has made no file whole, so as long as one can be started
  (`dl.pc = "new"`) the local list has every whole file (`ListsNone`), and the
  list of a started thread, and the file it is about to open, are not whole
  (`OpensNone`). `PInv` adds the count: a thread that still goes on
  (`Clean`) has left no unfinished file of this run, and while it writes, all
  unfinished files but the one at hand are of earlier runs.

* KTorrent's operations loop over files, chunks, peers and torrents, and a loop is a
  fold. What a fold keeps is an induction over the elements, and the library's
  induction theorems take the predicate as a parameter that no prover here can
  fill in. `FoldFacts` goes round it with sets: a predicate on numbers is the set of
  numbers that have it, which has a least element outside, if any (`LeastOf`), and an
  invariant of a loop is a function `I` from the elements done to the set of states
  allowed then. `SetFoldKeeps` says that the fold is in `I[S]` when its base is in
  `I[{}]` and its body goes from `I[T]` to `I[T \cup {x}]`; `SeqFoldKeeps` is the
  same for sequences. The body is the module's constant operator, so every loop
  of the models instantiates it once.
* `ChunkManager`: `Inv` holds for every torrent: the types, and that a chunk had and
  on disk is indexed or one that a failed save left out (`unlisted`). `Deep` is what the properties rest on, for regular torrents:
  the priority of a chunk and its four bit sets fit the priorities of its files
  (`Fits`); the downloads under way are of chunks neither had nor excluded; an index entry
  without its chunk is one of `doubt`; and while the torrent is stopped no saved
  download is of a chunk that is had and not marked `ON_DISK`. The last two are needed because a restart
  rebuilds everything from those files. Both were checked by TLC as invariants of
  `chunkmanager_all` first. A call changes some chunks (`Changes`) and makes them
  fit or leaves them alone; for a file set aside `Lost` adds which may go.
* A torrent is `Regular` if the preview of every film lies inside it, and no file of
  two chunks shares both. Neither condition can be dropped: `chunkmanager_border` is a
  file of the second kind, and `doPreviewPriority` (chunkmanager.cpp:1152) gives a
  short film a preview longer than itself. All torrents of `chunkmanager_all` are
  regular.
* `Downloader`: `Sane` says that requests, peers and downloads agree in both
  directions, that a peer has asked nothing for a chunk it does not work on, that no
  download is of a chunk that is had, and where the web seed may be in its range.
  It is kept by each of some thirty operations, and not only by actions: `Works`
  holds between the calls, and `WorksBut` says which single request is under way
  while one does not. For the data, `HashOk` says that a hash that is right so far is
  of pieces that are there and right, though they are hashed as they come and one
  may be there already from an earlier session; `BlameOk` that whoever has a wrong
  piece in a chunk is among its providers. So a chunk whose single provider is a peer
  and whose hash is wrong was spoilt by that peer (`Blamed`), and a chunk whose hash
  is right when the last piece is there is right as a whole (`Moves`).
* `GrabsStayExact` assumes that there is no web seed, for `onChunkReady` erases a
  download and releases nobody. `NoInnocentBanned`, `TransferKept` and
  `ImplementsTransfer` assume that a web seed sends nothing wrong (`Right`): it writes
  to chunks that peers download too, over pieces that were hashed. TLC finds each of
  the three violated without its assumption. `Right` asks more than an honest server:
  in a torrent of several files the connection must not be closed inside a chunk, for
  `continueCurChunk` then skips whole ranges, and what comes next may be stored at a
  wrong place (`WebData("bad")`).
* `QueueManager`: `Start` is the type, that no torrent is twice in the list and a
  removed one leaves nothing behind, and that the queue is in order unless it is
  paused, kept by hand or held up by a disk error. The work is in `orderQueue`: the invariant
  of its loop (`LoopInv`) follows the torrents counted so far, while starting one
  may fail and stopping one calls `orderQueue` again, which returns at once. `Amid`
  is what the loops over a selection of torrents keep: nothing runs that did not before;
  `Pausing` is that of the pause's loop, which may remove a torrent on its way.

Assumptions: those named in the modules (`UserAssumption`, `SeedAssumption`,
`BoundAssumption`, `OpensAssumption`, `FilesAssumption`, `ChunkAssumption`,
`DownloaderAssumption`, ...), which TLC evaluates
in every run, and for `DevicesStayUnique`, `BindingsStayUnique`, `OrphansStayFew`,
`RecoverAloneRevives`, `RootNamesStayUnique`, `SubtreeGoes` (`Undisturbed`),
`TokenStaysKept` and the theorems about regular torrents and web seeds the ones each states. The runs
`filestore_alone` and `tvlogin_live` satisfy the conditions of the theorems about
their properties.

Only model-checked: the liveness properties (`RequestsEnd`, `LoginsEnd`,
`AllFetched`, `RunsToCompletion`, `AllDownloaded`), since fairness is beyond TLAPS
here.

## 6. What is not modelled

* Accounts, sessions, password reset, groups, share links, offline downloads,
  statistics and incremental listings: planned (section 2). Their hazards are
  listed already.
* In `FileStore`: the update of the statistics after an upload; paths, which no
  check of the code reads; the listings and the search, which only read.
* In `HomeCenter`: `HdcFile` and the listings of a device's files; the fields that
  `active` and `heartbeat` write for display.
* In `TVSync`: a service that is destroyed and made again within one process; a
  storage that is unmounted; a change of the local path while a download runs.
* In `ChunkManager`: files taken over from another download
  (`markExistingFilesAsDownloaded`), torrents of one file, files of no bytes, moving
  the data, the pieces kept in memory; a crash inside a call that sets a priority, and an
  index or a list of priorities of which half an entry was written.
* In `Downloader`: rates, and the limits they give; redirects and HTTP errors of a
  web seed, and several of them; the ranges it is asked for in a torrent of several
  files: what goes wrong there after a closed connection (webseed.cpp:225) is a wrong
  piece in the model, and the properties are checked without it; a disk that fails;
  peers that come later.
* In `QueueManager`: a change of the limits or of `keep_seeding` while the program
  runs, several jobs waiting at one torrent, the signal of a preallocation that was
  killed when its thread had just ended, the event loop inside a message box, the
  end of the program.
* The rest of KTorrent (uploading and choking, trackers, DHT, encryption, sockets,
  plugins, the user interface): about 700 files. They decide which peers there are
  and how fast; that what they deliver is asked for, checked and kept is in the
  models above.
* The user interfaces, the phone client and the downloads keep no state that other
  parts rely on; the libraries are vendored.
