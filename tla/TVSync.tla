------------------------------- MODULE TVSync -------------------------------
(***************************************************************************)
(* The synchronisation of the TV box: a switch of the user interface       *)
(* starts a thread that compares the files of the home data centre in the  *)
(* cloud with those on the box (SyncFiles) and starts the one thread of    *)
(* the service that downloads what is missing (DownloadFilesThread);       *)
(* switched off, the user interface stops that thread (DownloadTask).      *)
(*                                                                         *)
(* The threads share plain fields.  One action is one access to a field    *)
(* that another thread uses too, with the local computation around it, or  *)
(* one answer of the network or the disk.  An exception that a thread does *)
(* not catch kills the app.                                                *)
(***************************************************************************)
EXTENDS Naturals, FiniteSets

CONSTANTS
    Files,       \* the files of the data centre, numbered in the order the server lists them
    Folders,     \* those that are folders
    Covers,      \* <<l, c>>: the local path of l contains the path of c within the cloud
    Starters,    \* threads that the switch starts
    MaxSwitches, \* bound on the number of times the switch is used
    MaxLaunches, \* bound on the number of times the app is started
    MaxFaults    \* bound on the number of failed transfers and kills

ASSUME FilesAssumption == Files \subseteq Nat /\ Folders \subseteq Files

ASSUME CoversAssumption ==
    Covers \subseteq Files \X Files /\ \A f \in Files : <<f, f>> \in Covers

ASSUME SyncBoundAssumption ==
    MaxSwitches \in Nat /\ MaxLaunches \in Nat /\ MaxFaults \in Nat

VARIABLES
    disk,     \* for each file, whether it is on the box: "absent", "partial" or "whole"
    cloud,    \* the files the server lists
    on,       \* the saved preference sync_swich
    up,       \* the app is running
    ui,       \* how far the user interface is with stopping a download
    starter,  \* the threads the switch has started
    lists,    \* the lists of SyncFiles, which those threads share
    dl,       \* the download thread, with the fields of DownloadTask
    launches, switches, faults

boxState == <<disk, cloud, on, up>>

counters == <<launches, switches, faults>>

vars == <<disk, cloud, on, up, ui, starter, lists, dl, launches, switches, faults>>

-----------------------------------------------------------------------------

Waiting == [pc |-> "idle", victim |-> {}]

NoLists == [local |-> {}, cloud |-> {}, todo |-> {}]

\* A download thread that was not started: no connection, no file, and (in
\* FileUtil) no download finished.  cur is the file at hand, target the file that
\* DownloadTask.echoiiFile names; cut says that the connection was closed by the
\* user interface.
Fresh == [pc |-> "new", list |-> {}, cur |-> {}, flag |-> TRUE, conn |-> FALSE,
          cut |-> FALSE, target |-> {}, finish |-> FALSE]

IsFirst(f, s) == f \in s /\ \A g \in s : f <= g

Dl(r) == dl' = r

Fault == faults < MaxFaults /\ faults' = faults + 1

\* The process is gone; the preference and the disk stay.
Down ==
    /\ up' = FALSE
    /\ ui' = Waiting /\ starter' = [s \in Starters |-> "off"]
    /\ lists' = NoLists /\ dl' = Fresh
    /\ UNCHANGED <<disk, cloud, on>>

-----------------------------------------------------------------------------
(* The app and its switch                                                  *)

\* When the service is connected, initSync starts a thread if the switch is on.
Launch ==
    /\ ~up /\ launches < MaxLaunches
    /\ launches' = launches + 1 /\ up' = TRUE
    /\ \/ ~on /\ UNCHANGED starter
       \/ on /\ \E s \in Starters : starter' = [starter EXCEPT ![s] = "local"]
    /\ UNCHANGED <<disk, cloud, on, ui, lists, dl, switches, faults>>

Kill == up /\ Fault /\ Down /\ UNCHANGED <<launches, switches>>

\* The app ends while nothing goes on.
Quit ==
    /\ up /\ ui.pc = "idle" /\ dl.pc \in {"new", "over"} /\ \A s \in Starters : starter[s] = "off"
    /\ Down
    /\ UNCHANGED counters

SwitchOn ==
    /\ up /\ ~on /\ ui.pc = "idle" /\ switches < MaxSwitches
    /\ switches' = switches + 1 /\ on' = TRUE
    /\ \E s \in Starters : starter[s] = "off" /\ starter' = [starter EXCEPT ![s] = "local"]
    /\ UNCHANGED <<disk, cloud, up, ui, lists, dl, launches, faults>>

\* stopSync, on the thread of the user interface, which does nothing else until
\* it is through; the preference is saved after that.
SwitchOff ==
    /\ up /\ on /\ ui.pc = "idle" /\ switches < MaxSwitches
    /\ switches' = switches + 1
    /\ Dl([dl EXCEPT !.flag = FALSE])
    /\ ui' = [ui EXCEPT !.pc = "conn"]
    /\ UNCHANGED <<disk, cloud, on, up, starter, lists, launches, faults>>

StopDone == ui' = Waiting /\ on' = FALSE

StopConn ==
    /\ ui.pc = "conn"
    /\ \/ /\ dl.conn /\ Dl([dl EXCEPT !.cut = TRUE])
          /\ ui' = [ui EXCEPT !.pc = "null"] /\ UNCHANGED on
       \/ ~dl.conn /\ StopDone /\ UNCHANGED dl
    /\ UNCHANGED <<disk, cloud, up, starter, lists, counters>>

StopNull ==
    /\ ui.pc = "null"
    /\ Dl([dl EXCEPT !.conn = FALSE])
    /\ ui' = [ui EXCEPT !.pc = "finish"]
    /\ UNCHANGED <<boxState, starter, lists, counters>>

\* An unfinished download is to be deleted; before the first file there is none
\* to name, and the null reference kills the app.
StopFinish ==
    /\ ui.pc = "finish"
    /\ \/ dl.finish /\ StopDone /\ UNCHANGED <<disk, cloud, up, starter, lists, dl>>
       \/ /\ ~dl.finish /\ dl.target # {}
          /\ ui' = [pc |-> "delete", victim |-> dl.target]
          /\ UNCHANGED <<boxState, starter, lists, dl>>
       \/ ~dl.finish /\ dl.target = {} /\ Down
    /\ UNCHANGED counters

StopDelete ==
    /\ ui.pc = "delete"
    /\ disk' = [f \in Files |-> IF f \in ui.victim THEN "absent" ELSE disk[f]]
    /\ StopDone
    /\ UNCHANGED <<cloud, up, starter, lists, dl, counters>>

-----------------------------------------------------------------------------
(* SyncFiles.syncAllFiles, on a thread of its own                          *)

Advance(s, pc) == starter' = [starter EXCEPT ![s] = pc]

\* Every path on the box, those of unfinished files included
ListLocal(s) ==
    /\ starter[s] = "local" /\ Advance(s, "cloud")
    /\ lists' = [lists EXCEPT !.local = {f \in Files : disk[f] # "absent"}]
    /\ UNCHANGED <<boxState, ui, dl, counters>>

ListCloud(s) ==
    /\ starter[s] = "cloud"
    /\ lists' = [lists EXCEPT !.cloud = cloud]
    /\ Advance(s, IF cloud = {} THEN "off" ELSE "compare")
    /\ UNCHANGED <<boxState, ui, dl, counters>>

\* No list comes: there is nothing to do.
ListFails(s) ==
    /\ starter[s] = "cloud" /\ Fault /\ Advance(s, "off")
    /\ lists' = [lists EXCEPT !.cloud = {}]
    /\ UNCHANGED <<boxState, ui, dl, launches, switches>>

\* Mutant of Missing: a box that has files misses none.
MissingOnce == IF lists.local = {} THEN lists.cloud ELSE {}

\* A file of the cloud is there if some local path contains its path.
Missing == {c \in lists.cloud : ~\E l \in lists.local : <<l, c>> \in Covers}

Compare(s) ==
    /\ starter[s] = "compare"
    /\ lists' = [lists EXCEPT !.todo = Missing]
    /\ Advance(s, IF Missing = {} THEN "off" ELSE "start")
    /\ UNCHANGED <<boxState, ui, dl, counters>>

\* Mutant of Start: what is started is the list of the cloud.
StartAll(s) ==
    /\ starter[s] = "start"
    /\ \/ /\ dl.pc = "new" /\ Dl([dl EXCEPT !.pc = "ready", !.list = lists.cloud])
          /\ Advance(s, "off")
          /\ UNCHANGED <<boxState, ui, lists>>
       \/ dl.pc # "new" /\ Down
    /\ UNCHANGED counters

\* A thread that was started once cannot be started again: the exception kills
\* the app.
Start(s) ==
    /\ starter[s] = "start"
    /\ \/ /\ dl.pc = "new" /\ Dl([dl EXCEPT !.pc = "ready", !.list = lists.todo])
          /\ Advance(s, "off")
          /\ UNCHANGED <<boxState, ui, lists>>
       \/ dl.pc # "new" /\ Down
    /\ UNCHANGED counters

-----------------------------------------------------------------------------
(* The download thread                                                     *)

Quietly == UNCHANGED <<boxState, ui, starter, lists, counters>>

\* A use of the connection when the user interface has just set it to null
NoConn == ~dl.conn /\ Down

\* Mutant of Run: the thread waits for a list that it has.
RunIdle ==
    /\ dl.pc = "ready"
    /\ Dl([dl EXCEPT !.pc = "running", !.flag = TRUE])
    /\ Quietly

Run ==
    /\ dl.pc = "ready"
    /\ Dl([dl EXCEPT !.pc = "next", !.flag = TRUE])
    /\ Quietly

\* The loop over the list: a folder is made, a file downloaded.
FetchOf(f) ==
    \/ /\ f \in Folders
       /\ disk' = [disk EXCEPT ![f] = "whole"]
       /\ Dl([dl EXCEPT !.list = @ \ {f}])
    \/ /\ f \notin Folders
       /\ Dl([dl EXCEPT !.list = @ \ {f}, !.cur = {f}, !.pc = "open"])
       /\ UNCHANGED disk

NextFile ==
    /\ dl.pc = "next"
    /\ \/ /\ ~dl.flag \/ dl.list = {}
          /\ Dl([dl EXCEPT !.pc = "over"])
          /\ UNCHANGED disk
       \/ dl.flag /\ \E f \in Files : IsFirst(f, dl.list) /\ FetchOf(f)
    /\ UNCHANGED <<cloud, on, up, ui, starter, lists, counters>>

Open ==
    /\ dl.pc = "open"
    /\ Dl([dl EXCEPT !.pc = "ask", !.conn = TRUE, !.cut = FALSE])
    /\ Quietly

Uses(pc, next) ==
    /\ dl.pc = pc
    /\ \/ dl.conn /\ Dl(next) /\ UNCHANGED <<boxState, ui, starter, lists>>
       \/ NoConn
    /\ UNCHANGED counters

Ask == Uses("ask", [dl EXCEPT !.pc = "take"])

Take == Uses("take", [dl EXCEPT !.pc = "stream", !.target = dl.cur])

Stream == Uses("stream", [dl EXCEPT !.pc = "begin"])

Begin ==
    /\ dl.pc = "begin"
    /\ Dl([dl EXCEPT !.pc = "create", !.finish = FALSE])
    /\ Quietly

\* The file is made, or emptied.
Create ==
    /\ dl.pc = "create"
    /\ disk' = [f \in Files |-> IF f \in dl.cur THEN "partial" ELSE disk[f]]
    /\ Dl([dl EXCEPT !.pc = "write"])
    /\ UNCHANGED <<cloud, on, up, ui, starter, lists, counters>>

\* All of it is written; if the file was deleted meanwhile nothing is left of it.
Write ==
    /\ dl.pc = "write"
    /\ disk' = [f \in Files |-> IF f \in dl.cur /\ disk[f] = "partial" THEN "whole" ELSE disk[f]]
    /\ Dl([dl EXCEPT !.pc = "finish"])
    /\ UNCHANGED <<cloud, on, up, ui, starter, lists, counters>>

Finish ==
    /\ dl.pc = "finish"
    /\ Dl([dl EXCEPT !.finish = TRUE, !.pc = "ended"])
    /\ Quietly

\* finally: the connection is disconnected unless it is null, which takes two
\* looks at it
Ended ==
    /\ dl.pc = "ended"
    /\ Dl([dl EXCEPT !.pc = IF dl.conn THEN "close" ELSE "next"])
    /\ Quietly

Close == Uses("close", [dl EXCEPT !.pc = "next"])

Cut == dl.cut /\ UNCHANGED faults

Fragile == {"ask", "stream", "create", "write"}

\* Mutant of Breaks: the loop goes on with the next file.
BreaksOn ==
    /\ (dl.pc \in {"ask", "stream", "write"} /\ Cut) \/ (dl.pc \in Fragile /\ Fault)
    /\ Dl([dl EXCEPT !.pc = "ended"])
    /\ UNCHANGED <<boxState, ui, starter, lists, launches, switches>>

\* The connection breaks, or is found cut, or the file cannot be made: an
\* exception that ends the thread, by way of finally.
Breaks ==
    /\ (dl.pc \in {"ask", "stream", "write"} /\ Cut) \/ (dl.pc \in Fragile /\ Fault)
    /\ Dl([dl EXCEPT !.pc = "ended", !.list = {}])
    /\ UNCHANGED <<boxState, ui, starter, lists, launches, switches>>

\* The server answers with an error: the box asks it to delete the file.  Whether
\* it does is up to the server.
Refused ==
    /\ dl.pc = "ask" /\ dl.conn /\ Fault
    /\ Dl([dl EXCEPT !.pc = "ended"])
    /\ cloud' \in {cloud, cloud \ dl.cur}
    /\ UNCHANGED <<disk, on, up, ui, starter, lists, launches, switches>>

\* Other programs put a file into the data centre.
Arrive(f) ==
    /\ f \notin cloud
    /\ cloud' = cloud \cup {f}
    /\ UNCHANGED <<disk, on, up, ui, starter, lists, dl, counters>>

-----------------------------------------------------------------------------

Init ==
    /\ disk = [f \in Files |-> "absent"]
    /\ cloud \in SUBSET Files
    /\ on = FALSE /\ up = FALSE
    /\ ui = Waiting
    /\ starter = [s \in Starters |-> "off"]
    /\ lists = NoLists
    /\ dl = Fresh
    /\ launches = 0 /\ switches = 0 /\ faults = 0

Stop == StopConn \/ StopNull \/ StopFinish \/ StopDelete

Sync(s) == ListLocal(s) \/ ListCloud(s) \/ Compare(s) \/ Start(s)

Download ==
    \/ Run \/ NextFile \/ Open \/ Ask \/ Take \/ Stream \/ Begin \/ Create \/ Write
    \/ Finish \/ Ended \/ Close

\* Nothing goes on, and nobody touches the box.
Rest ==
    /\ ui.pc = "idle" /\ dl.pc \in {"new", "over"} /\ \A s \in Starters : starter[s] = "off"
    /\ UNCHANGED vars

Next ==
    \/ Launch \/ Quit \/ Kill \/ SwitchOn \/ SwitchOff \/ Stop
    \/ \E s \in Starters : Sync(s) \/ ListFails(s)
    \/ Download \/ Breaks \/ Refused
    \/ \E f \in Files : Arrive(f)
    \/ Rest

Spec == Init /\ [][Next]_vars

\* The threads are scheduled, and the network answers in the end.
Fairness ==
    /\ WF_vars(Stop) /\ WF_vars(Download)
    /\ \A s \in Starters : WF_vars(Sync(s))

FairSpec == Spec /\ Fairness

-----------------------------------------------------------------------------
(* Properties.                                                             *)

Stopping == [pc : {"idle", "conn", "null", "finish", "delete"}, victim : SUBSET Files]

Listing == [local : SUBSET Files, cloud : SUBSET Files, todo : SUBSET Files]

Downloading == [pc : {"new", "ready", "next", "open", "ask", "take", "stream", "begin", "create",
                      "write", "finish", "ended", "close", "over"},
                list : SUBSET Files, cur : SUBSET Files, flag : BOOLEAN, conn : BOOLEAN,
                cut : BOOLEAN, target : SUBSET Files, finish : BOOLEAN]

\* Every variable has its type.
TypeOK ==
    /\ disk \in [Files -> {"absent", "partial", "whole"}]
    /\ cloud \subseteq Files
    /\ on \in BOOLEAN /\ up \in BOOLEAN
    /\ ui \in Stopping
    /\ starter \in [Starters -> {"off", "local", "cloud", "compare", "start"}]
    /\ lists \in Listing
    /\ dl \in Downloading
    /\ launches \in Nat /\ switches \in Nat /\ faults \in Nat

\* A file that is whole on the box is never opened for writing again, however the
\* switch is used and whenever the app dies.  What can still happen to it is a stop
\* that found its download unfinished and deletes it a moment too late.
WholeKept ==
    [][\A f \in Files : disk[f] = "whole" =>
          \/ disk'[f] = "whole"
          \/ disk'[f] = "absent" /\ ui.pc = "delete" /\ f \in ui.victim]_vars

\* A run of the app leaves at most one unfinished file behind, however its
\* downloads fail, are stopped or are killed.
PartialsBounded == Cardinality({f \in Files : disk[f] = "partial"}) <= launches

\* res/values/strings.xml:27: the switch synchronises all files of the home data
\* centre from the cloud to the box.  Every file that was listed gets there, if
\* nothing fails, the switch is left on, and no other path contains the file's.
AllFetched ==
    [](faults = 0 /\ switches <= 1) =>
        \A s \in Starters : \A f \in {c \in Files : \A l \in Files : <<l, c>> \in Covers => l = c} :
            (starter[s] = "compare" /\ f \in lists.cloud) ~> (disk[f] = "whole")

=============================================================================
