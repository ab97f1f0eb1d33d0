---------------------------- MODULE TVSync_proofs ----------------------------
(***************************************************************************)
(* Proofs about TVSync: a file that is whole on the box is never opened    *)
(* for writing again, for any number of files, threads of the switch,      *)
(* starts of the app and faults.                                           *)
(***************************************************************************)
EXTENDS TVSync, FiniteSetTheorems, TLAPS

Whole(f) == disk[f] = "whole"

\* Where the download thread has a file at hand that it has not opened yet
BeforeCreate == {"open", "ask", "take", "stream", "begin", "create"}

\* What the download thread r is going to open is not whole.
OpensNone(r) ==
    /\ r.pc = "new" => r.list = {} /\ r.cur = {}
    /\ \A f \in r.list : ~Whole(f)
    /\ r.pc \in BeforeCreate => \A f \in r.cur : ~Whole(f)
    /\ r.list \cap r.cur = {}

\* What a thread of the switch has listed is up to date as far as a download that
\* it can still start is concerned: the local files it knows include those that
\* are whole, and it starts none of them.
ListsNone(r) ==
    r.pc = "new" =>
        /\ (\E s \in Starters : starter[s] \in {"cloud", "compare", "start"}) =>
              \A f \in Files : Whole(f) => f \in lists.local
        /\ (\E s \in Starters : starter[s] = "start") => \A f \in lists.todo : ~Whole(f)

\* The inductive invariant.
IInv == TypeOK /\ OpensNone(dl) /\ ListsNone(dl)

-----------------------------------------------------------------------------

\* A process that is gone leaves nothing that could be opened.
LEMMA DownKeeps ==
  ASSUME TypeOK, Down, UNCHANGED <<launches, switches>>, faults' \in Nat
  PROVE  IInv'
  <1>1. Fresh \in Downloading /\ Fresh.pc = "new" /\ Fresh.list = {} /\ Fresh.cur = {}
    BY DEF Fresh, Downloading
  <1>2. NoLists \in Listing /\ Waiting \in Stopping
    BY DEF NoLists, Listing, Waiting, Stopping
  <1>3. starter' \in [Starters -> {"off", "local", "cloud", "compare", "start"}]
    BY DEF Down
  <1>4. \A s \in Starters : starter'[s] = "off"
    BY DEF Down
  <1>5. TypeOK'
    BY <1>1, <1>2, <1>3 DEF TypeOK, Down
  <1>6. OpensNone(dl)'
    BY <1>1 DEF OpensNone, Down, BeforeCreate
  <1>7. ListsNone(dl)'
    BY <1>4 DEF ListsNone
  <1> QED BY <1>5, <1>6, <1>7 DEF IInv

\* A step that makes no file whole and leaves the files at hand alone opens none.
LEMMA SameFiles ==
  ASSUME IInv, TypeOK', dl'.pc = dl.pc, dl'.list = dl.list, dl'.cur = dl.cur,
         \A f \in Files : Whole(f)' => Whole(f), ListsNone(dl)'
  PROVE  IInv'
  <1>1. OpensNone(dl)'
    BY DEF IInv, TypeOK, Downloading, OpensNone
  <1> QED BY <1>1 DEF IInv

\* The same if it leaves the lists alone.
LEMMA SameLists ==
  ASSUME IInv, TypeOK', dl'.pc = dl.pc, dl'.list = dl.list, dl'.cur = dl.cur,
         \A f \in Files : Whole(f)' => Whole(f), UNCHANGED lists,
         \A s \in Starters : starter'[s] \in {starter[s], "off", "local"}
  PROVE  IInv'
  <1>1. ListsNone(dl)'
    BY DEF IInv, TypeOK, Listing, ListsNone
  <1> QED BY <1>1, SameFiles

\* The switch and the start of the app.
LEMMA SwitchKeeps ==
  ASSUME IInv, Launch \/ SwitchOn \/ SwitchOff
  PROVE  IInv'
  <1> USE DEF Whole, Dl
  <1>0. TypeOK
    BY DEF IInv
  <1>1. CASE Launch
    <2>1. TypeOK'
      BY <1>0, <1>1, SyncBoundAssumption DEF TypeOK, Launch
    <2>2. \A s \in Starters : starter'[s] \in {starter[s], "off", "local"}
      BY <1>0, <1>1 DEF TypeOK, Launch
    <2> QED BY <1>1, <2>1, <2>2, SameLists DEF Launch
  <1>2. CASE SwitchOn
    <2>1. TypeOK'
      BY <1>0, <1>2, SyncBoundAssumption DEF TypeOK, SwitchOn
    <2>2. \A s \in Starters : starter'[s] \in {starter[s], "off", "local"}
      BY <1>0, <1>2 DEF TypeOK, SwitchOn
    <2> QED BY <1>2, <2>1, <2>2, SameLists DEF SwitchOn
  <1>3. CASE SwitchOff
    <2>1. dl' \in Downloading /\ dl'.pc = dl.pc /\ dl'.list = dl.list /\ dl'.cur = dl.cur
      BY <1>0, <1>3 DEF TypeOK, Downloading, SwitchOff
    <2>2. ui' \in Stopping
      BY <1>0, <1>3 DEF TypeOK, Stopping, SwitchOff
    <2>3. TypeOK'
      BY <1>0, <1>3, <2>1, <2>2, SyncBoundAssumption DEF TypeOK, SwitchOff
    <2> QED BY <1>3, <2>1, <2>3, SameLists DEF SwitchOff
  <1> QED BY <1>1, <1>2, <1>3

\* The steps of the user interface in a stop.
LEMMA StopKeeps ==
  ASSUME IInv, Stop
  PROVE  IInv'
  <1> USE DEF Whole, Dl, boxState, counters, StopDone
  <1>0. TypeOK
    BY DEF IInv
  <1>w. Waiting \in Stopping
    BY DEF Waiting, Stopping
  <1>1. CASE StopConn
    <2>1. dl' \in Downloading /\ dl'.pc = dl.pc /\ dl'.list = dl.list /\ dl'.cur = dl.cur
      BY <1>0, <1>1 DEF TypeOK, Downloading, StopConn
    <2>2. ui' \in Stopping
      BY <1>0, <1>1, <1>w DEF TypeOK, Stopping, StopConn
    <2>3. TypeOK'
      BY <1>0, <1>1, <2>1, <2>2 DEF TypeOK, StopConn
    <2> QED BY <1>1, <2>1, <2>3, SameLists DEF StopConn
  <1>2. CASE StopNull
    <2>1. dl' \in Downloading /\ dl'.pc = dl.pc /\ dl'.list = dl.list /\ dl'.cur = dl.cur
      BY <1>0, <1>2 DEF TypeOK, Downloading, StopNull
    <2>2. ui' \in Stopping
      BY <1>0, <1>2 DEF TypeOK, Stopping, StopNull
    <2>3. TypeOK'
      BY <1>0, <1>2, <2>1, <2>2 DEF TypeOK, StopNull
    <2> QED BY <1>2, <2>1, <2>3, SameLists DEF StopNull
  <1>3. CASE StopFinish
    <2>1. CASE Down
      BY <1>0, <1>3, <2>1, DownKeeps DEF StopFinish, TypeOK
    <2>2. CASE ~Down
      <3>1. ui' \in Stopping
        BY <1>0, <1>3, <2>2, <1>w DEF TypeOK, Stopping, StopFinish, Downloading
      <3>2. /\ on' \in BOOLEAN /\ up' = up
            /\ UNCHANGED <<disk, cloud, starter, lists, dl, launches, switches, faults>>
        BY <1>0, <1>3, <2>2 DEF TypeOK, StopFinish
      <3>3. TypeOK'
        BY <1>0, <3>1, <3>2 DEF TypeOK
      <3> QED BY <3>2, <3>3, SameLists
    <2> QED BY <2>1, <2>2
  <1>4. CASE StopDelete
    <2>1. TypeOK'
      BY <1>0, <1>4, <1>w DEF TypeOK, StopDelete
    <2>2. \A f \in Files : Whole(f)' => Whole(f)
      BY <1>0, <1>4 DEF TypeOK, StopDelete
    <2> QED BY <1>4, <2>1, <2>2, SameLists DEF StopDelete
  <1> QED BY <1>1, <1>2, <1>3, <1>4 DEF Stop

\* The threads of the switch.
LEMMA SyncKeeps ==
  ASSUME IInv, NEW s \in Starters, Sync(s) \/ ListFails(s)
  PROVE  IInv'
  <1> USE DEF Whole, Dl, boxState, counters, Advance
  <1>0. TypeOK
    BY DEF IInv
  <1>1. CASE ListLocal(s)
    <2>1. lists' \in Listing /\ lists'.local = {f \in Files : disk[f] # "absent"}
          /\ lists'.todo = lists.todo
      BY <1>0, <1>1 DEF TypeOK, Listing, ListLocal
    <2>2. TypeOK'
      BY <1>0, <1>1, <2>1 DEF TypeOK, ListLocal
    <2>3. \A f \in Files : Whole(f) => f \in lists'.local
      BY <2>1
    <2>4. \A q \in Starters : starter'[q] = "start" => starter[q] = "start"
      BY <1>0, <1>1 DEF TypeOK, ListLocal
    <2>5. ListsNone(dl)'
      BY <1>1, <2>1, <2>3, <2>4 DEF IInv, ListsNone, ListLocal
    <2> QED BY <1>1, <2>2, <2>5, SameFiles DEF ListLocal
  <1>2. CASE ListCloud(s) \/ ListFails(s)
    <2>1. lists' \in Listing /\ lists'.local = lists.local /\ lists'.todo = lists.todo
      BY <1>0, <1>2 DEF TypeOK, Listing, ListCloud, ListFails
    <2>2. /\ starter' \in [Starters -> {"off", "local", "cloud", "compare", "start"}]
          /\ UNCHANGED <<disk, cloud, on, up, ui, dl, launches, switches>> /\ faults' \in Nat
      BY <1>0, <1>2, SyncBoundAssumption DEF TypeOK, ListCloud, ListFails, Fault
    <2>3. TypeOK'
      BY <1>0, <2>1, <2>2 DEF TypeOK
    <2>4. /\ starter[s] = "cloud"
          /\ \A q \in Starters : starter'[q] = starter[q] \/ starter'[q] \in {"off", "compare"}
      BY <1>0, <1>2 DEF TypeOK, ListCloud, ListFails
    <2>5. ListsNone(dl)'
      BY <2>1, <2>2, <2>4 DEF IInv, ListsNone
    <2> QED BY <2>2, <2>3, <2>5, SameFiles
  <1>3. CASE Compare(s)
    <2>1. Missing \subseteq Files
      BY <1>0 DEF TypeOK, Listing, Missing
    <2>2. lists' \in Listing /\ lists'.local = lists.local /\ lists'.todo = Missing
      BY <1>0, <1>3, <2>1 DEF TypeOK, Listing, Compare
    <2>3. TypeOK'
      BY <1>0, <1>3, <2>2 DEF TypeOK, Compare
    <2>4. /\ starter[s] = "compare"
          /\ \A q \in Starters : starter'[q] = starter[q] \/ starter'[q] \in {"off", "start"}
      BY <1>0, <1>3 DEF TypeOK, Compare
    <2>5. \A f \in Missing : f \notin lists.local
      BY <1>0, CoversAssumption DEF TypeOK, Listing, Missing
    <2>6. dl.pc = "new" => \A f \in Missing : ~Whole(f)
      BY <2>1, <2>4, <2>5 DEF IInv, ListsNone
    <2>7. UNCHANGED <<disk, dl>>
      BY <1>3 DEF Compare
    <2>8. ListsNone(dl)'
      BY <2>2, <2>4, <2>6, <2>7 DEF IInv, ListsNone
    <2> QED BY <2>3, <2>7, <2>8, SameFiles
  <1>4. CASE Start(s)
    <2>1. CASE Down
      BY <1>0, <1>4, <2>1, DownKeeps DEF Start, TypeOK
    <2>2. CASE ~Down
      <3>1. /\ dl.pc = "new" /\ starter[s] = "start"
            /\ dl' = [dl EXCEPT !.pc = "ready", !.list = lists.todo]
            /\ starter' = [starter EXCEPT ![s] = "off"]
            /\ UNCHANGED <<disk, cloud, on, up, ui, lists, launches, switches, faults>>
        BY <1>4, <2>2 DEF Start
      <3>2. dl' \in Downloading /\ dl'.pc = "ready" /\ dl'.list = lists.todo /\ dl'.cur = dl.cur
        BY <1>0, <3>1 DEF TypeOK, Downloading, Listing
      <3>3. TypeOK'
        BY <1>0, <3>1, <3>2 DEF TypeOK
      <3>4. \A f \in lists.todo : ~Whole(f)
        BY <3>1 DEF IInv, ListsNone
      <3>5. dl.cur = {}
        BY <3>1 DEF IInv, OpensNone
      <3>6. OpensNone(dl)' /\ ListsNone(dl)'
        BY <3>1, <3>2, <3>4, <3>5 DEF OpensNone, ListsNone, BeforeCreate
      <3> QED BY <3>3, <3>6 DEF IInv
    <2> QED BY <2>1, <2>2
  <1> QED BY <1>1, <1>2, <1>3, <1>4 DEF Sync

\* A step of the download thread that leaves the disk alone, and has nothing more
\* at hand than before.
LEMMA OnWithIt ==
  ASSUME IInv, UNCHANGED <<disk, starter, lists>>, TypeOK',
         dl.pc # "new", dl'.pc # "new",
         dl'.list \subseteq dl.list, dl'.cur = dl.cur,
         dl'.pc \in BeforeCreate => dl.pc \in BeforeCreate
  PROVE  IInv'
  <1>1. \A f \in Files : Whole(f)' <=> Whole(f)
    BY DEF Whole
  <1>2. OpensNone(dl)'
    BY <1>1 DEF IInv, TypeOK, Downloading, OpensNone, Whole
  <1>3. ListsNone(dl)'
    BY DEF ListsNone
  <1> QED BY <1>2, <1>3 DEF IInv

\* The uses of the connection: the thread goes on, or the app dies.
LEMMA UsesKeeps ==
  ASSUME IInv, NEW pc, NEW next \in Downloading, Uses(pc, next), pc # "new", next.pc # "new",
         next.list = dl.list, next.cur = dl.cur, next.pc \in BeforeCreate => pc \in BeforeCreate
  PROVE  IInv'
  <1>0. TypeOK
    BY DEF IInv
  <1>1. CASE Down
    BY <1>0, <1>1, DownKeeps DEF Uses, TypeOK, counters
  <1>2. CASE ~Down
    <2>1. dl' = next /\ dl.pc = pc
          /\ UNCHANGED <<disk, cloud, on, up, ui, starter, lists, launches, switches, faults>>
      BY <1>2 DEF Uses, NoConn, Dl, counters, boxState
    <2>2. TypeOK'
      BY <1>0, <2>1 DEF TypeOK
    <2> QED BY <2>1, <2>2, OnWithIt
  <1> QED BY <1>1, <1>2

\* The loop over the list: what it takes out of the list is not whole.
LEMMA NextFileKeeps ==
  ASSUME IInv, NextFile
  PROVE  IInv'
  <1>0. TypeOK
    BY DEF IInv
  <1>1. dl.pc = "next" /\ UNCHANGED <<cloud, on, up, ui, starter, lists, launches, switches, faults>>
    BY DEF NextFile, counters
  <1>2. CASE dl' = [dl EXCEPT !.pc = "over"] /\ UNCHANGED disk
    <2>1. dl' \in Downloading /\ dl'.pc = "over" /\ dl'.list = dl.list /\ dl'.cur = dl.cur
      BY <1>0, <1>2 DEF TypeOK, Downloading
    <2>2. TypeOK'
      BY <1>0, <1>1, <1>2, <2>1 DEF TypeOK
    <2> QED BY <1>1, <1>2, <2>1, <2>2, OnWithIt DEF BeforeCreate
  <1>3. ASSUME NEW f \in Files, f \in dl.list, FetchOf(f)
        PROVE  IInv'
    <2>0. ~Whole(f)
      BY <1>3 DEF IInv, OpensNone
    <2>1. CASE /\ disk' = [disk EXCEPT ![f] = "whole"]
               /\ dl' = [dl EXCEPT !.list = @ \ {f}]
      <3>1. dl' \in Downloading /\ dl'.pc = "next" /\ dl'.list = dl.list \ {f} /\ dl'.cur = dl.cur
        BY <1>0, <1>1, <2>1 DEF TypeOK, Downloading
      <3>2. TypeOK'
        BY <1>0, <1>1, <2>1, <3>1 DEF TypeOK
      <3>3. \A g \in Files \ {f} : Whole(g)' <=> Whole(g)
        BY <1>0, <2>1 DEF TypeOK, Whole
      <3>4. OpensNone(dl)'
        BY <1>0, <3>1, <3>3 DEF IInv, OpensNone, BeforeCreate, TypeOK, Downloading, Whole
      <3> QED BY <3>1, <3>2, <3>4 DEF IInv, ListsNone
    <2>2. CASE /\ dl' = [dl EXCEPT !.list = @ \ {f}, !.cur = {f}, !.pc = "open"]
               /\ UNCHANGED disk
      <3>1. dl' \in Downloading /\ dl'.pc = "open" /\ dl'.list = dl.list \ {f} /\ dl'.cur = {f}
        BY <1>0, <1>1, <2>2 DEF TypeOK, Downloading
      <3>2. TypeOK'
        BY <1>0, <1>1, <2>2, <3>1 DEF TypeOK
      <3>3. OpensNone(dl)'
        BY <2>0, <2>2, <3>1 DEF IInv, OpensNone, Whole
      <3> QED BY <3>1, <3>2, <3>3 DEF IInv, ListsNone
    <2> QED BY <1>3, <2>1, <2>2 DEF FetchOf, Dl
  <1> QED BY <1>2, <1>3 DEF NextFile, IsFirst, Dl

\* Opening the file: it was not whole and it is not now.
LEMMA CreateKeeps ==
  ASSUME IInv, Create
  PROVE  IInv' /\ \A f \in Files : Whole(f) => disk'[f] = disk[f]
  <1>0. TypeOK
    BY DEF IInv
  <1>1. /\ dl.pc = "create" /\ dl' = [dl EXCEPT !.pc = "write"]
        /\ UNCHANGED <<cloud, on, up, ui, starter, lists, launches, switches, faults>>
    BY DEF Create, Dl, counters
  <1>2. dl' \in Downloading /\ dl'.pc = "write" /\ dl'.list = dl.list /\ dl'.cur = dl.cur
    BY <1>0, <1>1 DEF TypeOK, Downloading
  <1>3. disk' = [f \in Files |-> IF f \in dl.cur THEN "partial" ELSE disk[f]]
    BY DEF Create
  <1>4. TypeOK'
    BY <1>0, <1>1, <1>2, <1>3 DEF TypeOK
  <1>5. \A f \in dl.cur : ~Whole(f)
    BY <1>1 DEF IInv, OpensNone, BeforeCreate
  <1>6. \A f \in Files : Whole(f)' => Whole(f)
    BY <1>3 DEF Whole
  <1>7. OpensNone(dl)'
    BY <1>0, <1>2, <1>6 DEF IInv, OpensNone, BeforeCreate, TypeOK, Downloading
  <1>8. IInv'
    BY <1>2, <1>4, <1>7 DEF IInv, ListsNone
  <1> QED BY <1>3, <1>5, <1>8 DEF Whole

\* The end of a transfer makes the file at hand whole; the list has it no more.
LEMMA WriteKeeps ==
  ASSUME IInv, Write
  PROVE  IInv' /\ \A f \in Files : Whole(f) => disk'[f] = disk[f]
  <1>0. TypeOK
    BY DEF IInv
  <1>1. /\ dl.pc = "write" /\ dl' = [dl EXCEPT !.pc = "finish"]
        /\ UNCHANGED <<cloud, on, up, ui, starter, lists, launches, switches, faults>>
    BY DEF Write, Dl, counters
  <1>2. dl' \in Downloading /\ dl'.pc = "finish" /\ dl'.list = dl.list /\ dl'.cur = dl.cur
    BY <1>0, <1>1 DEF TypeOK, Downloading
  <1>3. disk' = [f \in Files |-> IF f \in dl.cur /\ disk[f] = "partial" THEN "whole" ELSE disk[f]]
    BY DEF Write
  <1>4. TypeOK'
    BY <1>0, <1>1, <1>2, <1>3 DEF TypeOK
  <1>5. \A f \in Files \ dl.cur : Whole(f)' => Whole(f)
    BY <1>3 DEF Whole
  <1>6. OpensNone(dl)'
    BY <1>0, <1>2, <1>5 DEF IInv, OpensNone, BeforeCreate, TypeOK, Downloading
  <1>7. IInv'
    BY <1>2, <1>4, <1>6 DEF IInv, ListsNone
  <1> QED BY <1>3, <1>7 DEF Whole

\* The other steps of the download thread.
LEMMA PlainKeeps ==
  ASSUME IInv, Run \/ Open \/ Begin \/ Finish \/ Ended \/ Breaks \/ Refused
  PROVE  IInv'
  <1>0. TypeOK
    BY DEF IInv
  <1>1. /\ UNCHANGED <<disk, on, up, ui, starter, lists, launches, switches>>
        /\ cloud' \subseteq Files /\ faults' \in Nat
    BY <1>0, SyncBoundAssumption DEF TypeOK, Run, Open, Begin, Finish, Ended, Breaks, Refused,
       Quietly, boxState, counters, Cut, Fault
  <1>2. /\ dl' \in Downloading
        /\ dl.pc # "new" /\ dl'.pc # "new" /\ dl'.list \subseteq dl.list /\ dl'.cur = dl.cur
        /\ dl'.pc \in BeforeCreate => dl.pc \in BeforeCreate
    <2>1. CASE Run
      BY <1>0, <2>1 DEF TypeOK, Downloading, BeforeCreate, Dl, Run
    <2>2. CASE Open
      BY <1>0, <2>2 DEF TypeOK, Downloading, BeforeCreate, Dl, Open
    <2>3. CASE Begin
      BY <1>0, <2>3 DEF TypeOK, Downloading, BeforeCreate, Dl, Begin
    <2>4. CASE Finish
      BY <1>0, <2>4 DEF TypeOK, Downloading, BeforeCreate, Dl, Finish
    <2>5. CASE Ended
      BY <1>0, <2>5 DEF TypeOK, Downloading, BeforeCreate, Dl, Ended
    <2>6. CASE Breaks
      BY <1>0, <2>6 DEF TypeOK, Downloading, BeforeCreate, Dl, Breaks, Fragile
    <2>7. CASE Refused
      BY <1>0, <2>7 DEF TypeOK, Downloading, BeforeCreate, Dl, Refused
    <2> QED BY <2>1, <2>2, <2>3, <2>4, <2>5, <2>6, <2>7
  <1>3. TypeOK'
    BY <1>0, <1>1, <1>2 DEF TypeOK
  <1> QED BY <1>1, <1>2, <1>3, OnWithIt

\* Asking, and reading the answer.
LEMMA AskingKeeps ==
  ASSUME IInv, Ask \/ Take \/ Stream \/ Close
  PROVE  IInv'
  <1>0. TypeOK
    BY DEF IInv
  <1>1. CASE Ask
    <2> DEFINE n == [dl EXCEPT !.pc = "take"]
    <2>1. n \in Downloading /\ n.pc = "take" /\ n.list = dl.list /\ n.cur = dl.cur
      BY <1>0 DEF TypeOK, Downloading
    <2>2. Uses("ask", n)
      BY <1>1 DEF Ask
    <2> HIDE DEF n
    <2> QED BY <2>1, <2>2, UsesKeeps DEF BeforeCreate
  <1>2. CASE Take
    <2> DEFINE n == [dl EXCEPT !.pc = "stream", !.target = dl.cur]
    <2>1. n \in Downloading /\ n.pc = "stream" /\ n.list = dl.list /\ n.cur = dl.cur
      BY <1>0 DEF TypeOK, Downloading
    <2>2. Uses("take", n)
      BY <1>2 DEF Take
    <2> HIDE DEF n
    <2> QED BY <2>1, <2>2, UsesKeeps DEF BeforeCreate
  <1>3. CASE Stream
    <2> DEFINE n == [dl EXCEPT !.pc = "begin"]
    <2>1. n \in Downloading /\ n.pc = "begin" /\ n.list = dl.list /\ n.cur = dl.cur
      BY <1>0 DEF TypeOK, Downloading
    <2>2. Uses("stream", n)
      BY <1>3 DEF Stream
    <2> HIDE DEF n
    <2> QED BY <2>1, <2>2, UsesKeeps DEF BeforeCreate
  <1>4. CASE Close
    <2> DEFINE n == [dl EXCEPT !.pc = "next"]
    <2>1. n \in Downloading /\ n.pc = "next" /\ n.list = dl.list /\ n.cur = dl.cur
      BY <1>0 DEF TypeOK, Downloading
    <2>2. Uses("close", n)
      BY <1>4 DEF Close
    <2> HIDE DEF n
    <2> QED BY <2>1, <2>2, UsesKeeps DEF BeforeCreate
  <1> QED BY <1>1, <1>2, <1>3, <1>4

\* The steps that end the process, and those outside of it.
LEMMA OutsideKeeps ==
  ASSUME IInv, Quit \/ Kill \/ (\E f \in Files : Arrive(f)) \/ UNCHANGED vars
  PROVE  IInv'
  <1>0. TypeOK
    BY DEF IInv
  <1>1. CASE Quit
    BY <1>0, <1>1, DownKeeps DEF Quit, counters, TypeOK
  <1>2. CASE Kill
    BY <1>0, <1>2, DownKeeps, SyncBoundAssumption DEF Kill, Fault, TypeOK
  <1>3. ASSUME NEW f \in Files, Arrive(f) PROVE IInv'
    <2>1. TypeOK'
      BY <1>0, <1>3 DEF TypeOK, Arrive, counters
    <2> QED BY <1>3, <2>1, SameLists DEF Arrive, Whole
  <1>4. CASE UNCHANGED vars
    <2>1. TypeOK'
      BY <1>0, <1>4 DEF TypeOK, vars
    <2> QED BY <1>4, <2>1, SameLists DEF vars, Whole
  <1> QED BY <1>1, <1>2, <1>3, <1>4

\* A new box has nothing to lose.
LEMMA InitInv == Init => IInv
  <1> SUFFICES ASSUME Init PROVE IInv
    OBVIOUS
  <1>1. Fresh \in Downloading /\ Fresh.pc = "new" /\ Fresh.list = {} /\ Fresh.cur = {}
    BY DEF Fresh, Downloading
  <1>2. NoLists \in Listing /\ Waiting \in Stopping
    BY DEF NoLists, Listing, Waiting, Stopping
  <1>3. TypeOK
    BY <1>1, <1>2 DEF Init, TypeOK
  <1>4. OpensNone(dl) /\ ListsNone(dl)
    BY <1>1 DEF Init, OpensNone, ListsNone, BeforeCreate
  <1> QED BY <1>3, <1>4 DEF IInv

\* Every step preserves the invariant.
LEMMA NextInv == IInv /\ [Next]_vars => IInv'
  <1> SUFFICES ASSUME IInv, [Next]_vars PROVE IInv'
    OBVIOUS
  <1>1. CASE Download
    BY <1>1, NextFileKeeps, CreateKeeps, WriteKeeps, PlainKeeps, AskingKeeps DEF Download
  <1>2. CASE ~Download
    BY <1>2, SwitchKeeps, StopKeeps, SyncKeeps, PlainKeeps, OutsideKeeps DEF Next, Rest
  <1> QED BY <1>1, <1>2

\* The inductive invariant holds in every reachable state.
THEOREM Invariance == Spec => []IInv
  BY InitInv, NextInv, PTL DEF Spec

\* The box, and what its threads hold, keep their types.
THEOREM TypeCorrect == Spec => []TypeOK
  <1>1. IInv => TypeOK
    BY DEF IInv
  <1> QED BY <1>1, Invariance, PTL

-----------------------------------------------------------------------------

\* What may become of a file that is whole.
Kept(f) ==
    Whole(f) => \/ disk'[f] = "whole"
                \/ disk'[f] = "absent" /\ ui.pc = "delete" /\ f \in ui.victim

\* No step opens a whole file, and only a stop deletes one.
LEMMA NextKeeps == IInv /\ [Next]_vars => \A f \in Files : Kept(f)
  <1> SUFFICES ASSUME IInv, [Next]_vars, NEW f \in Files, Whole(f) PROVE Kept(f)
    BY DEF Kept
  <1>0. TypeOK
    BY DEF IInv
  <1>1. CASE Create \/ Write
    BY <1>1, CreateKeeps, WriteKeeps DEF Kept, Whole
  <1>2. CASE NextFile
    <2>1. disk' = disk \/ \E g \in Files : disk' = [disk EXCEPT ![g] = "whole"]
      BY <1>2 DEF NextFile, FetchOf
    <2> QED BY <1>0, <2>1 DEF Kept, Whole, TypeOK
  <1>3. CASE StopDelete
    BY <1>0, <1>3 DEF Kept, Whole, TypeOK, StopDelete
  <1>4. CASE ~(Create \/ Write \/ NextFile \/ StopDelete)
    <2>1. CASE Down
      BY <2>1 DEF Down, Kept, Whole
    <2>2. CASE ~Down
      <3>1. disk' = disk
        BY <1>4, <2>2 DEF Next, Launch, Quit, Kill, SwitchOn, SwitchOff, Stop, StopConn, StopNull,
           StopFinish, Sync, ListLocal, ListCloud, ListFails, Compare, Start, Download, Run, Open,
           Ask, Take, Stream, Begin, Finish, Ended, Close, Uses, NoConn, Breaks, Refused, Arrive,
           Rest, Quietly, boxState, vars
      <3> QED BY <3>1 DEF Kept, Whole
    <2> QED BY <2>1, <2>2
  <1> QED BY <1>1, <1>2, <1>3, <1>4

\* A file that is whole is never opened for writing again, however many threads
\* the switch starts and whenever the app dies.
THEOREM WholeStaysWhole == Spec => WholeKept
  <1>1. IInv /\ [Next]_vars =>
          [\A f \in Files : disk[f] = "whole" =>
             \/ disk'[f] = "whole"
             \/ disk'[f] = "absent" /\ ui.pc = "delete" /\ f \in ui.victim]_vars
    BY NextKeeps DEF Kept, Whole
  <1> QED BY <1>1, Invariance, PTL DEF Spec, WholeKept

-----------------------------------------------------------------------------
(* Unfinished files.                                                       *)

Parts == {f \in Files : disk[f] = "partial"}

\* This run of the app has left no unfinished file that it is not going to finish.
Clean(r) ==
    /\ r.pc \notin {"write", "over"}
    /\ r.pc \in {"next", "finish", "ended", "close"} => r.list # {}

\* Nothing runs while the app is down.
AtRest == ~up => dl.pc = "new" /\ \A s \in Starters : starter[s] = "off"

\* The runs before this one have left an unfinished file each, at most, and this
\* one only the one it is about to finish, or the one that ended its download.
Room ==
    /\ Cardinality(Parts) <= launches
    /\ up /\ Clean(dl) => Cardinality(Parts) + 1 <= launches
    /\ dl.pc = "write" => Cardinality(Parts \ dl.cur) + 1 <= launches

\* The invariant behind PartialsBounded.
PInv ==
    /\ IInv /\ IsFiniteSet(Parts) /\ AtRest /\ Room
    /\ \A f, g \in dl.cur : f = g

\* What all steps do but Launch, Create and Write: they leave no unfinished file.
Quieter ==
    /\ Parts' \subseteq Parts /\ launches' = launches
    /\ up' => up
    /\ up' /\ Clean(dl)' => Clean(dl)
    /\ dl'.pc = "write" => dl.pc = "write" /\ dl'.cur = dl.cur
    /\ \A f, g \in dl'.cur : f = g
    /\ AtRest'

\* Such a step preserves the invariant.
LEMMA QuieterKeeps ==
  ASSUME PInv, IInv', Quieter
  PROVE  PInv'
  <1>1. IsFiniteSet(Parts) /\ Cardinality(Parts) \in Nat
    BY FS_CardinalityType DEF PInv
  <1>2. IsFiniteSet(Parts') /\ Cardinality(Parts') <= Cardinality(Parts) /\ Cardinality(Parts') \in Nat
    BY <1>1, FS_Subset, FS_CardinalityType DEF Quieter
  <1>3. launches \in Nat
    BY DEF PInv, IInv, TypeOK
  <1>4. dl'.pc = "write" => Cardinality(Parts' \ dl'.cur) + 1 <= launches
    <2> SUFFICES ASSUME dl'.pc = "write" PROVE Cardinality(Parts' \ dl'.cur) + 1 <= launches
      OBVIOUS
    <2>1. dl.pc = "write" /\ dl'.cur = dl.cur
      BY DEF Quieter
    <2>2. Parts' \ dl'.cur \subseteq Parts \ dl.cur /\ Parts \ dl.cur \subseteq Parts
      BY <2>1 DEF Quieter
    <2>3. IsFiniteSet(Parts \ dl.cur) /\ Cardinality(Parts \ dl.cur) \in Nat
      BY <1>1, <2>2, FS_Subset, FS_CardinalityType
    <2>4. /\ Cardinality(Parts' \ dl'.cur) <= Cardinality(Parts \ dl.cur)
          /\ Cardinality(Parts' \ dl'.cur) \in Nat
      BY <2>2, <2>3, FS_Subset, FS_CardinalityType
    <2> QED BY <1>3, <2>1, <2>3, <2>4 DEF PInv, Room
  <1>5. Room'
    BY <1>1, <1>2, <1>3, <1>4 DEF PInv, Room, Quieter
  <1> QED BY <1>2, <1>5 DEF PInv, Quieter

\* A start of the app may leave one more.
LEMMA LaunchRoom ==
  ASSUME PInv, IInv', Launch
  PROVE  PInv'
  <1>1. Parts' = Parts /\ dl' = dl /\ launches' = launches + 1 /\ dl.pc = "new" /\ up' = TRUE
    BY DEF PInv, AtRest, Launch, Parts
  <1>2. launches \in Nat /\ Cardinality(Parts) \in Nat
    BY FS_CardinalityType DEF PInv, IInv, TypeOK
  <1>3. Room'
    BY <1>1, <1>2 DEF PInv, Room
  <1> QED BY <1>1, <1>3 DEF PInv, AtRest

\* The one it may leave is the one it opens.
LEMMA CreateRoom ==
  ASSUME PInv, IInv', Create
  PROVE  PInv'
  <1>1. dl.pc = "create" /\ dl' = [dl EXCEPT !.pc = "write"] /\ UNCHANGED <<up, starter, launches>>
    BY DEF Create, Dl, counters
  <1>2. dl'.pc = "write" /\ dl'.list = dl.list /\ dl'.cur = dl.cur
    BY <1>1 DEF PInv, IInv, TypeOK, Downloading
  <1>3. up /\ Clean(dl)
    BY <1>1 DEF PInv, AtRest, Clean
  <1>4. Parts' \subseteq Parts \cup dl.cur
    BY DEF Create, Parts
  <1>5. launches \in Nat /\ IsFiniteSet(Parts) /\ Cardinality(Parts) \in Nat
        /\ Cardinality(Parts) + 1 <= launches
    BY <1>3, FS_CardinalityType DEF PInv, IInv, TypeOK, Room
  <1>6. IsFiniteSet(Parts') /\ Cardinality(Parts') <= Cardinality(Parts) + 1
    <2>1. CASE dl.cur = {}
      <3>1. Parts' \subseteq Parts
        BY <1>4, <2>1
      <3> QED BY <1>5, <3>1, FS_Subset, FS_CardinalityType
    <2>2. ASSUME NEW f \in dl.cur PROVE IsFiniteSet(Parts') /\ Cardinality(Parts') <= Cardinality(Parts) + 1
      <3>1. dl.cur = {f}
        BY <2>2 DEF PInv
      <3>2. IsFiniteSet(Parts \cup {f}) /\ Cardinality(Parts \cup {f}) <= Cardinality(Parts) + 1
            /\ Cardinality(Parts \cup {f}) \in Nat
        <4>1. /\ IsFiniteSet(Parts \cup {f})
              /\ Cardinality(Parts \cup {f}) =
                    IF f \in Parts THEN Cardinality(Parts) ELSE Cardinality(Parts) + 1
          BY <1>5, FS_AddElement
        <4>2. Cardinality(Parts \cup {f}) \in Nat
          BY <4>1, FS_CardinalityType
        <4> QED BY <1>5, <4>1, <4>2
      <3>3. Parts' \subseteq Parts \cup {f}
        BY <1>4, <3>1
      <3>4. IsFiniteSet(Parts') /\ Cardinality(Parts') <= Cardinality(Parts \cup {f})
            /\ Cardinality(Parts') \in Nat
        BY <3>2, <3>3, FS_Subset, FS_CardinalityType
      <3> QED BY <1>5, <3>2, <3>4
    <2> QED BY <2>1, <2>2
  <1>7. Cardinality(Parts' \ dl.cur) <= Cardinality(Parts) /\ Cardinality(Parts' \ dl.cur) \in Nat
    <2>1. Parts' \ dl.cur \subseteq Parts
      BY <1>4
    <2> QED BY <1>5, <2>1, FS_Subset, FS_CardinalityType
  <1>8. Cardinality(Parts') \in Nat
    BY <1>6, FS_CardinalityType
  <1>9. Room'
    BY <1>1, <1>2, <1>5, <1>6, <1>7, <1>8 DEF Room, Clean
  <1> QED BY <1>1, <1>2, <1>3, <1>6, <1>9 DEF PInv, AtRest

\* A file that was written to its end is not unfinished.
LEMMA WriteRoom ==
  ASSUME PInv, IInv', Write
  PROVE  PInv'
  <1>1. dl.pc = "write" /\ dl' = [dl EXCEPT !.pc = "finish"] /\ UNCHANGED <<up, starter, launches>>
    BY DEF Write, Dl, counters
  <1>2. dl'.pc = "finish" /\ dl'.list = dl.list /\ dl'.cur = dl.cur
    BY <1>1 DEF PInv, IInv, TypeOK, Downloading
  <1>3. Parts' \subseteq Parts \ dl.cur /\ Parts \ dl.cur \subseteq Parts
    BY DEF Write, Parts
  <1>4. launches \in Nat /\ IsFiniteSet(Parts) /\ Cardinality(Parts \ dl.cur) + 1 <= launches
    BY <1>1 DEF PInv, IInv, TypeOK, Room
  <1>5. IsFiniteSet(Parts \ dl.cur) /\ Cardinality(Parts \ dl.cur) \in Nat
    BY <1>3, <1>4, FS_Subset, FS_CardinalityType
  <1>6. IsFiniteSet(Parts') /\ Cardinality(Parts') \in Nat
        /\ Cardinality(Parts') <= Cardinality(Parts \ dl.cur)
    BY <1>3, <1>5, FS_Subset, FS_CardinalityType
  <1>7. Room'
    BY <1>1, <1>2, <1>4, <1>5, <1>6 DEF Room
  <1>8. AtRest'
    BY <1>1 DEF PInv, AtRest
  <1> QED BY <1>2, <1>6, <1>7, <1>8 DEF PInv

\* All other steps are Quieter: those that end the process ...
LEMMA DownQuieter ==
  ASSUME PInv, Down, launches' = launches
  PROVE  Quieter
  <1>1. Fresh.pc = "new" /\ Fresh.cur = {}
    BY DEF Fresh
  <1> QED BY <1>1 DEF Down, Quieter, Parts, AtRest

\* ... those of the user interface and of the threads of the switch ...
LEMMA SwitchQuieter ==
  ASSUME PInv,
         \/ SwitchOn \/ SwitchOff \/ Stop
         \/ \E s \in Starters : Sync(s) \/ ListFails(s)
         \/ \E f \in Files : Arrive(f)
  PROVE  Quieter
  <1>0. TypeOK
    BY DEF PInv, IInv
  <1>1. CASE Down
    <2>1. launches' = launches
      BY DEF SwitchOn, SwitchOff, Stop, StopConn, StopNull, StopFinish, StopDelete, Sync,
         ListLocal, ListCloud, ListFails, Compare, Start, Arrive, counters
    <2> QED BY <1>1, <2>1, DownQuieter
  <1>2. CASE ~Down
    <2>1. /\ Parts' \subseteq Parts
          /\ launches' = launches /\ up' = up
      BY <1>0, <1>2 DEF SwitchOn, SwitchOff, Stop, StopConn, StopNull, StopFinish, StopDelete, Sync,
         ListLocal, ListCloud, ListFails, Compare, Start, Arrive, counters, boxState, Parts
    <2>2. \/ dl'.pc = dl.pc /\ dl'.list = dl.list /\ dl'.cur = dl.cur
          \/ dl.pc = "new" /\ dl'.pc = "ready" /\ dl'.cur = dl.cur
      BY <1>0, <1>2 DEF TypeOK, Downloading, SwitchOn, SwitchOff, Stop, StopConn, StopNull,
         StopFinish, StopDelete, Sync, ListLocal, ListCloud, ListFails, Compare, Start, Arrive,
         counters, boxState, Dl
    <2>3. ~up => dl'.pc = dl.pc /\ starter' = starter
      BY <1>0, <1>2 DEF PInv, AtRest, TypeOK, Downloading, SwitchOn, SwitchOff, Stop, StopConn,
         StopNull, StopFinish, StopDelete, Sync, ListLocal, ListCloud, ListFails, Compare, Start,
         Arrive, counters, boxState, Dl
    <2>4. AtRest'
      BY <2>1, <2>3 DEF PInv, AtRest
    <2>5. Clean(dl)' => Clean(dl)
      BY <2>2 DEF Clean
    <2> QED BY <2>1, <2>2, <2>4, <2>5 DEF Quieter, PInv
  <1> QED BY <1>1, <1>2

\* ... and those of the download thread.
LEMMA DownloadQuieter ==
  ASSUME PInv, Download \/ Breaks \/ Refused, ~Create, ~Write
  PROVE  Quieter
  <1>0. TypeOK
    BY DEF PInv, IInv
  <1>1. CASE Down
    <2>1. launches' = launches
      BY DEF Download, Run, NextFile, Open, Ask, Take, Stream, Begin, Finish, Ended, Close, Uses,
         Quietly, Breaks, Refused, counters
    <2> QED BY <1>1, <2>1, DownQuieter
  <1>2. CASE ~Down
    <2>1. dl.pc # "new" /\ up
      BY <1>2 DEF Download, Run, NextFile, Open, Ask, Take, Stream, Begin, Finish, Ended, Close,
         Uses, Breaks, Refused, Fragile, PInv, AtRest
    <2>2. up' = up /\ starter' = starter /\ launches' = launches
      BY <1>2 DEF Download, Run, NextFile, Open, Ask, Take, Stream, Begin, Finish, Ended, Close,
         Uses, NoConn, Quietly, Breaks, Refused, counters, boxState
    <2>3. CASE NextFile
      <3>1. Parts' \subseteq Parts
        BY <1>0, <2>3 DEF NextFile, FetchOf, Parts, TypeOK
      <3>2. \/ dl'.pc = "over" /\ dl'.cur = dl.cur
            \/ dl'.pc = "next" /\ dl'.cur = dl.cur /\ dl.list # {}
            \/ dl'.pc = "open" /\ dl.list # {} /\ \E f \in Files : dl'.cur = {f}
        BY <1>0, <2>3 DEF NextFile, FetchOf, IsFirst, TypeOK, Downloading, Dl
      <3>3. dl.pc = "next"
        BY <2>3 DEF NextFile
      <3> QED BY <2>1, <2>2, <3>1, <3>2, <3>3 DEF Quieter, PInv, AtRest, Clean
    <2>4. CASE ~NextFile
      <3>1. disk' = disk
        BY <1>2, <2>4 DEF Download, Run, Open, Ask, Take, Stream, Begin, Finish, Ended, Close,
           Uses, NoConn, Quietly, Breaks, Refused, boxState
      <3>2. dl'.cur = dl.cur /\ dl'.pc # "new" /\ dl'.pc # "write" /\ (Clean(dl') => Clean(dl))
        <4>1. CASE Run \/ Open \/ Begin \/ Finish \/ Ended
          BY <1>0, <4>1 DEF TypeOK, Downloading, Dl, Clean, Run, Open, Begin, Finish, Ended
        <4>2. CASE Ask \/ Take \/ Stream \/ Close
          BY <1>0, <1>2, <4>2 DEF TypeOK, Downloading, Dl, Clean, Ask, Take, Stream, Close, Uses, NoConn
        <4>3. CASE Breaks \/ Refused
          BY <1>0, <4>3 DEF TypeOK, Downloading, Dl, Clean, Breaks, Refused, Fragile
        <4> QED BY <2>4, <4>1, <4>2, <4>3 DEF Download
      <3> QED BY <2>1, <2>2, <3>1, <3>2 DEF Quieter, PInv, AtRest, Parts, Clean
    <2> QED BY <2>3, <2>4
  <1> QED BY <1>1, <1>2

\* A new box has no unfinished files.
LEMMA InitRoom == Init => PInv
  <1> SUFFICES ASSUME Init PROVE PInv
    OBVIOUS
  <1>1. Parts = {} /\ ~up /\ launches = 0 /\ dl.pc = "new" /\ dl.cur = {}
    BY DEF Init, Parts, Fresh
  <1>2. IsFiniteSet(Parts) /\ Cardinality(Parts) = 0
    BY <1>1, FS_EmptySet
  <1> QED BY <1>1, <1>2, InitInv DEF Init, PInv, AtRest, Room

\* Every step preserves the invariant.
LEMMA NextRoom == PInv /\ [Next]_vars => PInv'
  <1> SUFFICES ASSUME PInv, [Next]_vars PROVE PInv'
    OBVIOUS
  <1>1. IInv'
    BY NextInv DEF PInv
  <1>2. CASE Launch \/ Create \/ Write
    BY <1>1, <1>2, LaunchRoom, CreateRoom, WriteRoom
  <1>3. CASE Quit \/ Kill
    BY <1>1, <1>3, DownQuieter, QuieterKeeps DEF Quit, Kill, counters
  <1>4. CASE UNCHANGED vars
    BY <1>1, <1>4, QuieterKeeps DEF Quieter, PInv, AtRest, Parts, Clean, vars
  <1>5. CASE ~(Launch \/ Create \/ Write \/ Quit \/ Kill \/ UNCHANGED vars)
    BY <1>1, <1>5, SwitchQuieter, DownloadQuieter, QuieterKeeps DEF Next, Rest
  <1> QED BY <1>2, <1>3, <1>4, <1>5

\* A run of the app leaves at most one unfinished file, however its downloads
\* fail, are stopped or are killed.
THEOREM PartialsStayBounded == Spec => []PartialsBounded
  <1>1. PInv => PartialsBounded
    BY DEF PInv, Room, Parts, PartialsBounded
  <1> QED BY <1>1, InitRoom, NextRoom, PTL DEF Spec
=============================================================================
