------------------------------ MODULE FileStore ------------------------------
(***************************************************************************)
(* The cloud drive: the file table, the blobs on the shared file system,   *)
(* and the servlet threads that serve file requests (FileManager,          *)
(* FileServiceImpl, UploadServlet).                                        *)
(*                                                                         *)
(* Every call of HibernateDao opens a session and commits a transaction of *)
(* its own, so a request is a sequence of transactions that any other      *)
(* thread may interleave with.  One action is one transaction (or one      *)
(* write to the disk) together with the local computation around it.  An   *)
(* update is session.merge of a whole detached entity: it writes back      *)
(* every column the thread read earlier, however stale.                    *)
(*                                                                         *)
(* File ids are hashes of random strings; the model numbers the rows in    *)
(* the order of their insertion instead, so the table is a sequence.       *)
(* Blobs are numbered in the order they are written.                       *)
(***************************************************************************)
EXTENDS Naturals, Sequences, FiniteSets

CONSTANTS
    Users,        \* registered users
    NoUser,       \* the user of a thread that serves no request
    Threads,      \* servlet threads
    Names,        \* the names clients type
    Ops,          \* the kinds of request clients send
    RemoveSource, \* values of the remove_source parameter clients send
    MaxRequests,  \* bound on the number of requests accepted
    MaxList,      \* bound on the number of items of one request
    MaxFaults,    \* bound on the number of failed calls and server crashes
    Seed          \* the table when the server starts

Root == 0

Statuses == {"normal", "delete", "sub_delete", "permanent_delete"}

\* What the loops that look for a free name append, before a counter
Marks == {"_", "_recover_"}

Row == [user : Users, folder : Nat, name : Seq(Names \cup (Marks \X Nat)),
        type : {"folder", "file"}, status : Statuses, blob : Nat]

ASSUME UserAssumption == NoUser \notin Users

\* A table that earlier runs of the server can have left: parents are older
\* than their children, every file has its blob.
ASSUME SeedAssumption ==
    /\ Seed \in Seq(Row)
    /\ \A f \in DOMAIN Seed :
          Seed[f].folder < f /\ (Seed[f].type = "file" => Seed[f].blob \in 1..Len(Seed))

ASSUME BoundAssumption ==
    MaxRequests \in Nat /\ MaxList \in Nat /\ MaxFaults \in Nat

VARIABLES
    files,    \* the file table
    blobs,    \* number of blobs on the disk: blob b is there iff b <= blobs
    thread,   \* what each servlet thread is doing
    served,   \* requests accepted so far
    faults    \* failed calls of the database or the disk, and crashes, so far

vars == <<files, blobs, thread, served, faults>>

-----------------------------------------------------------------------------
(* What a thread holds in its local variables.                             *)

NoRow == [user |-> NoUser, folder |-> Root, name |-> <<>>, type |-> "file",
          status |-> "normal", blob |-> 0]

Idle == [pc |-> "idle", op |-> "none", user |-> NoUser, folder |-> Root,
         ids |-> <<>>, names |-> <<>>, mode |-> "none",
         id |-> 0, row |-> NoRow, orig |-> <<>>, tries |-> 0, stack |-> <<>>]

\* A detached copy of row id, still to be merged back.
Item(id, row) == [id |-> id, row |-> row]

NoItem == Item(0, NoRow)

\* One activation of deleteFileRecursive or recoverFileRecursive: the item to
\* save when it returns (NoItem: none), and the children not yet visited.
Frame(self, pending) == [self |-> self, pending |-> pending]

Lists(S) == UNION {[1..n -> S] : n \in 1..MaxList}

Exists(id) == id \in DOMAIN files

\* Mutant of Children: the user criterion of listSubDirFile is dropped.
ChildrenOfAnyone(user, id) == {c \in DOMAIN files : files[c].folder = id}

\* listSubDirFile: children of any status, of the owner of the folder only
Children(user, id) ==
    {c \in DOMAIN files : files[c].folder = id /\ files[c].user = user}

\* getFileByName(file) # null: another row with the same place, name, status
NameTaken(id, row) ==
    \E f \in DOMAIN files \ {id} :
        /\ files[f].user = row.user
        /\ files[f].folder = row.folder
        /\ files[f].name = row.name
        /\ files[f].status = row.status

\* The while loops that look for a free name append a mark and a counter
Suffixed(name, mark, i) == Append(name, <<mark, i>>)

-----------------------------------------------------------------------------
(* Steps shared by the handlers.                                           *)

Become(t, r) == thread' = [thread EXCEPT ![t] = r]

Accept(t, op) ==
    /\ op \in Ops
    /\ thread[t].pc = "idle"
    /\ served < MaxRequests
    /\ served' = served + 1

At(t, op, pc) == thread[t].op = op /\ thread[t].pc = pc

Quiet == UNCHANGED <<served, faults>>

Reads == Quiet /\ UNCHANGED <<files, blobs>>

Fault == faults < MaxFaults /\ faults' = faults + 1 /\ UNCHANGED served

\* session.merge of a detached copy: every column is written
Merge(id, row) ==
    /\ files' = [files EXCEPT ![id] = row]
    /\ UNCHANGED blobs /\ Quiet

\* The loops over file_id_list and over the items of an upload: on to the next
\* element, or answer.
NextId(r) ==
    IF Tail(r.ids) = <<>> THEN Idle
    ELSE [Idle EXCEPT !.pc = "lookup", !.op = r.op, !.user = r.user,
                      !.mode = r.mode, !.ids = Tail(r.ids)]

NextName(r) ==
    IF Tail(r.names) = <<>> THEN Idle
    ELSE [Idle EXCEPT !.pc = "parent", !.op = r.op, !.user = r.user,
                      !.folder = r.folder, !.names = Tail(r.names)]

NewRow(user, folder, name, type) ==
    [user |-> user, folder |-> folder, name |-> name, type |-> type,
     status |-> "normal", blob |-> 0]

-----------------------------------------------------------------------------
(* FileManager.createFolder                                                *)

\* Accepts the request and looks the parent up for its path.  A parent that is
\* not in the table is a NullPointerException: the request ends.
CreateFolder(t) ==
    /\ Accept(t, "create_folder")
    /\ \E u \in Users, parent \in 0..Len(files)+1, n \in Names :
          IF parent = Root \/ Exists(parent)
          THEN Become(t, [Idle EXCEPT !.pc = "probe", !.op = "create_folder", !.user = u,
                              !.row = NewRow(u, parent, <<n>>, "folder")])
          ELSE UNCHANGED thread
    /\ UNCHANGED <<files, blobs, faults>>

CreateFolderProbe(t) ==
    /\ At(t, "create_folder", "probe")
    /\ IF NameTaken(0, thread[t].row)
       THEN Become(t, Idle)
       ELSE Become(t, [thread[t] EXCEPT !.pc = "insert"])
    /\ Reads

CreateFolderInsert(t) ==
    /\ At(t, "create_folder", "insert")
    /\ files' = Append(files, thread[t].row)
    /\ Become(t, Idle)
    /\ UNCHANGED blobs /\ Quiet

-----------------------------------------------------------------------------
(* UploadServlet.doPost and fileUpload                                     *)

Upload(t) ==
    /\ Accept(t, "upload")
    /\ \E u \in Users, parent \in 0..Len(files)+1, ns \in Lists(Names) :
          Become(t, [Idle EXCEPT !.pc = "parent", !.op = "upload", !.user = u,
                         !.folder = parent, !.names = ns])
    /\ UNCHANGED <<files, blobs, faults>>

\* An item whose parent is not in the table is skipped.
UploadParent(t) ==
    LET r == thread[t]
        new == NewRow(r.user, r.folder, <<Head(r.names)>>, "file")
    IN  /\ At(t, "upload", "parent")
        /\ IF r.folder = Root \/ Exists(r.folder)
           THEN Become(t, [r EXCEPT !.pc = "probe", !.row = new, !.orig = new.name, !.tries = 1])
           ELSE Become(t, NextName(r))
        /\ Reads

\* Mutant of UploadProbe: the name that was taken is tried again.
UploadProbeStuck(t) ==
    LET r == thread[t]
    IN  /\ At(t, "upload", "probe")
        /\ IF NameTaken(0, r.row)
           THEN Become(t, [r EXCEPT !.row.name = r.orig])
           ELSE Become(t, [r EXCEPT !.pc = "write"])
        /\ Reads

UploadProbe(t) ==
    LET r == thread[t]
    IN  /\ At(t, "upload", "probe")
        /\ IF NameTaken(0, r.row)
           THEN Become(t, [r EXCEPT !.row.name = Suffixed(r.orig, "_", r.tries), !.tries = @ + 1])
           ELSE Become(t, [r EXCEPT !.pc = "write"])
        /\ Reads

\* Mutant of UploadWrite: the row is inserted without waiting for the blob.
UploadWriteLater(t) ==
    /\ At(t, "upload", "write")
    /\ Become(t, [thread[t] EXCEPT !.pc = "insert", !.row.blob = blobs + 1])
    /\ Reads

UploadWrite(t) ==
    /\ At(t, "upload", "write")
    /\ blobs' = blobs + 1
    /\ Become(t, [thread[t] EXCEPT !.pc = "insert", !.row.blob = blobs + 1])
    /\ UNCHANGED files /\ Quiet

\* The write throws, and may leave a part of the content: the item is given up.
UploadWriteFails(t) ==
    /\ At(t, "upload", "write")
    /\ blobs' \in {blobs, blobs + 1}
    /\ Become(t, NextName(thread[t]))
    /\ UNCHANGED files /\ Fault

\* Mutant of UploadInsert: the name is checked again, and the item dropped, but
\* not its content.
UploadInsertCautious(t) ==
    /\ At(t, "upload", "insert")
    /\ files' = IF NameTaken(0, thread[t].row) THEN files ELSE Append(files, thread[t].row)
    /\ Become(t, NextName(thread[t]))
    /\ UNCHANGED blobs /\ Quiet

UploadInsert(t) ==
    /\ At(t, "upload", "insert")
    /\ files' = Append(files, thread[t].row)
    /\ Become(t, NextName(thread[t]))
    /\ UNCHANGED blobs /\ Quiet

\* The insert throws: the same handler gives the item up, its content stays.
UploadInsertFails(t) ==
    /\ At(t, "upload", "insert")
    /\ Become(t, NextName(thread[t]))
    /\ UNCHANGED <<files, blobs>> /\ Fault

-----------------------------------------------------------------------------
(* FileManager.delete, FileManager.recover and the recursions under them   *)

Delete(t) ==
    /\ Accept(t, "delete")
    /\ \E u \in Users, ids \in Lists(0..Len(files)), m \in RemoveSource :
          Become(t, [Idle EXCEPT !.pc = "lookup", !.op = "delete", !.user = u,
                         !.ids = ids, !.mode = m])
    /\ UNCHANGED <<files, blobs, faults>>

Recover(t) ==
    /\ Accept(t, "recover")
    /\ \E u \in Users, ids \in Lists(0..Len(files)) :
          Become(t, [Idle EXCEPT !.pc = "lookup", !.op = "recover", !.user = u, !.ids = ids])
    /\ UNCHANGED <<files, blobs, faults>>

\* An id that is unknown, or another user's, ends the whole request; what was
\* done to the ids before it stays done.
Lookup(t) ==
    LET r  == thread[t]
        id == Head(r.ids)
    IN  /\ r.pc = "lookup"
        /\ IF Exists(id) /\ files[id].user = r.user
           THEN Become(t, [r EXCEPT !.pc = "fetch", !.id = id])
           ELSE Become(t, Idle)
        /\ Reads

\* Mutant of Doomed: a status the readers of the table do not know.
DoomedUnknown(mode) == IF mode = "true" THEN "permanent_delete" ELSE "deleted"

\* The status a delete gives to the row it was asked for, and to those beneath
Doomed(mode)    == IF mode = "true" THEN "permanent_delete" ELSE "delete"
SubDoomed(mode) == IF mode = "true" THEN "permanent_delete" ELSE "sub_delete"

\* The status the recursion gives to a row beneath the one asked for
SubStatus(r) == IF r.op = "recover" THEN "normal" ELSE SubDoomed(r.mode)

\* What a recursion over the folder id finds: copies of its children, with the
\* status they are going to be saved with
Visit(r, id) ==
    {Item(c, [files[c] EXCEPT !.status = SubStatus(r)]) : c \in Children(r.user, id)}

\* deleteFile reads the row again; a folder's children are listed by the first
\* activation of deleteFileRecursive.  A remove_source that is neither "true"
\* nor "false" changes nothing.
DeleteFetch(t) ==
    LET r == thread[t]
    IN  /\ At(t, "delete", "fetch")
        /\ IF r.mode \in {"true", "false"}
           THEN LET copy == [files[r.id] EXCEPT !.status = Doomed(r.mode)]
                IN Become(t, [r EXCEPT !.pc = "enter", !.row = copy])
           ELSE Become(t, NextId(r))
        /\ Reads

DeleteEnter(t) ==
    LET r == thread[t]
        pending == IF r.row.type = "folder" THEN Visit(r, r.id) ELSE {}
    IN  /\ At(t, "delete", "enter")
        /\ Become(t, [r EXCEPT !.pc = "walk", !.row = NoRow,
                          !.stack = <<Frame(Item(r.id, r.row), pending)>>])
        /\ Reads

\* recoverFile: the row becomes normal first, whatever its status was ...
RecoverFetch(t) ==
    LET r    == thread[t]
        copy == [files[r.id] EXCEPT !.status = "normal"]
    IN  /\ At(t, "recover", "fetch")
        /\ Become(t, [r EXCEPT !.pc = "activate", !.row = copy, !.orig = copy.name, !.tries = 1])
        /\ Reads

RecoverActivate(t) ==
    /\ At(t, "recover", "activate")
    /\ Merge(thread[t].id, thread[t].row)
    /\ Become(t, [thread[t] EXCEPT !.pc = "probe"])

\* ... then a free name is looked for ...
\* Mutant of RecoverProbe: the old name is taken back unchecked.
RecoverProbeTrusting(t) ==
    /\ At(t, "recover", "probe")
    /\ Become(t, [thread[t] EXCEPT !.pc = "settle"])
    /\ Reads

RecoverProbe(t) ==
    LET r == thread[t]
    IN  /\ At(t, "recover", "probe")
        /\ IF NameTaken(r.id, r.row)
           THEN Become(t, [r EXCEPT !.row.name = Suffixed(r.orig, "_recover_", r.tries),
                               !.tries = @ + 1])
           ELSE Become(t, [r EXCEPT !.pc = "settle"])
        /\ Reads

\* ... and saved; a folder's children follow.
RecoverSettle(t) ==
    LET r == thread[t]
    IN  /\ At(t, "recover", "settle")
        /\ Merge(r.id, r.row)
        /\ Become(t, IF r.row.type = "folder" THEN [r EXCEPT !.pc = "enter"] ELSE NextId(r))

RecoverEnter(t) ==
    LET r == thread[t]
    IN  /\ At(t, "recover", "enter")
        /\ Become(t, [r EXCEPT !.pc = "walk", !.row = NoRow,
                          !.stack = <<Frame(NoItem, Visit(r, r.id))>>])
        /\ Reads

Top(r) == r.stack[Len(r.stack)]
Below(r) == SubSeq(r.stack, 1, Len(r.stack) - 1)

\* Mutant of Descend: the recursive call for a folder is missing.
DescendShallow(t) ==
    LET r == thread[t]
    IN  /\ r.pc = "walk"
        /\ \E c \in Top(r).pending :
              Become(t, [r EXCEPT
                     !.stack = Below(r) \o << [Top(r) EXCEPT !.pending = @ \ {c}], Frame(c, {}) >>])
        /\ Reads

\* The loop over childs takes the next child, in the order the query returned
\* (the query has no ORDER BY), and recurses into it if it is a folder.
Descend(t) ==
    LET r == thread[t]
    IN  /\ r.pc = "walk"
        /\ \E c \in Top(r).pending :
              LET pending == IF c.row.type = "folder" THEN Visit(r, c.id) ELSE {}
              IN Become(t, [r EXCEPT
                     !.stack = Below(r) \o << [Top(r) EXCEPT !.pending = @ \ {c}],
                                              Frame(c, pending) >>])
        /\ Reads

\* The recursion returns: the row it was called for is saved.
Ascend(t) ==
    LET r == thread[t]
    IN  /\ r.pc = "walk"
        /\ Top(r).pending = {}
        /\ IF Top(r).self = NoItem
           THEN Reads
           ELSE Merge(Top(r).self.id, Top(r).self.row)
        /\ Become(t, IF Len(r.stack) = 1 THEN NextId(r) ELSE [r EXCEPT !.stack = Below(r)])

-----------------------------------------------------------------------------
(* FileManager.rename, move and copy                                       *)

\* Mutant of Rename: a renamed row is made normal.
RenameRevives(t) ==
    /\ Accept(t, "rename")
    /\ \E u \in Users, id \in 0..Len(files), n \in Names :
          IF Exists(id) /\ files[id].user = u
          THEN Become(t, [Idle EXCEPT !.pc = "save", !.op = "rename", !.user = u, !.id = id,
                              !.row = [files[id] EXCEPT !.name = <<n>>, !.status = "normal"],
                              !.orig = files[id].name])
          ELSE UNCHANGED thread
    /\ UNCHANGED <<files, blobs, faults>>

Rename(t) ==
    /\ Accept(t, "rename")
    /\ \E u \in Users, id \in 0..Len(files), n \in Names :
          IF Exists(id) /\ files[id].user = u
          THEN Become(t, [Idle EXCEPT !.pc = "save", !.op = "rename", !.user = u, !.id = id,
                              !.row = [files[id] EXCEPT !.name = <<n>>],
                              !.orig = files[id].name])
          ELSE UNCHANGED thread
    /\ UNCHANGED <<files, blobs, faults>>

\* The new name is saved before it is checked.
RenameSave(t) ==
    /\ At(t, "rename", "save")
    /\ Merge(thread[t].id, thread[t].row)
    /\ Become(t, [thread[t] EXCEPT !.pc = "probe"])

RenameProbe(t) ==
    LET r == thread[t]
    IN  /\ At(t, "rename", "probe")
        /\ Become(t, [r EXCEPT !.pc = "settle",
                          !.row.name = IF NameTaken(r.id, r.row) THEN r.orig ELSE @])
        /\ Reads

\* Saved again, with the old name or with the new name and path.
RenameSettle(t) ==
    /\ At(t, "rename", "settle")
    /\ Merge(thread[t].id, thread[t].row)
    /\ Become(t, Idle)

Move(t) ==
    /\ Accept(t, "move")
    /\ \E u \in Users, id \in 0..Len(files), parent \in 0..Len(files) :
          Become(t, [Idle EXCEPT !.pc = "compare", !.op = "move", !.user = u, !.id = id,
                         !.folder = parent])
    /\ UNCHANGED <<files, blobs, faults>>

\* Mutant of MoveCompare: the owner is compared by value and the row is hung
\* elsewhere in place.
MoveCompareByValue(t) ==
    LET r == thread[t]
    IN  /\ At(t, "move", "compare")
        /\ IF Exists(r.id) /\ files[r.id].user = r.user
           THEN files' = [files EXCEPT ![r.id].folder = r.folder]
           ELSE UNCHANGED files
        /\ Become(t, Idle)
        /\ UNCHANGED blobs /\ Quiet

\* move and copy compare the owner with ==, the reference of the parameter
\* with the reference of the column just loaded: two objects, never the same.
\* Nothing is written, and File.move and File.copy answer OK.
MoveCompare(t) ==
    /\ At(t, "move", "compare")
    /\ Become(t, Idle)
    /\ Reads

-----------------------------------------------------------------------------
\* Any other call of the database throws: nothing catches it, the request ends
\* with what it has committed so far.
Abort(t) ==
    /\ thread[t].pc # "idle"
    /\ ~At(t, "upload", "write") /\ ~At(t, "upload", "insert")
    /\ Become(t, Idle)
    /\ UNCHANGED <<files, blobs>> /\ Fault

\* The server process dies and is started again: every thread is lost, the
\* database and the disk keep what was committed.
Crash ==
    /\ thread' = [t \in Threads |-> Idle]
    /\ UNCHANGED <<files, blobs>> /\ Fault

Begin(t) == CreateFolder(t) \/ Upload(t) \/ Delete(t) \/ Recover(t) \/ Rename(t) \/ Move(t)

Continue(t) ==
    \/ CreateFolderProbe(t) \/ CreateFolderInsert(t)
    \/ UploadParent(t) \/ UploadProbe(t) \/ UploadWrite(t) \/ UploadInsert(t)
    \/ Lookup(t) \/ DeleteFetch(t) \/ DeleteEnter(t)
    \/ RecoverFetch(t) \/ RecoverActivate(t) \/ RecoverProbe(t) \/ RecoverSettle(t)
    \/ RecoverEnter(t) \/ Descend(t) \/ Ascend(t)
    \/ RenameSave(t) \/ RenameProbe(t) \/ RenameSettle(t) \/ MoveCompare(t)

Fail(t) == UploadWriteFails(t) \/ UploadInsertFails(t) \/ Abort(t)

Init ==
    /\ files = Seed
    /\ blobs = Len(Seed)
    /\ thread = [t \in Threads |-> Idle]
    /\ served = 0
    /\ faults = 0

\* An idle server waits for requests that need not come.
Wait == (\A t \in Threads : thread[t].pc = "idle") /\ UNCHANGED vars

Next == (\E t \in Threads : Begin(t) \/ Continue(t) \/ Fail(t)) \/ Crash \/ Wait

Spec == Init /\ [][Next]_vars

\* A servlet thread that has accepted a request goes on with it; that requests
\* arrive, and that calls fail, nobody promises.
FairSpec == Spec /\ \A t \in Threads : WF_vars(Continue(t))

-----------------------------------------------------------------------------
(* Properties.                                                             *)

Request == [pc : {"idle", "probe", "insert", "parent", "write", "lookup", "fetch", "enter",
                  "activate", "settle", "walk", "save", "compare"},
            op : {"none", "create_folder", "upload", "delete", "recover", "rename", "move"},
            user : Users \cup {NoUser}, folder : Nat, ids : Seq(Nat), names : Seq(Names),
            mode : RemoveSource \cup {"none"}, id : Nat, row : Row \cup {NoRow},
            orig : Seq(Names \cup (Marks \X Nat)), tries : Nat,
            stack : Seq([self : [id : Nat, row : Row \cup {NoRow}],
                         pending : SUBSET [id : Nat, row : Row]])]

\* Every variable has its type.
TypeOK ==
    /\ files \in Seq(Row)
    /\ blobs \in Nat
    /\ thread \in [Threads -> Request]
    /\ served \in Nat
    /\ faults \in Nat

\* A file in the table has its content on the disk, at whatever point uploads
\* are interleaved, fail or are cut off by a crash: fileUpload writes the blob
\* before it inserts the row, and no merge of a stale copy changes meta_id.
FilesHaveBlobs ==
    \A f \in DOMAIN files : files[f].type = "file" => files[f].blob \in 1..blobs

\* No folder is inside itself: a row hangs beneath a row that is older, so
\* deleteFileRecursive and recoverFileRecursive come to an end.
TreeGrounded == \A f \in DOMAIN files : files[f].folder < f

\* row is a copy of row id, which belongs to user: it may be stale in its name
\* and its status, in nothing else.
CopyOf(id, row, user) ==
    /\ id \in DOMAIN files
    /\ row \in Row
    /\ row.user = user /\ files[id].user = user
    /\ row.folder = files[id].folder
    /\ row.type = files[id].type
    /\ row.blob = files[id].blob

\* row can be inserted: its parent is there, it belongs to the requester.
Insertable(r) ==
    /\ r.row \in Row
    /\ r.row.user = r.user
    /\ r.row.folder \in 0..Len(files)
    /\ r.row.status = "normal"
    /\ r.row.type = (IF r.op = "upload" THEN "file" ELSE "folder")

\* What each thread holds is safe to write at the point it has reached.
HoldsSafely(r) ==
    /\ r.op = "create_folder" => r.pc \in {"probe", "insert"} /\ Insertable(r)
    /\ r.op = "upload" =>
          /\ r.pc \in {"parent", "probe", "write", "insert"} /\ r.names # <<>>
          /\ r.user \in Users
          /\ r.pc # "parent" => Insertable(r)
          /\ r.pc = "insert" => r.row.blob \in 1..blobs
    /\ r.op = "rename" => r.pc \in {"save", "probe", "settle"} /\ CopyOf(r.id, r.row, r.user)
    /\ r.op \in {"delete", "recover"} =>
          /\ r.pc \in {"lookup", "fetch", "enter", "activate", "probe", "settle", "walk"}
          /\ r.ids # <<>>
          /\ r.pc = "fetch" => r.id \in DOMAIN files /\ files[r.id].user = r.user
          /\ r.pc \in {"enter", "activate", "probe", "settle"} => CopyOf(r.id, r.row, r.user)
          /\ r.pc = "walk" =>
                /\ r.stack # <<>>
                /\ \A k \in DOMAIN r.stack :
                      /\ \/ r.stack[k].self = NoItem
                         \/ CopyOf(r.stack[k].self.id, r.stack[k].self.row, r.user)
                      /\ \A c \in r.stack[k].pending : CopyOf(c.id, c.row, r.user)
    /\ r.op = "move" => r.pc = "compare"
    /\ r.op = "none" => r.pc = "idle"

\* Every detached copy agrees with the table on all that identifies the row, so
\* no merge, however late, moves a row, gives it away or changes its content;
\* and every id written is in the table, so merge never inserts.
CopiesAgree == \A t \in Threads : HoldsSafely(thread[t])

\* A request changes rows of its own user only: the owner check is made on the
\* ids of the request, the recursions reach further rows, and every row is
\* written back from a copy that may be stale.
OnlyOwnRows ==
    [][\A f \in DOMAIN files :
          files'[f] # files[f] =>
              \E t \in Threads : thread'[t] # thread[t] /\ files[f].user = thread[t].user]_vars

\* Contents that no row names and no upload is about to name.
Orphans ==
    {b \in 1..blobs :
        /\ \A f \in DOMAIN files : files[f].blob # b
        /\ \A t \in Threads : ~(thread[t].pc = "insert" /\ thread[t].row.blob = b)
        /\ b > Len(Seed)}

\* Content is orphaned by failed calls and by crashes only, at most one blob
\* for each upload in hand then: every other upload names what it wrote.
OrphansOnlyFromFaults == Cardinality(Orphans) <= faults * Cardinality(Threads)

\* Two rows that a listing of one folder would show under the same name
SameListing(f, g) ==
    /\ files[f].status = "normal" /\ files[g].status = "normal"
    /\ files[f].user = files[g].user
    /\ files[f].folder = files[g].folder
    /\ files[f].name = files[g].name

Quiescent == \A t \in Threads : thread[t].pc = "idle"

\* createFolder, fileUpload, recoverFile and rename look for a duplicated name
\* before they settle on one.  Between requests, two rows of the same name are not
\* listed directly beneath the root, which no recursion touches.  (Deeper down they
\* are: recoverFileRecursive revives rows without looking.)
RootNamesUnique ==
    Quiescent => \A f, g \in DOMAIN files :
                    f # g /\ files[f].folder = Root => ~SameListing(f, g)

\* g lies beneath f, through folders of the same user: it is in a set of rows each
\* of which hangs directly beneath f or beneath a folder of the set.  (A row is
\* younger than its parent, so what hangs beneath the set hangs beneath f.)
Beneath(g, f) ==
    /\ files[f].type = "folder"
    /\ \E S \in SUBSET {k \in DOMAIN files : files[k].user = files[f].user} :
          /\ g \in S
          /\ \A k \in S : LET p == files[k].folder
                          IN p = f \/ (p \in S /\ files[p].type = "folder")

\* Whenever the recursion of a delete returns from a row, nothing beneath that row
\* is still listed, and so at the end nothing beneath the row it was asked for: a
\* delete that dies halfway has marked no folder before all that is in it, and can be
\* asked for again (FileServiceImpl.deleteFileRecursive saves a folder last).
SubtreeDeleted ==
    [][\A t \in Threads :
          LET r == thread[t]
          IN /\ At(t, "delete", "walk") /\ Top(r).pending = {}
             /\ thread'[t] # r /\ faults' = faults
             =>
                LET f == Top(r).self.id
                IN \A g \in DOMAIN files :
                      g = f \/ Beneath(g, f) => files'[g].status # "normal"]_vars

\* A row comes back from a deleted status through a recover request only.  This
\* holds as long as requests do not overlap: rename writes the status it read
\* before (FileManager.java:151), so a rename may undo a delete.
OnlyRecoverRevives ==
    [][\A f \in DOMAIN files :
          files[f].status # "normal" /\ files'[f].status = "normal" =>
              \E t \in Threads : thread'[t] # thread[t] /\ thread[t].op = "recover"]_vars

\* Once no more requests come, the server comes to rest: a loop that probes for a
\* free name goes on as long as another request takes the names it tries, a recursion
\* while another adds to the folder it is about to list, and each request ends.
RequestsEnd == (\E t \in Threads : thread[t].pc # "idle") ~> Quiescent

\* The detailed table keeps the promise of the abstract one.
Table == INSTANCE DriveTable WITH Users <- Users, Seed <- Seed, files <- files, blobs <- blobs
TablePromise == Table!Spec

=============================================================================
