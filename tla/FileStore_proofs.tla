--------------------------- MODULE FileStore_proofs ---------------------------
(***************************************************************************)
(* Proofs about FileStore, for any users, threads, names, bounds and seed. *)
(***************************************************************************)
EXTENDS FileStore, SequenceTheorems, FiniteSetTheorems, TLAPS

NameSeq == Seq(Names \cup (Marks \X Nat))
ItemType == [id : Nat, row : Row \cup {NoRow}]
FrameType == [self : ItemType, pending : SUBSET [id : Nat, row : Row]]

\* What a step may do to the table: the identity of the rows it holds stays.
KeepsIdentity ==
    /\ files' \in Seq(Row)
    /\ Len(files) <= Len(files')
    /\ \A f \in DOMAIN files :
          /\ files'[f].user = files[f].user
          /\ files'[f].folder = files[f].folder
          /\ files'[f].type = files[f].type
          /\ files'[f].blob = files[f].blob

\* The inductive invariant.
IInv == TypeOK /\ CopiesAgree /\ FilesHaveBlobs /\ TreeGrounded

-----------------------------------------------------------------------------
(* The three things a step does to the table.                              *)

\* Reading keeps the identity of every row.
LEMMA ReadKeeps == ASSUME TypeOK, UNCHANGED files PROVE KeepsIdentity
  BY DEF TypeOK, KeepsIdentity

\* Merging a copy of a row keeps the identity of every row, and with it the
\* invariants on the table.
LEMMA MergeKeeps ==
  ASSUME TypeOK, FilesHaveBlobs, TreeGrounded, blobs' = blobs,
         NEW id, NEW row, NEW user, CopyOf(id, row, user),
         files' = [files EXCEPT ![id] = row]
  PROVE  KeepsIdentity /\ FilesHaveBlobs' /\ TreeGrounded'
  <1>1. /\ files \in Seq(Row) /\ id \in DOMAIN files /\ row \in Row
        /\ row.user = files[id].user /\ row.folder = files[id].folder
        /\ row.type = files[id].type /\ row.blob = files[id].blob
    BY DEF TypeOK, CopyOf
  <1>2. /\ files' \in Seq(Row) /\ Len(files') = Len(files)
        /\ \A f \in DOMAIN files : files'[f] = IF f = id THEN row ELSE files[f]
    BY <1>1
  <1>3. KeepsIdentity
    BY <1>1, <1>2 DEF KeepsIdentity
  <1>4. FilesHaveBlobs'
    BY <1>1, <1>2 DEF FilesHaveBlobs
  <1>5. TreeGrounded'
    BY <1>1, <1>2 DEF TreeGrounded
  <1> QED BY <1>3, <1>4, <1>5

\* Inserting a row beneath a row that is there keeps them as well.
LEMMA AppendKeeps ==
  ASSUME TypeOK, FilesHaveBlobs, TreeGrounded, blobs' = blobs,
         NEW row \in Row, row.folder \in 0..Len(files),
         row.type = "file" => row.blob \in 1..blobs,
         files' = Append(files, row)
  PROVE  KeepsIdentity /\ FilesHaveBlobs' /\ TreeGrounded'
  <1>1. files \in Seq(Row)
    BY DEF TypeOK
  <1>2. /\ files' \in Seq(Row) /\ Len(files') = Len(files) + 1
        /\ \A f \in DOMAIN files : files'[f] = files[f]
        /\ files'[Len(files) + 1] = row
        /\ \A f \in DOMAIN files' : f \in DOMAIN files \/ f = Len(files) + 1
    BY <1>1
  <1>3. KeepsIdentity
    BY <1>1, <1>2 DEF KeepsIdentity
  <1>4. FilesHaveBlobs'
    BY <1>1, <1>2 DEF FilesHaveBlobs
  <1>5. TreeGrounded'
    BY <1>1, <1>2 DEF TreeGrounded
  <1> QED BY <1>3, <1>4, <1>5

\* What a thread holds stays safe while the table keeps its identities.
LEMMA HoldsStable ==
  ASSUME TypeOK, KeepsIdentity, blobs' \in Nat, blobs <= blobs',
         NEW t \in Threads, NEW r \in Request, thread'[t] = r, HoldsSafely(r)
  PROVE  HoldsSafely(thread[t])'
  <1> DEFINE n == thread'[t]
  <1>1. /\ files \in Seq(Row) /\ files' \in Seq(Row) /\ Len(files) <= Len(files')
        /\ blobs \in Nat /\ blobs' \in Nat /\ blobs <= blobs'
    BY DEF TypeOK, KeepsIdentity
  <1>3. Insertable(r) => Insertable(thread[t])'
    BY <1>1 DEF Insertable
  <1>4. CopyOf(r.id, r.row, r.user) => CopyOf(thread[t].id, thread[t].row, thread[t].user)'
    BY <1>1 DEF CopyOf, KeepsIdentity
  <1>5. r.op \in {"create_folder", "upload", "rename", "move", "none"} => HoldsSafely(thread[t])'
    BY <1>1, <1>3, <1>4 DEF HoldsSafely
  <1>6. \A k \in DOMAIN r.stack :
          /\ CopyOf(r.stack[k].self.id, r.stack[k].self.row, r.user)
                => CopyOf(thread[t].stack[k].self.id, thread[t].stack[k].self.row, thread[t].user)'
          /\ \A c \in r.stack[k].pending : CopyOf(c.id, c.row, r.user) => CopyOf(c.id, c.row, thread[t].user)'
    BY <1>1 DEF CopyOf, KeepsIdentity
  <1>7. r.op \in {"delete", "recover"} => HoldsSafely(thread[t])'
    <2>1. r.pc = "fetch" /\ r.id \in DOMAIN files /\ files[r.id].user = r.user
          => r.id \in DOMAIN files' /\ files'[r.id].user = r.user
      BY <1>1 DEF KeepsIdentity
    <2> QED BY <1>1, <1>4, <1>6, <2>1 DEF HoldsSafely, KeepsIdentity
  <1>8. r.op \in {"none", "create_folder", "upload", "delete", "recover", "rename", "move"}
    BY DEF Request
  <1> QED BY <1>5, <1>7, <1>8

-----------------------------------------------------------------------------
(* What a step of one thread has to establish.                             *)

StepSafe(t) ==
    /\ TypeOK' /\ FilesHaveBlobs' /\ TreeGrounded' /\ KeepsIdentity /\ blobs <= blobs'
    /\ \A s \in Threads \ {t} : thread'[s] = thread[s]
    /\ HoldsSafely(thread[t])'

\* A safe step of one thread preserves the invariant.
LEMMA StepPreserves ==
  ASSUME IInv, NEW t \in Threads, StepSafe(t)
  PROVE  IInv'
  <1>1. ASSUME NEW s \in Threads PROVE HoldsSafely(thread[s])'
    <2>1. CASE s = t
      BY <2>1 DEF StepSafe
    <2>2. CASE s # t
      <3>1. /\ TypeOK /\ KeepsIdentity /\ blobs' \in Nat /\ blobs <= blobs'
            /\ thread'[s] = thread[s] /\ thread[s] \in Request
        BY <2>2 DEF IInv, StepSafe, TypeOK
      <3>2. HoldsSafely(thread[s])
        BY DEF IInv, CopiesAgree
      <3> QED BY <3>1, <3>2, HoldsStable
    <2> QED BY <2>1, <2>2
  <1> QED BY <1>1 DEF IInv, StepSafe, CopiesAgree

\* A thread that goes on to a safe record, over a table that keeps its
\* identities and invariants, makes a safe step.
LEMMA SafeStep ==
  ASSUME IInv, NEW t \in Threads, NEW r \in Request, Become(t, r), HoldsSafely(r),
         KeepsIdentity, FilesHaveBlobs', TreeGrounded', blobs' \in Nat, blobs <= blobs',
         served' \in Nat, faults' \in Nat
  PROVE  StepSafe(t)
  <1>1. thread' = [thread EXCEPT ![t] = r] /\ thread \in [Threads -> Request]
    BY DEF Become, IInv, TypeOK
  <1>2. TypeOK' /\ thread'[t] = r /\ \A s \in Threads \ {t} : thread'[s] = thread[s]
    BY <1>1 DEF TypeOK, KeepsIdentity
  <1>3. HoldsSafely(thread[t])'
    BY <1>2, HoldsStable DEF IInv
  <1> QED BY <1>2, <1>3 DEF StepSafe

\* The three kinds of step: reading, merging, inserting.
LEMMA ReadStep ==
  ASSUME IInv, NEW t \in Threads, NEW r \in Request, Become(t, r), HoldsSafely(r),
         UNCHANGED <<files, blobs, faults>>, served' \in Nat
  PROVE  StepSafe(t)
  <1>1. FilesHaveBlobs' /\ TreeGrounded' /\ KeepsIdentity /\ blobs' \in Nat /\ blobs <= blobs'
        /\ faults' \in Nat
    BY ReadKeeps DEF IInv, TypeOK, FilesHaveBlobs, TreeGrounded
  <1> QED BY <1>1, SafeStep

\* A thread that merges a copy of a row.
LEMMA MergeStep ==
  ASSUME IInv, NEW t \in Threads, NEW r \in Request, Become(t, r), HoldsSafely(r),
         NEW id, NEW row, NEW user, CopyOf(id, row, user), Merge(id, row)
  PROVE  StepSafe(t)
  <1>1. FilesHaveBlobs' /\ TreeGrounded' /\ KeepsIdentity
    BY MergeKeeps DEF IInv, Merge
  <1>2. blobs' \in Nat /\ blobs <= blobs' /\ served' \in Nat /\ faults' \in Nat
    BY DEF IInv, TypeOK, Merge, Quiet
  <1> QED BY <1>1, <1>2, SafeStep

\* A thread that inserts a row.
LEMMA AppendStep ==
  ASSUME IInv, NEW t \in Threads, NEW r \in Request, Become(t, r), HoldsSafely(r),
         NEW row \in Row, row.folder \in 0..Len(files),
         row.type = "file" => row.blob \in 1..blobs,
         files' = Append(files, row), UNCHANGED blobs, Quiet
  PROVE  StepSafe(t)
  <1>1. FilesHaveBlobs' /\ TreeGrounded' /\ KeepsIdentity
    BY AppendKeeps DEF IInv
  <1>2. blobs' \in Nat /\ blobs <= blobs' /\ served' \in Nat /\ faults' \in Nat
    BY DEF IInv, TypeOK, Quiet
  <1> QED BY <1>1, <1>2, SafeStep

-----------------------------------------------------------------------------
(* The records threads go through.                                         *)

\* A thread that serves no request.
LEMMA IdleType == Idle \in Request /\ HoldsSafely(Idle)
  BY DEF Idle, Request, NoRow, Root, HoldsSafely

\* Bounded lists are sequences.
LEMMA ListsAreSeqs == \A S : \A l \in Lists(S) : l \in Seq(S) /\ l # <<>>
  BY BoundAssumption DEF Lists

\* A thread on its way to the next id.
LEMMA NextIdSafe ==
  ASSUME NEW r \in Request, r.op \in {"delete", "recover"}, r.ids # <<>>
  PROVE  NextId(r) \in Request /\ HoldsSafely(NextId(r))
  <1>1. CASE Tail(r.ids) = <<>>
    BY <1>1, IdleType DEF NextId
  <1>2. CASE Tail(r.ids) # <<>>
    <2>1. Tail(r.ids) \in Seq(Nat)
      BY DEF Request
    <2> DEFINE n == [Idle EXCEPT !.pc = "lookup", !.op = r.op, !.user = r.user,
                         !.mode = r.mode, !.ids = Tail(r.ids)]
    <2>2. n \in Request
      <3>1. Idle \in Request
        BY IdleType
      <3> QED BY <2>1, <3>1 DEF Request
    <2>3. n.op = r.op /\ n.pc = "lookup" /\ n.ids = Tail(r.ids)
      BY IdleType DEF Request
    <2>4. HoldsSafely(n)
      BY <1>2, <2>3 DEF HoldsSafely
    <2>5. NextId(r) = n
      BY <1>2 DEF NextId
    <2> HIDE DEF n
    <2> QED BY <2>2, <2>4, <2>5
  <1> QED BY <1>1, <1>2

\* A thread on its way to the next item of an upload.
LEMMA NextNameSafe ==
  ASSUME NEW r \in Request, r.op = "upload", r.names # <<>>, r.user \in Users
  PROVE  NextName(r) \in Request /\ HoldsSafely(NextName(r))
  <1>1. CASE Tail(r.names) = <<>>
    BY <1>1, IdleType DEF NextName
  <1>2. CASE Tail(r.names) # <<>>
    <2>1. Tail(r.names) \in Seq(Names)
      BY DEF Request
    <2> DEFINE n == [Idle EXCEPT !.pc = "parent", !.op = r.op, !.user = r.user,
                         !.folder = r.folder, !.names = Tail(r.names)]
    <2>2. n \in Request
      BY <2>1, IdleType DEF Request
    <2>3. n.op = r.op /\ n.pc = "parent" /\ n.names = Tail(r.names) /\ n.user = r.user
      BY IdleType DEF Request
    <2>4. HoldsSafely(n)
      BY <1>2, <2>3 DEF HoldsSafely
    <2>5. NextName(r) = n
      BY <1>2 DEF NextName
    <2> HIDE DEF n
    <2> QED BY <2>2, <2>4, <2>5
  <1> QED BY <1>1, <1>2

\* A new row.
LEMMA NewRowType ==
  ASSUME NEW u \in Users, NEW f \in Nat, NEW n \in Names, NEW ty \in {"folder", "file"}
  PROVE  NewRow(u, f, <<n>>, ty) \in Row
  BY DEF NewRow, Row, Statuses

\* A name with a mark is a name.
LEMMA SuffixedType ==
  ASSUME NEW n \in NameSeq, NEW m \in Marks, NEW i \in Nat
  PROVE  Suffixed(n, m, i) \in NameSeq
  <1>1. <<m, i>> \in Names \cup (Marks \X Nat)
    OBVIOUS
  <1> QED BY <1>1 DEF Suffixed, NameSeq

-----------------------------------------------------------------------------
(* createFolder and uploads.                                               *)

\* createFolder looks the parent up, then goes on to probe for the name.
LEMMA CreateFolderSafe ==
  ASSUME IInv, NEW t \in Threads, CreateFolder(t)
  PROVE  StepSafe(t)
  <1>0. UNCHANGED <<files, blobs, faults>> /\ served' \in Nat /\ files \in Seq(Row)
    BY DEF CreateFolder, Accept, IInv, TypeOK
  <1>1. PICK u \in Users, parent \in 0..Len(files)+1, n \in Names :
          IF parent = Root \/ Exists(parent)
          THEN Become(t, [Idle EXCEPT !.pc = "probe", !.op = "create_folder", !.user = u,
                              !.row = NewRow(u, parent, <<n>>, "folder")])
          ELSE UNCHANGED thread
    BY DEF CreateFolder
  <1>2. CASE parent = Root \/ Exists(parent)
    <2> DEFINE row == NewRow(u, parent, <<n>>, "folder")
               r == [Idle EXCEPT !.pc = "probe", !.op = "create_folder", !.user = u, !.row = row]
    <2>1. row \in Row /\ parent \in 0..Len(files)
      BY <1>0, <1>2, NewRowType DEF Exists, Root
    <2>2. r \in Request
      BY <2>1, IdleType DEF Request
    <2>3. HoldsSafely(r)
      BY <2>1, IdleType DEF Request, HoldsSafely, Insertable, NewRow
    <2> QED BY <1>0, <1>1, <1>2, <2>2, <2>3, ReadStep
  <1>3. CASE ~(parent = Root \/ Exists(parent))
    <2>1. thread' = thread /\ thread[t] \in Request /\ HoldsSafely(thread[t]) /\ Become(t, thread[t])
      BY <1>1, <1>3 DEF IInv, TypeOK, CopiesAgree, Become
    <2> QED BY <1>0, <2>1, ReadStep
  <1> QED BY <1>2, <1>3

\* createFolder finds the name taken, or free.
LEMMA CreateFolderProbeSafe ==
  ASSUME IInv, NEW t \in Threads, CreateFolderProbe(t)
  PROVE  StepSafe(t)
  <1> DEFINE r == thread[t]
             n == [r EXCEPT !.pc = "insert"]
  <1>1. r \in Request /\ HoldsSafely(r) /\ r.op = "create_folder"
    BY DEF IInv, TypeOK, CopiesAgree, CreateFolderProbe, At
  <1>2. n \in Request
    BY <1>1 DEF Request
  <1>3. HoldsSafely(n)
    BY <1>1, <1>2 DEF HoldsSafely, Insertable, Request
  <1>4. UNCHANGED <<files, blobs, faults>> /\ served' \in Nat
    BY DEF CreateFolderProbe, Reads, Quiet, IInv, TypeOK
  <1>5. Become(t, Idle) \/ Become(t, n)
    BY DEF CreateFolderProbe
  <1> QED BY <1>2, <1>3, <1>4, <1>5, IdleType, ReadStep

\* createFolder inserts a row beneath a parent that is there.
LEMMA CreateFolderInsertSafe ==
  ASSUME IInv, NEW t \in Threads, CreateFolderInsert(t)
  PROVE  StepSafe(t)
  <1>1. thread[t] \in Request /\ HoldsSafely(thread[t]) /\ thread[t].op = "create_folder"
    BY DEF IInv, TypeOK, CopiesAgree, CreateFolderInsert, At
  <1>2. Insertable(thread[t]) /\ thread[t].row.type = "folder"
    BY <1>1 DEF HoldsSafely, Insertable
  <1> QED BY <1>2, IdleType, AppendStep DEF CreateFolderInsert, Insertable

\* An upload is accepted.
LEMMA UploadSafe ==
  ASSUME IInv, NEW t \in Threads, Upload(t)
  PROVE  StepSafe(t)
  <1>0. UNCHANGED <<files, blobs, faults>> /\ served' \in Nat /\ files \in Seq(Row)
    BY DEF Upload, Accept, IInv, TypeOK
  <1>1. PICK u \in Users, parent \in 0..Len(files)+1, ns \in Lists(Names) :
          Become(t, [Idle EXCEPT !.pc = "parent", !.op = "upload", !.user = u,
                         !.folder = parent, !.names = ns])
    BY DEF Upload
  <1> DEFINE r == [Idle EXCEPT !.pc = "parent", !.op = "upload", !.user = u,
                       !.folder = parent, !.names = ns]
  <1>2. ns \in Seq(Names) /\ ns # <<>> /\ parent \in Nat
    BY <1>0, ListsAreSeqs
  <1>3. r \in Request
    BY <1>2, IdleType DEF Request
  <1>4. HoldsSafely(r)
    BY <1>2, IdleType DEF Request, HoldsSafely
  <1> QED BY <1>0, <1>1, <1>3, <1>4, ReadStep

\* The parent of an item is looked up: the row made for it hangs beneath it.
LEMMA UploadParentSafe ==
  ASSUME IInv, NEW t \in Threads, UploadParent(t)
  PROVE  StepSafe(t)
  <1> DEFINE r == thread[t]
             row == NewRow(r.user, r.folder, <<Head(r.names)>>, "file")
             n == [r EXCEPT !.pc = "probe", !.row = row, !.orig = row.name, !.tries = 1]
  <1>1. /\ r \in Request /\ HoldsSafely(r) /\ r.op = "upload" /\ files \in Seq(Row)
        /\ UNCHANGED <<files, blobs, faults>> /\ served' \in Nat
    BY DEF IInv, TypeOK, CopiesAgree, UploadParent, At, Reads, Quiet
  <1>2. r.names # <<>> /\ r.user \in Users /\ r.names \in Seq(Names)
    BY <1>1 DEF HoldsSafely, Request
  <1>3. CASE r.folder = Root \/ Exists(r.folder)
    <2>1. row \in Row /\ r.folder \in 0..Len(files) /\ row.name \in NameSeq
      <3>1. Head(r.names) \in Names /\ r.folder \in Nat
        BY <1>1, <1>2 DEF Request
      <3>2. row \in Row
        BY <3>1, <1>2, NewRowType
      <3> HIDE DEF row, n
      <3>3. row.name \in NameSeq
        BY <3>2 DEF Row, NameSeq
      <3>4. r.folder \in 0..Len(files)
        BY <1>1, <1>3, <3>1 DEF Exists, Root
      <3> QED BY <3>2, <3>3, <3>4
    <2>2. n \in Request
      BY <1>1, <2>1 DEF Request, NameSeq
    <2>3. n.op = "upload" /\ n.pc = "probe" /\ n.names = r.names /\ n.user = r.user /\ n.row = row
      BY <1>1 DEF Request
    <2>4. HoldsSafely(n)
      BY <1>2, <2>1, <2>3 DEF HoldsSafely, Insertable, NewRow
    <2>5. Become(t, n)
      BY <1>3 DEF UploadParent
    <2> HIDE DEF n
    <2> QED BY <1>1, <2>2, <2>4, <2>5, ReadStep
  <1>4. CASE ~(r.folder = Root \/ Exists(r.folder))
    <2>1. Become(t, NextName(r))
      BY <1>4 DEF UploadParent
    <2> QED BY <1>1, <1>2, <2>1, NextNameSafe, ReadStep
  <1> QED BY <1>3, <1>4

\* A name for the item is looked for.
LEMMA UploadProbeSafe ==
  ASSUME IInv, NEW t \in Threads, UploadProbe(t)
  PROVE  StepSafe(t)
  <1> DEFINE r == thread[t]
             m == [r EXCEPT !.row.name = Suffixed(r.orig, "_", r.tries), !.tries = @ + 1]
             n == [r EXCEPT !.pc = "write"]
  <1>1. /\ r \in Request /\ HoldsSafely(r) /\ r.op = "upload" /\ r.pc = "probe"
        /\ UNCHANGED <<files, blobs, faults>> /\ served' \in Nat
    BY DEF IInv, TypeOK, CopiesAgree, UploadProbe, At, Reads, Quiet
  <1>2. r.names # <<>> /\ r.user \in Users /\ Insertable(r) /\ r.row \in Row
    BY <1>1 DEF HoldsSafely, Insertable
  <1>3. m \in Request /\ HoldsSafely(m)
    <2>0. r.orig \in NameSeq /\ r.tries \in Nat
      BY <1>1 DEF Request, NameSeq
    <2>1. Suffixed(r.orig, "_", r.tries) \in NameSeq
      <3>1. "_" \in Marks
        BY DEF Marks
      <3> QED BY <2>0, <3>1, SuffixedType
    <2> DEFINE row == [r.row EXCEPT !.name = Suffixed(r.orig, "_", r.tries)]
    <2>2. row \in Row
      BY <1>2, <2>1 DEF Row, NameSeq
    <2>3. m \in Request
      <3>1. m = [r EXCEPT !.row = row, !.tries = r.tries + 1]
        BY <1>1 DEF Request
      <3>2. r.tries + 1 \in Nat
        BY <2>0
      <3> HIDE DEF row, m
      <3>3. [r EXCEPT !.row = row] \in Request
        BY <1>1, <2>2 DEF Request
      <3>4. m = [[r EXCEPT !.row = row] EXCEPT !.tries = r.tries + 1]
        BY <1>1, <3>1 DEF Request
      <3> QED BY <3>2, <3>3, <3>4 DEF Request
    <2>4. /\ m.op = "upload" /\ m.pc = "probe" /\ m.names = r.names /\ m.user = r.user
          /\ m.row = [r.row EXCEPT !.name = Suffixed(r.orig, "_", r.tries)]
      BY <1>1 DEF Request
    <2> HIDE DEF m
    <2>5. /\ m.row.user = r.row.user /\ m.row.folder = r.row.folder
          /\ m.row.status = r.row.status /\ m.row.type = r.row.type
      <3>1. r.row \in Row
        BY <1>2
      <3> HIDE DEF row
      <3> QED BY <2>4, <3>1 DEF Row
    <2>6. Insertable(m)
      BY <1>1, <1>2, <2>2, <2>4, <2>5 DEF Insertable
    <2> QED BY <1>2, <2>3, <2>4, <2>6 DEF HoldsSafely
  <1>4. n \in Request /\ HoldsSafely(n)
    <2>1. n \in Request
      BY <1>1 DEF Request
    <2>2. /\ n.op = "upload" /\ n.pc = "write" /\ n.names = r.names /\ n.user = r.user /\ n.row = r.row
      BY <1>1 DEF Request
    <2> HIDE DEF n
    <2> QED BY <1>1, <1>2, <2>1, <2>2 DEF HoldsSafely, Insertable
  <1>5. Become(t, m) \/ Become(t, n)
    BY DEF UploadProbe
  <1> HIDE DEF m, n
  <1> QED BY <1>1, <1>3, <1>4, <1>5, ReadStep

\* The blob is on the disk before the thread holds a row that names it.
LEMMA UploadWriteSafe ==
  ASSUME IInv, NEW t \in Threads, UploadWrite(t)
  PROVE  StepSafe(t)
  <1> DEFINE r == thread[t]
             n == [r EXCEPT !.pc = "insert", !.row.blob = blobs + 1]
  <1>1. /\ r \in Request /\ HoldsSafely(r) /\ r.op = "upload" /\ r.pc = "write"
        /\ files' = files /\ blobs \in Nat /\ blobs' = blobs + 1 /\ served' \in Nat
        /\ faults' \in Nat /\ thread \in [Threads -> Request] /\ thread' = [thread EXCEPT ![t] = n]
    BY DEF IInv, TypeOK, CopiesAgree, UploadWrite, At, Quiet, Become
  <1>2. r.names # <<>> /\ r.user \in Users /\ Insertable(r) /\ r.row \in Row
    BY <1>1 DEF HoldsSafely, Insertable
  <1>3. [r.row EXCEPT !.blob = blobs + 1] \in Row
    <2>1. blobs + 1 \in Nat /\ r.row \in Row
      BY <1>1, <1>2
    <2> QED BY <2>1 DEF Row
  <1>4. n \in Request
    BY <1>1, <1>3 DEF Request
  <1>5. /\ n.op = "upload" /\ n.pc = "insert" /\ n.names = r.names /\ n.user = r.user
        /\ n.row = [r.row EXCEPT !.blob = blobs + 1]
    BY <1>1 DEF Request
  <1>6. /\ n.row.user = r.row.user /\ n.row.folder = r.row.folder
        /\ n.row.status = r.row.status /\ n.row.type = r.row.type /\ n.row.blob = blobs + 1
    BY <1>2, <1>5 DEF Row
  <1> HIDE DEF n
  <1>7. thread'[t] = n /\ \A s \in Threads \ {t} : thread'[s] = thread[s]
    BY <1>1
  <1>8. TypeOK'
    BY <1>1, <1>4 DEF IInv, TypeOK
  <1>9. FilesHaveBlobs' /\ TreeGrounded' /\ KeepsIdentity /\ blobs <= blobs'
    BY <1>1, ReadKeeps DEF IInv, FilesHaveBlobs, TreeGrounded
  <1>10. HoldsSafely(thread[t])'
    <2>1. Insertable(thread[t])'
      BY <1>1, <1>2, <1>3, <1>5, <1>6, <1>7 DEF Insertable
    <2>2. /\ n.op = "upload" /\ n.pc = "insert" /\ n.names # <<>> /\ n.user \in Users
          /\ n.row.blob \in 1..blobs'
      BY <1>1, <1>2, <1>5, <1>6
    <2>3. thread'[t] = n
      BY <1>7
    <2> HIDE DEF r
    <2> QED BY <2>1, <2>2, <2>3 DEF HoldsSafely
  <1> QED BY <1>7, <1>8, <1>9, <1>10 DEF StepSafe

\* A thread whose call failed.
LEMMA FaultStep ==
  ASSUME IInv, NEW t \in Threads, NEW r \in Request, Become(t, r), HoldsSafely(r),
         UNCHANGED files, blobs' \in {blobs, blobs + 1}, Fault
  PROVE  StepSafe(t)
  <1>1. blobs \in Nat /\ blobs' \in Nat /\ blobs <= blobs' /\ served' \in Nat /\ faults' \in Nat
    BY DEF IInv, TypeOK, Fault
  <1>2. FilesHaveBlobs' /\ TreeGrounded' /\ KeepsIdentity
    BY <1>1, ReadKeeps DEF IInv, TypeOK, FilesHaveBlobs, TreeGrounded
  <1> QED BY <1>1, <1>2, SafeStep

\* The write fails: on to the next item.
LEMMA UploadWriteFailsSafe ==
  ASSUME IInv, NEW t \in Threads, UploadWriteFails(t)
  PROVE  StepSafe(t)
  <1>1. thread[t] \in Request /\ HoldsSafely(thread[t]) /\ thread[t].op = "upload"
    BY DEF IInv, TypeOK, CopiesAgree, UploadWriteFails, At
  <1>2. thread[t].names # <<>> /\ thread[t].user \in Users
    BY <1>1 DEF HoldsSafely
  <1> QED BY <1>1, <1>2, NextNameSafe, FaultStep DEF UploadWriteFails

\* The insert fails: on to the next item.
LEMMA UploadInsertFailsSafe ==
  ASSUME IInv, NEW t \in Threads, UploadInsertFails(t)
  PROVE  StepSafe(t)
  <1>1. thread[t] \in Request /\ HoldsSafely(thread[t]) /\ thread[t].op = "upload"
    BY DEF IInv, TypeOK, CopiesAgree, UploadInsertFails, At
  <1>2. thread[t].names # <<>> /\ thread[t].user \in Users
    BY <1>1 DEF HoldsSafely
  <1> QED BY <1>1, <1>2, NextNameSafe, FaultStep DEF UploadInsertFails

\* A request is given up.
LEMMA AbortSafe ==
  ASSUME IInv, NEW t \in Threads, Abort(t)
  PROVE  StepSafe(t)
  BY IdleType, FaultStep DEF Abort

\* The row of the item is inserted, after its blob.
LEMMA UploadInsertSafe ==
  ASSUME IInv, NEW t \in Threads, UploadInsert(t)
  PROVE  StepSafe(t)
  <1>1. /\ thread[t] \in Request /\ HoldsSafely(thread[t]) /\ thread[t].op = "upload"
        /\ thread[t].pc = "insert"
    BY DEF IInv, TypeOK, CopiesAgree, UploadInsert, At
  <1>2. /\ thread[t].names # <<>> /\ thread[t].user \in Users /\ Insertable(thread[t])
        /\ thread[t].row.blob \in 1..blobs
    BY <1>1 DEF HoldsSafely
  <1>3. NextName(thread[t]) \in Request /\ HoldsSafely(NextName(thread[t]))
    BY <1>1, <1>2, NextNameSafe
  <1> QED BY <1>2, <1>3, AppendStep DEF UploadInsert, Insertable

-----------------------------------------------------------------------------
(* Deleting and recovering.                                                *)

\* The copies a recursion makes of the children of a folder.
LEMMA VisitSafe ==
  ASSUME IInv, NEW r \in Request, NEW id
  PROVE  /\ Visit(r, id) \in SUBSET [id : Nat, row : Row]
         /\ \A c \in Visit(r, id) : CopyOf(c.id, c.row, r.user)
  <1>1. files \in Seq(Row)
    BY DEF IInv, TypeOK
  <1>2. SubStatus(r) \in Statuses
    BY DEF SubStatus, SubDoomed, Statuses
  <1>3. ASSUME NEW c \in Visit(r, id)
        PROVE  c \in [id : Nat, row : Row] /\ CopyOf(c.id, c.row, r.user)
    <2>1. PICK k \in Children(r.user, id) : c = Item(k, [files[k] EXCEPT !.status = SubStatus(r)])
      BY DEF Visit
    <2> DEFINE row == [files[k] EXCEPT !.status = SubStatus(r)]
    <2>2. k \in DOMAIN files /\ files[k].user = r.user /\ files[k] \in Row /\ k \in Nat
      BY <1>1 DEF Children
    <2>3. /\ row \in Row /\ row.user = files[k].user /\ row.folder = files[k].folder
          /\ row.type = files[k].type /\ row.blob = files[k].blob
      BY <1>2, <2>2 DEF Row
    <2>4. c = [id |-> k, row |-> row]
      BY <2>1 DEF Item
    <2> HIDE DEF row
    <2> QED BY <2>2, <2>3, <2>4 DEF CopyOf
  <1> QED BY <1>3

\* What a thread that deletes or recovers is known to hold.
LEMMA WalkerHolds ==
  ASSUME IInv, NEW t \in Threads, thread[t].op \in {"delete", "recover"}
  PROVE  /\ thread[t] \in Request /\ HoldsSafely(thread[t]) /\ thread[t].ids # <<>>
         /\ thread[t].pc = "fetch" =>
               thread[t].id \in DOMAIN files /\ files[thread[t].id].user = thread[t].user
         /\ thread[t].pc \in {"enter", "activate", "probe", "settle"} =>
               CopyOf(thread[t].id, thread[t].row, thread[t].user)
  BY DEF IInv, TypeOK, CopiesAgree, HoldsSafely

\* A copy of the row just fetched, with another status.
LEMMA FetchedCopy ==
  ASSUME IInv, NEW id \in DOMAIN files, NEW st \in Statuses
  PROVE  /\ [files[id] EXCEPT !.status = st] \in Row
         /\ CopyOf(id, [files[id] EXCEPT !.status = st], files[id].user)
  <1> DEFINE row == [files[id] EXCEPT !.status = st]
  <1>1. files[id] \in Row
    BY DEF IInv, TypeOK
  <1>2. /\ row \in Row /\ row.user = files[id].user /\ row.folder = files[id].folder
        /\ row.type = files[id].type /\ row.blob = files[id].blob
    BY <1>1 DEF Row
  <1> HIDE DEF row
  <1>3. CopyOf(id, row, files[id].user)
    BY <1>2 DEF CopyOf
  <1> QED BY <1>2, <1>3 DEF row

\* The ids of a request.
LEMMA AcceptedIds ==
  ASSUME NEW ids \in Lists(0..Len(files))
  PROVE  ids \in Seq(Nat) /\ ids # <<>>
  <1>1. ids \in Seq(0..Len(files)) /\ ids # <<>>
    BY ListsAreSeqs
  <1>2. 0..Len(files) \subseteq Nat
    OBVIOUS
  <1> QED BY <1>1, <1>2

\* A delete request is accepted.
LEMMA DeleteSafe ==
  ASSUME IInv, NEW t \in Threads, Delete(t)
  PROVE  StepSafe(t)
  <1>0. UNCHANGED <<files, blobs, faults>> /\ served' \in Nat
    BY DEF Delete, Accept, IInv, TypeOK
  <1>1. PICK u \in Users, ids \in Lists(0..Len(files)), m \in RemoveSource :
          Become(t, [Idle EXCEPT !.pc = "lookup", !.op = "delete", !.user = u,
                         !.ids = ids, !.mode = m])
    BY DEF Delete
  <1> DEFINE n == [Idle EXCEPT !.pc = "lookup", !.op = "delete", !.user = u, !.ids = ids, !.mode = m]
  <1>2. ids \in Seq(Nat) /\ ids # <<>>
    BY AcceptedIds
  <1>3. n \in Request /\ HoldsSafely(n)
    <2>1. n \in Request
      BY <1>2, IdleType DEF Request
    <2>2. n.op = "delete" /\ n.pc = "lookup" /\ n.ids = ids
      BY IdleType DEF Request
    <2> HIDE DEF n
    <2> QED BY <1>2, <2>1, <2>2 DEF HoldsSafely
  <1> HIDE DEF n
  <1> QED BY <1>0, <1>1, <1>3, ReadStep DEF n

\* A recover request is accepted.
LEMMA RecoverSafe ==
  ASSUME IInv, NEW t \in Threads, Recover(t)
  PROVE  StepSafe(t)
  <1>0. UNCHANGED <<files, blobs, faults>> /\ served' \in Nat
    BY DEF Recover, Accept, IInv, TypeOK
  <1>1. PICK u \in Users, ids \in Lists(0..Len(files)) :
          Become(t, [Idle EXCEPT !.pc = "lookup", !.op = "recover", !.user = u, !.ids = ids])
    BY DEF Recover
  <1> DEFINE n == [Idle EXCEPT !.pc = "lookup", !.op = "recover", !.user = u, !.ids = ids]
  <1>2. ids \in Seq(Nat) /\ ids # <<>>
    BY AcceptedIds
  <1>3. n \in Request /\ HoldsSafely(n)
    <2>1. n \in Request
      BY <1>2, IdleType DEF Request
    <2>2. n.op = "recover" /\ n.pc = "lookup" /\ n.ids = ids
      BY IdleType DEF Request
    <2> HIDE DEF n
    <2> QED BY <1>2, <2>1, <2>2 DEF HoldsSafely
  <1> HIDE DEF n
  <1> QED BY <1>0, <1>1, <1>3, ReadStep DEF n

\* The owner of the id is looked up.
LEMMA LookupSafe ==
  ASSUME IInv, NEW t \in Threads, Lookup(t)
  PROVE  StepSafe(t)
  <1> DEFINE r == thread[t]
             id == Head(r.ids)
             n == [r EXCEPT !.pc = "fetch", !.id = id]
  <1>1. /\ r \in Request /\ HoldsSafely(r) /\ r.pc = "lookup"
        /\ UNCHANGED <<files, blobs, faults>> /\ served' \in Nat
    BY DEF IInv, TypeOK, CopiesAgree, Lookup, Reads, Quiet
  <1>2. r.op \in {"delete", "recover"} /\ r.ids # <<>> /\ r.ids \in Seq(Nat)
    BY <1>1 DEF HoldsSafely, Request
  <1>3. CASE Exists(id) /\ files[id].user = r.user
    <2>0. id \in Nat
      BY <1>2
    <2>1. n \in Request
      BY <1>1, <2>0 DEF Request
    <2>2. n.op = r.op /\ n.pc = "fetch" /\ n.ids = r.ids /\ n.id = id /\ n.user = r.user
      BY <1>1 DEF Request
    <2>3. Become(t, n)
      BY <1>3 DEF Lookup
    <2> HIDE DEF n
    <2>4. HoldsSafely(n)
      BY <1>2, <1>3, <2>2 DEF HoldsSafely, Exists
    <2> QED BY <1>1, <2>1, <2>3, <2>4, ReadStep
  <1>4. CASE ~(Exists(id) /\ files[id].user = r.user)
    <2>1. Become(t, Idle)
      BY <1>4 DEF Lookup
    <2> QED BY <1>1, <2>1, IdleType, ReadStep
  <1> QED BY <1>3, <1>4

\* The row to delete is read again.
LEMMA DeleteFetchSafe ==
  ASSUME IInv, NEW t \in Threads, DeleteFetch(t)
  PROVE  StepSafe(t)
  <1> DEFINE r == thread[t]
             copy == [files[r.id] EXCEPT !.status = Doomed(r.mode)]
             n == [r EXCEPT !.pc = "enter", !.row = copy]
  <1>1. /\ r.op = "delete" /\ r.pc = "fetch"
        /\ UNCHANGED <<files, blobs, faults>> /\ served' \in Nat
    BY DEF IInv, TypeOK, DeleteFetch, At, Reads, Quiet
  <1>2. /\ r \in Request /\ r.ids # <<>> /\ r.id \in DOMAIN files /\ files[r.id].user = r.user
    BY <1>1, WalkerHolds
  <1>3. CASE r.mode \in {"true", "false"}
    <2>1. copy \in Row /\ CopyOf(r.id, copy, r.user)
      BY <1>2, FetchedCopy DEF Doomed, Statuses
    <2>2. Become(t, n)
      BY <1>3 DEF DeleteFetch
    <2> HIDE DEF copy
    <2>3. n \in Request
      BY <1>2, <2>1 DEF Request
    <2>4. n.op = "delete" /\ n.pc = "enter" /\ n.ids = r.ids /\ n.id = r.id /\ n.user = r.user /\ n.row = copy
      BY <1>1, <1>2 DEF Request
    <2> HIDE DEF n
    <2>5. HoldsSafely(n)
      BY <1>2, <2>1, <2>4 DEF HoldsSafely
    <2> QED BY <1>1, <2>2, <2>3, <2>5, ReadStep
  <1>4. CASE r.mode \notin {"true", "false"}
    <2>1. Become(t, NextId(r))
      BY <1>4 DEF DeleteFetch
    <2> QED BY <1>1, <1>2, <2>1, NextIdSafe, ReadStep
  <1> QED BY <1>3, <1>4

\* A thread that walks down a tree.
LEMMA StackType ==
  ASSUME NEW r \in Request, NEW st \in Seq(FrameType)
  PROVE  [r EXCEPT !.stack = st] \in Request
  BY DEF Request, FrameType, ItemType

\* A thread that enters a recursion.
LEMMA WalkType ==
  ASSUME NEW r \in Request, NEW frame \in FrameType
  PROVE  [r EXCEPT !.pc = "walk", !.row = NoRow, !.stack = <<frame>>] \in Request
  <1>0. <<frame>> \in Seq(FrameType)
    OBVIOUS
  <1>1. [r EXCEPT !.stack = <<frame>>] \in Request
    BY <1>0, StackType
  <1>2. [[r EXCEPT !.stack = <<frame>>] EXCEPT !.pc = "walk", !.row = NoRow] \in Request
    BY <1>1 DEF Request
  <1>3. [r EXCEPT !.pc = "walk", !.row = NoRow, !.stack = <<frame>>]
        = [[r EXCEPT !.stack = <<frame>>] EXCEPT !.pc = "walk", !.row = NoRow]
    BY DEF Request
  <1> QED BY <1>2, <1>3

\* The first activation of deleteFileRecursive.
LEMMA DeleteEnterSafe ==
  ASSUME IInv, NEW t \in Threads, DeleteEnter(t)
  PROVE  StepSafe(t)
  <1> DEFINE r == thread[t]
             pending == IF r.row.type = "folder" THEN Visit(r, r.id) ELSE {}
             frame == Frame(Item(r.id, r.row), pending)
             n == [r EXCEPT !.pc = "walk", !.row = NoRow, !.stack = <<frame>>]
  <1>1. /\ r.op = "delete" /\ r.pc = "enter" /\ Become(t, n)
        /\ UNCHANGED <<files, blobs, faults>> /\ served' \in Nat
    BY DEF IInv, TypeOK, DeleteEnter, At, Reads, Quiet
  <1>2. r \in Request /\ r.ids # <<>> /\ CopyOf(r.id, r.row, r.user)
    BY <1>1, WalkerHolds
  <1>3. pending \in SUBSET [id : Nat, row : Row] /\ \A c \in pending : CopyOf(c.id, c.row, r.user)
    BY <1>2, VisitSafe
  <1> HIDE DEF pending
  <1>4. frame \in FrameType /\ frame.self.id = r.id /\ frame.self.row = r.row /\ frame.pending = pending
    BY <1>2, <1>3 DEF Frame, Item, FrameType, ItemType, Request
  <1> HIDE DEF frame
  <1>5. n \in Request
    BY <1>2, <1>4, WalkType
  <1>6. n.op = "delete" /\ n.pc = "walk" /\ n.ids = r.ids /\ n.user = r.user /\ n.stack = <<frame>>
    BY <1>1, <1>2 DEF Request
  <1> HIDE DEF n, r
  <1>7. HoldsSafely(n)
    BY <1>2, <1>3, <1>4, <1>6 DEF HoldsSafely
  <1> QED BY <1>1, <1>5, <1>7, ReadStep

\* The row to recover is read.
LEMMA RecoverFetchSafe ==
  ASSUME IInv, NEW t \in Threads, RecoverFetch(t)
  PROVE  StepSafe(t)
  <1> DEFINE r == thread[t]
             copy == [files[r.id] EXCEPT !.status = "normal"]
             n == [r EXCEPT !.pc = "activate", !.row = copy, !.orig = copy.name, !.tries = 1]
  <1>1. /\ r.op = "recover" /\ r.pc = "fetch" /\ Become(t, n)
        /\ UNCHANGED <<files, blobs, faults>> /\ served' \in Nat
    BY DEF IInv, TypeOK, RecoverFetch, At, Reads, Quiet
  <1>2. r \in Request /\ r.ids # <<>> /\ r.id \in DOMAIN files /\ files[r.id].user = r.user
    BY <1>1, WalkerHolds
  <1>3. copy \in Row /\ CopyOf(r.id, copy, r.user) /\ copy.name \in NameSeq
    BY <1>2, FetchedCopy DEF Statuses, Row, NameSeq
  <1> HIDE DEF copy
  <1>4. n \in Request
    BY <1>2, <1>3 DEF Request, NameSeq
  <1>5. n.op = "recover" /\ n.pc = "activate" /\ n.ids = r.ids /\ n.id = r.id /\ n.user = r.user /\ n.row = copy
    BY <1>1, <1>2 DEF Request
  <1> HIDE DEF n
  <1>6. HoldsSafely(n)
    BY <1>2, <1>3, <1>5 DEF HoldsSafely
  <1> QED BY <1>1, <1>4, <1>6, ReadStep

\* The row is normal again, under its old name.
LEMMA RecoverActivateSafe ==
  ASSUME IInv, NEW t \in Threads, RecoverActivate(t)
  PROVE  StepSafe(t)
  <1> DEFINE r == thread[t]
             n == [r EXCEPT !.pc = "probe"]
  <1>1. r.op = "recover" /\ r.pc = "activate" /\ Become(t, n) /\ Merge(r.id, r.row)
    BY DEF RecoverActivate, At
  <1>2. r \in Request /\ r.ids # <<>> /\ CopyOf(r.id, r.row, r.user)
    BY <1>1, WalkerHolds
  <1>3. n \in Request
    BY <1>2 DEF Request
  <1>4. n.op = "recover" /\ n.pc = "probe" /\ n.ids = r.ids /\ n.id = r.id /\ n.user = r.user /\ n.row = r.row
    BY <1>1, <1>2 DEF Request
  <1> HIDE DEF n
  <1>5. HoldsSafely(n)
    BY <1>2, <1>4 DEF HoldsSafely
  <1> QED BY <1>1, <1>2, <1>3, <1>5, MergeStep

\* A free name is looked for.
LEMMA RecoverProbeSafe ==
  ASSUME IInv, NEW t \in Threads, RecoverProbe(t)
  PROVE  StepSafe(t)
  <1> DEFINE r == thread[t]
             name == Suffixed(r.orig, "_recover_", r.tries)
             m == [r EXCEPT !.row.name = name, !.tries = @ + 1]
             n == [r EXCEPT !.pc = "settle"]
  <1>1. /\ r.op = "recover" /\ r.pc = "probe" /\ (Become(t, m) \/ Become(t, n))
        /\ UNCHANGED <<files, blobs, faults>> /\ served' \in Nat
    BY DEF IInv, TypeOK, RecoverProbe, At, Reads, Quiet
  <1>2. r \in Request /\ r.ids # <<>> /\ CopyOf(r.id, r.row, r.user)
    BY <1>1, WalkerHolds
  <1>3. m \in Request /\ HoldsSafely(m)
    <2> DEFINE row == [r.row EXCEPT !.name = name]
    <2>1. r.orig \in NameSeq /\ r.tries \in Nat /\ r.tries + 1 \in Nat /\ "_recover_" \in Marks
      <3>1. r.orig \in NameSeq /\ r.tries \in Nat
        BY <1>2 DEF Request, NameSeq
      <3>2. "_recover_" \in Marks
        BY DEF Marks
      <3> QED BY <3>1, <3>2
    <2>2. name \in NameSeq
      BY <2>1, SuffixedType
    <2> HIDE DEF name
    <2>3. /\ row \in Row /\ row.user = r.row.user /\ row.folder = r.row.folder
          /\ row.type = r.row.type /\ row.blob = r.row.blob
      BY <1>2, <2>2 DEF Row, NameSeq, CopyOf
    <2>4. m = [[r EXCEPT !.row = row] EXCEPT !.tries = r.tries + 1]
      BY <1>2 DEF Request
    <2>5. /\ m.op = "recover" /\ m.pc = "probe" /\ m.ids = r.ids /\ m.id = r.id
          /\ m.user = r.user /\ m.row = row
      BY <1>1, <1>2 DEF Request
    <2> HIDE DEF row, m
    <2>6. [r EXCEPT !.row = row] \in Request
      BY <1>2, <2>3 DEF Request
    <2>7. m \in Request
      BY <2>1, <2>4, <2>6 DEF Request
    <2>8. CopyOf(m.id, m.row, m.user)
      BY <1>2, <2>3, <2>5 DEF CopyOf
    <2> QED BY <1>2, <2>5, <2>7, <2>8 DEF HoldsSafely
  <1>4. n \in Request /\ HoldsSafely(n)
    <2>1. n \in Request
      BY <1>2 DEF Request
    <2>2. n.op = "recover" /\ n.pc = "settle" /\ n.ids = r.ids /\ n.id = r.id /\ n.user = r.user /\ n.row = r.row
      BY <1>1, <1>2 DEF Request
    <2> HIDE DEF n
    <2> QED BY <1>2, <2>1, <2>2 DEF HoldsSafely
  <1> HIDE DEF m, n
  <1> QED BY <1>1, <1>3, <1>4, ReadStep

\* The name found is saved.
LEMMA RecoverSettleSafe ==
  ASSUME IInv, NEW t \in Threads, RecoverSettle(t)
  PROVE  StepSafe(t)
  <1> DEFINE r == thread[t]
             n == [r EXCEPT !.pc = "enter"]
  <1>1. /\ r.op = "recover" /\ r.pc = "settle" /\ Merge(r.id, r.row)
        /\ Become(t, n) \/ Become(t, NextId(r))
    BY DEF RecoverSettle, At
  <1>2. r \in Request /\ r.ids # <<>> /\ CopyOf(r.id, r.row, r.user)
    BY <1>1, WalkerHolds
  <1>3. n \in Request
    BY <1>2 DEF Request
  <1>4. n.op = "recover" /\ n.pc = "enter" /\ n.ids = r.ids /\ n.id = r.id /\ n.user = r.user /\ n.row = r.row
    BY <1>1, <1>2 DEF Request
  <1>5. NextId(r) \in Request /\ HoldsSafely(NextId(r))
    BY <1>1, <1>2, NextIdSafe
  <1> HIDE DEF n
  <1>6. HoldsSafely(n)
    BY <1>2, <1>4 DEF HoldsSafely
  <1> QED BY <1>1, <1>2, <1>3, <1>5, <1>6, MergeStep

\* The first activation of recoverFileRecursive.
LEMMA RecoverEnterSafe ==
  ASSUME IInv, NEW t \in Threads, RecoverEnter(t)
  PROVE  StepSafe(t)
  <1> DEFINE r == thread[t]
             pending == Visit(r, r.id)
             frame == Frame(NoItem, pending)
             n == [r EXCEPT !.pc = "walk", !.row = NoRow, !.stack = <<frame>>]
  <1>1. /\ r.op = "recover" /\ r.pc = "enter" /\ Become(t, n)
        /\ UNCHANGED <<files, blobs, faults>> /\ served' \in Nat
    BY DEF IInv, TypeOK, RecoverEnter, At, Reads, Quiet
  <1>2. r \in Request /\ r.ids # <<>>
    BY <1>1, WalkerHolds
  <1>3. pending \in SUBSET [id : Nat, row : Row] /\ \A c \in pending : CopyOf(c.id, c.row, r.user)
    BY <1>2, VisitSafe
  <1> HIDE DEF pending
  <1>4. frame \in FrameType /\ frame.self = NoItem /\ frame.pending = pending
    BY <1>3 DEF Frame, NoItem, Item, FrameType, ItemType
  <1> HIDE DEF frame
  <1>5. n \in Request
    BY <1>2, <1>4, WalkType
  <1>6. n.op = "recover" /\ n.pc = "walk" /\ n.ids = r.ids /\ n.user = r.user /\ n.stack = <<frame>>
    BY <1>1, <1>2 DEF Request
  <1> HIDE DEF n, r
  <1>7. HoldsSafely(n)
    BY <1>2, <1>3, <1>4, <1>6 DEF HoldsSafely
  <1> QED BY <1>1, <1>5, <1>7, ReadStep

\* What a frame of the recursion holds is safe to write.
FrameSafe(f, user) ==
    /\ f.self = NoItem \/ CopyOf(f.self.id, f.self.row, user)
    /\ \A c \in f.pending : CopyOf(c.id, c.row, user)

\* A thread in a recursion holds safe frames only.
LEMMA WalkFrames ==
  ASSUME IInv, NEW t \in Threads, thread[t].pc = "walk"
  PROVE  /\ thread[t] \in Request /\ thread[t].op \in {"delete", "recover"} /\ thread[t].ids # <<>>
         /\ thread[t].stack \in Seq(FrameType) /\ thread[t].stack # <<>>
         /\ \A k \in DOMAIN thread[t].stack : FrameSafe(thread[t].stack[k], thread[t].user)
  <1> DEFINE r == thread[t]
  <1>1. r \in Request /\ HoldsSafely(r)
    BY DEF IInv, TypeOK, CopiesAgree
  <1>2. r.op \in {"delete", "recover"}
    BY <1>1 DEF HoldsSafely, Request
  <1>3. r.stack \in Seq(FrameType)
    BY <1>1 DEF Request, FrameType, ItemType
  <1> HIDE DEF r
  <1>4. r.ids # <<>> /\ r.stack # <<>> /\ \A k \in DOMAIN r.stack : FrameSafe(r.stack[k], r.user)
    BY <1>1, <1>2 DEF HoldsSafely, FrameSafe, r
  <1> QED BY <1>1, <1>2, <1>3, <1>4 DEF r

\* A thread that goes on with safe frames is safe.
LEMMA WalkSafe ==
  ASSUME NEW r \in Request, r.pc = "walk", r.op \in {"delete", "recover"}, r.ids # <<>>,
         NEW st \in Seq(FrameType), st # <<>>,
         \A k \in DOMAIN st : FrameSafe(st[k], r.user)
  PROVE  [r EXCEPT !.stack = st] \in Request /\ HoldsSafely([r EXCEPT !.stack = st])
  <1> DEFINE n == [r EXCEPT !.stack = st]
  <1>1. n \in Request
    BY StackType
  <1>2. n.op = r.op /\ n.pc = "walk" /\ n.ids = r.ids /\ n.user = r.user /\ n.stack = st
    BY DEF Request
  <1> HIDE DEF n
  <1>3. HoldsSafely(n)
    BY <1>2 DEF HoldsSafely, FrameSafe
  <1> QED BY <1>1, <1>3 DEF n

\* The stack without its top.
LEMMA BelowFacts ==
  ASSUME NEW r, r.stack \in Seq(FrameType), r.stack # <<>>
  PROVE  /\ Len(r.stack) \in Nat \ {0}
         /\ Below(r) \in Seq(FrameType) /\ Len(Below(r)) = Len(r.stack) - 1
         /\ \A k \in 1..Len(r.stack)-1 : Below(r)[k] = r.stack[k]
  BY DEF Below

\* Two frames on top of a stack.
LEMMA PushTwo ==
  ASSUME NEW b \in Seq(FrameType), NEW x \in FrameType, NEW y \in FrameType
  PROVE  /\ b \o <<x, y>> \in Seq(FrameType) /\ Len(b \o <<x, y>>) = Len(b) + 2
         /\ \A k \in 1..Len(b) : (b \o <<x, y>>)[k] = b[k]
         /\ (b \o <<x, y>>)[Len(b)+1] = x /\ (b \o <<x, y>>)[Len(b)+2] = y
  <1>1. <<x, y>> \in Seq(FrameType) /\ Len(<<x, y>>) = 2 /\ <<x, y>>[1] = x /\ <<x, y>>[2] = y
    OBVIOUS
  <1> DEFINE two == <<x, y>>
  <1> HIDE DEF two
  <1>2. two \in Seq(FrameType) /\ Len(two) = 2 /\ two[1] = x /\ two[2] = y
    BY <1>1 DEF two
  <1>3. /\ b \o two \in Seq(FrameType) /\ Len(b \o two) = Len(b) + 2
        /\ \A k \in 1..Len(b) : (b \o two)[k] = b[k]
        /\ (b \o two)[Len(b)+1] = x /\ (b \o two)[Len(b)+2] = y
    <2>1. /\ b \o two \in Seq(FrameType)
          /\ Len(b \o two) = Len(b) + Len(two)
          /\ \A i \in 1 .. Len(b) + Len(two) :
                (b \o two)[i] = IF i <= Len(b) THEN b[i] ELSE two[i - Len(b)]
      BY <1>2, ConcatProperties
    <2>2. Len(b) \in Nat
      OBVIOUS
    <2>3. (Len(b) + 1) - Len(b) = 1 /\ (Len(b) + 2) - Len(b) = 2
      BY <2>2
    <2> QED BY <1>2, <2>1, <2>2, <2>3
  <1> QED BY <1>3 DEF two

\* The recursion goes into a child.
LEMMA DescendSafe ==
  ASSUME IInv, NEW t \in Threads, Descend(t)
  PROVE  StepSafe(t)
  <1> DEFINE r == thread[t]
             L == Len(r.stack)
  <1>1. r.pc = "walk" /\ UNCHANGED <<files, blobs, faults>> /\ served' \in Nat
    BY DEF IInv, TypeOK, Descend, Reads, Quiet
  <1>2. /\ r \in Request /\ r.op \in {"delete", "recover"} /\ r.ids # <<>>
        /\ r.stack \in Seq(FrameType) /\ r.stack # <<>>
        /\ \A k \in DOMAIN r.stack : FrameSafe(r.stack[k], r.user)
    BY <1>1, WalkFrames
  <1>3. PICK c \in Top(r).pending :
          Become(t, [r EXCEPT
             !.stack = Below(r) \o << [Top(r) EXCEPT !.pending = @ \ {c}],
                                      Frame(c, IF c.row.type = "folder" THEN Visit(r, c.id) ELSE {}) >>])
    BY DEF Descend
  <1> DEFINE pending == IF c.row.type = "folder" THEN Visit(r, c.id) ELSE {}
             top == [Top(r) EXCEPT !.pending = @ \ {c}]
             new == Frame(c, pending)
             st == Below(r) \o <<top, new>>
  <1>4. L \in Nat \ {0} /\ Top(r) \in FrameType /\ FrameSafe(Top(r), r.user)
    BY <1>2 DEF Top
  <1>5. c \in [id : Nat, row : Row] /\ CopyOf(c.id, c.row, r.user)
    BY <1>4 DEF FrameType, FrameSafe
  <1>6. pending \in SUBSET [id : Nat, row : Row] /\ \A d \in pending : CopyOf(d.id, d.row, r.user)
    BY <1>2, VisitSafe
  <1> HIDE DEF pending
  <1>7. top \in FrameType /\ FrameSafe(top, r.user)
    BY <1>4 DEF FrameType, FrameSafe
  <1>8. new \in FrameType /\ FrameSafe(new, r.user)
    BY <1>5, <1>6 DEF FrameType, FrameSafe, Frame, ItemType
  <1> HIDE DEF top, new
  <1>9. /\ Below(r) \in Seq(FrameType) /\ Len(Below(r)) = L - 1
        /\ \A k \in 1..L-1 : Below(r)[k] = r.stack[k]
    BY <1>2, BelowFacts
  <1>10. /\ st \in Seq(FrameType) /\ Len(st) = L + 1
         /\ \A k \in 1..L-1 : st[k] = r.stack[k]
         /\ st[L] = top /\ st[L+1] = new
    <2>1. L - 1 \in Nat /\ (L - 1) + 1 = L /\ (L - 1) + 2 = L + 1
      BY <1>4
    <2> DEFINE b == Below(r)
    <2>2. b \in Seq(FrameType) /\ Len(b) = L - 1 /\ \A k \in 1..L-1 : b[k] = r.stack[k]
      BY <1>9
    <2> HIDE DEF b, L
    <2>3. /\ b \o <<top, new>> \in Seq(FrameType) /\ Len(b \o <<top, new>>) = Len(b) + 2
          /\ \A k \in 1..Len(b) : (b \o <<top, new>>)[k] = b[k]
          /\ (b \o <<top, new>>)[Len(b)+1] = top /\ (b \o <<top, new>>)[Len(b)+2] = new
      BY <1>7, <1>8, <2>2, PushTwo
    <2>4. st = b \o <<top, new>>
      BY DEF b
    <2> HIDE DEF st
    <2> QED BY <2>1, <2>2, <2>3, <2>4
  <1> HIDE DEF st
  <1>11. ASSUME NEW k \in DOMAIN st PROVE FrameSafe(st[k], r.user)
    <2>1. k \in 1..L-1 \/ k = L \/ k = L + 1
      BY <1>4, <1>10
    <2>2. CASE k \in 1..L-1
      BY <2>2, <1>2, <1>4, <1>10
    <2> QED BY <2>1, <2>2, <1>7, <1>8, <1>10
  <1>12. st # <<>>
    BY <1>4, <1>10
  <1>13. [r EXCEPT !.stack = st] \in Request /\ HoldsSafely([r EXCEPT !.stack = st])
    BY <1>1, <1>2, <1>10, <1>11, <1>12, WalkSafe
  <1>14. Become(t, [r EXCEPT !.stack = st])
    BY <1>3 DEF st, top, new, pending
  <1> QED BY <1>1, <1>13, <1>14, ReadStep

\* The recursion returns.
LEMMA AscendSafe ==
  ASSUME IInv, NEW t \in Threads, Ascend(t)
  PROVE  StepSafe(t)
  <1> DEFINE r == thread[t]
             L == Len(r.stack)
             n == IF L = 1 THEN NextId(r) ELSE [r EXCEPT !.stack = Below(r)]
  <1>1. r.pc = "walk" /\ Become(t, n)
    BY DEF Ascend
  <1>2. /\ r \in Request /\ r.op \in {"delete", "recover"} /\ r.ids # <<>>
        /\ r.stack \in Seq(FrameType) /\ r.stack # <<>>
        /\ \A k \in DOMAIN r.stack : FrameSafe(r.stack[k], r.user)
    BY <1>1, WalkFrames
  <1>3. L \in Nat \ {0} /\ FrameSafe(Top(r), r.user)
    BY <1>2 DEF Top
  <1>4. n \in Request /\ HoldsSafely(n)
    <2>1. CASE L = 1
      BY <2>1, <1>2, NextIdSafe
    <2>2. CASE L # 1
      <3>1. /\ Below(r) \in Seq(FrameType) /\ Below(r) # <<>>
            /\ \A k \in DOMAIN Below(r) : k \in DOMAIN r.stack /\ Below(r)[k] = r.stack[k]
        <4>1. /\ Below(r) \in Seq(FrameType) /\ Len(Below(r)) = L - 1
              /\ \A k \in 1..L-1 : Below(r)[k] = r.stack[k]
          BY <1>2, BelowFacts
        <4>2. DOMAIN Below(r) = 1..L-1 /\ DOMAIN r.stack = 1..L
          BY <4>1, <1>2, <1>3
        <4>3. Below(r) # <<>>
          <5>1. Len(Below(r)) # 0
            BY <2>2, <1>3, <4>1
          <5> QED BY <5>1, <4>1, EmptySeq
        <4>4. 1..L-1 \subseteq 1..L
          BY <1>3
        <4> QED BY <4>1, <4>2, <4>3, <4>4
      <3>2. \A k \in DOMAIN Below(r) : FrameSafe(Below(r)[k], r.user)
        BY <3>1, <1>2
      <3>3. [r EXCEPT !.stack = Below(r)] \in Request /\ HoldsSafely([r EXCEPT !.stack = Below(r)])
        BY <1>1, <1>2, <3>1, <3>2, WalkSafe
      <3> QED BY <2>2, <3>3
    <2> QED BY <2>1, <2>2
  <1> HIDE DEF n
  <1>5. CASE Top(r).self = NoItem
    <2>1. UNCHANGED <<files, blobs, faults>> /\ served' \in Nat
      BY <1>5 DEF IInv, TypeOK, Ascend, Reads, Quiet
    <2> QED BY <1>1, <1>4, <2>1, ReadStep
  <1>6. CASE Top(r).self # NoItem
    <2>1. Merge(Top(r).self.id, Top(r).self.row)
      BY <1>6 DEF Ascend
    <2>2. CopyOf(Top(r).self.id, Top(r).self.row, r.user)
      BY <1>3, <1>6 DEF FrameSafe
    <2> QED BY <1>1, <1>4, <2>1, <2>2, MergeStep
  <1> QED BY <1>5, <1>6

-----------------------------------------------------------------------------
(* Renaming, moving.                                                       *)

\* What a thread that renames is known to hold.
LEMMA RenamerHolds ==
  ASSUME IInv, NEW t \in Threads, thread[t].op = "rename"
  PROVE  thread[t] \in Request /\ CopyOf(thread[t].id, thread[t].row, thread[t].user)
  BY DEF IInv, TypeOK, CopiesAgree, HoldsSafely

\* A rename request is accepted: the row is read under its old name.
LEMMA RenameSafe ==
  ASSUME IInv, NEW t \in Threads, Rename(t)
  PROVE  StepSafe(t)
  <1>0. UNCHANGED <<files, blobs, faults>> /\ served' \in Nat /\ files \in Seq(Row)
    BY DEF Rename, Accept, IInv, TypeOK
  <1>1. PICK u \in Users, id \in 0..Len(files), m \in Names :
          IF Exists(id) /\ files[id].user = u
          THEN Become(t, [Idle EXCEPT !.pc = "save", !.op = "rename", !.user = u, !.id = id,
                              !.row = [files[id] EXCEPT !.name = <<m>>],
                              !.orig = files[id].name])
          ELSE UNCHANGED thread
    BY DEF Rename
  <1>2. CASE Exists(id) /\ files[id].user = u
    <2> DEFINE row == [files[id] EXCEPT !.name = <<m>>]
               n == [Idle EXCEPT !.pc = "save", !.op = "rename", !.user = u, !.id = id,
                         !.row = row, !.orig = files[id].name]
    <2>1. id \in DOMAIN files /\ files[id] \in Row /\ id \in Nat
      BY <1>0, <1>2 DEF Exists
    <2>2. <<m>> \in NameSeq /\ files[id].name \in NameSeq
      BY <2>1 DEF NameSeq, Row
    <2>3. /\ row \in Row /\ row.user = files[id].user /\ row.folder = files[id].folder
          /\ row.type = files[id].type /\ row.blob = files[id].blob
      BY <2>1, <2>2 DEF Row, NameSeq
    <2> HIDE DEF row
    <2>4. n \in Request
      BY <2>1, <2>2, <2>3, IdleType DEF Request, NameSeq
    <2>5. n.op = "rename" /\ n.pc = "save" /\ n.id = id /\ n.user = u /\ n.row = row
      BY IdleType DEF Request
    <2> HIDE DEF n
    <2>6. CopyOf(n.id, n.row, n.user)
      BY <1>2, <2>1, <2>3, <2>5 DEF CopyOf
    <2>7. HoldsSafely(n)
      BY <2>5, <2>6 DEF HoldsSafely
    <2> QED BY <1>0, <1>1, <1>2, <2>4, <2>7, ReadStep DEF n, row
  <1>3. CASE ~(Exists(id) /\ files[id].user = u)
    <2>1. thread' = thread /\ thread[t] \in Request /\ HoldsSafely(thread[t]) /\ Become(t, thread[t])
      BY <1>1, <1>3 DEF IInv, TypeOK, CopiesAgree, Become
    <2> QED BY <1>0, <2>1, ReadStep
  <1> QED BY <1>2, <1>3

\* The new name is saved.
LEMMA RenameSaveSafe ==
  ASSUME IInv, NEW t \in Threads, RenameSave(t)
  PROVE  StepSafe(t)
  <1> DEFINE r == thread[t]
             n == [r EXCEPT !.pc = "probe"]
  <1>1. r.op = "rename" /\ r.pc = "save" /\ Become(t, n) /\ Merge(r.id, r.row)
    BY DEF RenameSave, At
  <1>2. r \in Request /\ CopyOf(r.id, r.row, r.user)
    BY <1>1, RenamerHolds
  <1>3. n \in Request
    BY <1>2 DEF Request
  <1>4. n.op = "rename" /\ n.pc = "probe" /\ n.id = r.id /\ n.user = r.user /\ n.row = r.row
    BY <1>1, <1>2 DEF Request
  <1> HIDE DEF n
  <1>5. HoldsSafely(n)
    BY <1>2, <1>4 DEF HoldsSafely
  <1> QED BY <1>1, <1>2, <1>3, <1>5, MergeStep

\* The name is checked, and given up if it is taken.
LEMMA RenameProbeSafe ==
  ASSUME IInv, NEW t \in Threads, RenameProbe(t)
  PROVE  StepSafe(t)
  <1> DEFINE r == thread[t]
             name == IF NameTaken(r.id, r.row) THEN r.orig ELSE r.row.name
             row == [r.row EXCEPT !.name = name]
             n == [r EXCEPT !.pc = "settle", !.row = row]
  <1>1. /\ r.op = "rename" /\ r.pc = "probe"
        /\ Become(t, [r EXCEPT !.pc = "settle",
                          !.row.name = IF NameTaken(r.id, r.row) THEN r.orig ELSE @])
        /\ UNCHANGED <<files, blobs, faults>> /\ served' \in Nat
    BY DEF IInv, TypeOK, RenameProbe, At, Reads, Quiet
  <1>2. r \in Request /\ CopyOf(r.id, r.row, r.user)
    BY <1>1, RenamerHolds
  <1>3. name \in NameSeq
    BY <1>2 DEF Request, NameSeq, CopyOf, Row
  <1>4. Become(t, n)
    <2>1. [r EXCEPT !.pc = "settle", !.row.name = IF NameTaken(r.id, r.row) THEN r.orig ELSE @] = n
      BY <1>2 DEF Request
    <2> QED BY <1>1, <2>1
  <1> HIDE DEF name
  <1>5. /\ row \in Row /\ row.user = r.row.user /\ row.folder = r.row.folder
        /\ row.type = r.row.type /\ row.blob = r.row.blob
    BY <1>2, <1>3 DEF Row, NameSeq, CopyOf
  <1> HIDE DEF row
  <1>6. n \in Request
    BY <1>2, <1>5 DEF Request
  <1>7. n.op = "rename" /\ n.pc = "settle" /\ n.id = r.id /\ n.user = r.user /\ n.row = row
    BY <1>1, <1>2 DEF Request
  <1> HIDE DEF n
  <1>8. CopyOf(n.id, n.row, n.user)
    BY <1>2, <1>5, <1>7 DEF CopyOf
  <1>9. HoldsSafely(n)
    BY <1>7, <1>8 DEF HoldsSafely
  <1> QED BY <1>1, <1>4, <1>6, <1>9, ReadStep

\* The name that was settled on is saved.
LEMMA RenameSettleSafe ==
  ASSUME IInv, NEW t \in Threads, RenameSettle(t)
  PROVE  StepSafe(t)
  <1>1. thread[t].op = "rename" /\ Become(t, Idle) /\ Merge(thread[t].id, thread[t].row)
    BY DEF RenameSettle, At
  <1>2. CopyOf(thread[t].id, thread[t].row, thread[t].user)
    BY <1>1, RenamerHolds
  <1> QED BY <1>1, <1>2, IdleType, MergeStep

\* A move request is accepted.
LEMMA MoveSafe ==
  ASSUME IInv, NEW t \in Threads, Move(t)
  PROVE  StepSafe(t)
  <1>0. UNCHANGED <<files, blobs, faults>> /\ served' \in Nat /\ files \in Seq(Row)
    BY DEF Move, Accept, IInv, TypeOK
  <1>1. PICK u \in Users, id \in 0..Len(files), parent \in 0..Len(files) :
          Become(t, [Idle EXCEPT !.pc = "compare", !.op = "move", !.user = u, !.id = id,
                         !.folder = parent])
    BY DEF Move
  <1> DEFINE n == [Idle EXCEPT !.pc = "compare", !.op = "move", !.user = u, !.id = id,
                       !.folder = parent]
  <1>2. id \in Nat /\ parent \in Nat
    BY <1>0
  <1>3. n \in Request
    BY <1>2, IdleType DEF Request
  <1>4. n.op = "move" /\ n.pc = "compare"
    BY IdleType DEF Request
  <1> HIDE DEF n
  <1>5. HoldsSafely(n)
    BY <1>4 DEF HoldsSafely
  <1> QED BY <1>0, <1>1, <1>3, <1>5, ReadStep DEF n

\* A move ends without having done anything.
LEMMA MoveCompareSafe ==
  ASSUME IInv, NEW t \in Threads, MoveCompare(t)
  PROVE  StepSafe(t)
  <1>1. Become(t, Idle) /\ UNCHANGED <<files, blobs, faults>> /\ served' \in Nat
    BY DEF MoveCompare, Reads, Quiet, IInv, TypeOK
  <1> QED BY <1>1, IdleType, ReadStep

-----------------------------------------------------------------------------
(* The invariant.                                                          *)

\* A step of a thread is safe.
LEMMA ThreadStepSafe ==
  ASSUME IInv, NEW t \in Threads, Begin(t) \/ Continue(t) \/ Fail(t)
  PROVE  StepSafe(t)
  <1>1. CASE Begin(t)
    BY <1>1, CreateFolderSafe, UploadSafe, DeleteSafe, RecoverSafe, RenameSafe, MoveSafe DEF Begin
  <1>2. CASE Continue(t)
    BY <1>2, CreateFolderProbeSafe, CreateFolderInsertSafe, UploadParentSafe, UploadProbeSafe,
       UploadWriteSafe, UploadInsertSafe, LookupSafe, DeleteFetchSafe,
       DeleteEnterSafe, RecoverFetchSafe, RecoverActivateSafe, RecoverProbeSafe,
       RecoverSettleSafe, RecoverEnterSafe, DescendSafe, AscendSafe, RenameSaveSafe,
       RenameProbeSafe, RenameSettleSafe, MoveCompareSafe DEF Continue
  <1>3. CASE Fail(t)
    BY <1>3, UploadWriteFailsSafe, UploadInsertFailsSafe, AbortSafe DEF Fail
  <1> QED BY <1>1, <1>2, <1>3

\* A server that starts has no request in hand and the table it was left with.
LEMMA InitIInv == Init => IInv
  <1> SUFFICES ASSUME Init PROVE IInv
    OBVIOUS
  <1>1. TypeOK
    BY SeedAssumption, IdleType DEF Init, TypeOK
  <1>2. CopiesAgree
    BY IdleType DEF Init, CopiesAgree
  <1>3. FilesHaveBlobs /\ TreeGrounded
    BY SeedAssumption DEF Init, FilesHaveBlobs, TreeGrounded
  <1> QED BY <1>1, <1>2, <1>3 DEF IInv

\* Every step preserves the invariant.
LEMMA NextIInv == IInv /\ [Next]_vars => IInv'
  <1> SUFFICES ASSUME IInv, [Next]_vars PROVE IInv'
    OBVIOUS
  <1>1. CASE \E t \in Threads : Begin(t) \/ Continue(t) \/ Fail(t)
    BY <1>1, ThreadStepSafe, StepPreserves
  <1>2. CASE Crash
    <2>1. /\ files' = files /\ blobs' = blobs /\ served' = served /\ faults' = faults + 1
          /\ thread' = [t \in Threads |-> Idle]
      BY <1>2 DEF Crash, Fault
    <2>2. TypeOK' /\ FilesHaveBlobs' /\ TreeGrounded' /\ KeepsIdentity
      BY <2>1, IdleType, ReadKeeps DEF IInv, TypeOK, FilesHaveBlobs, TreeGrounded
    <2>3. ASSUME NEW t \in Threads PROVE HoldsSafely(thread[t])'
      <3>1. thread'[t] = Idle /\ TypeOK /\ blobs' \in Nat /\ blobs <= blobs'
        BY <2>1 DEF IInv, TypeOK
      <3> QED BY <2>2, <3>1, IdleType, HoldsStable
    <2> QED BY <2>2, <2>3 DEF IInv, CopiesAgree
  <1>3. CASE UNCHANGED vars
    <2>1. /\ files' = files /\ blobs' = blobs /\ served' = served /\ faults' = faults
          /\ thread' = thread
      BY <1>3 DEF vars
    <2>2. TypeOK' /\ FilesHaveBlobs' /\ TreeGrounded' /\ KeepsIdentity
      BY <2>1, ReadKeeps DEF IInv, TypeOK, FilesHaveBlobs, TreeGrounded
    <2>3. ASSUME NEW t \in Threads PROVE HoldsSafely(thread[t])'
      <3>1. /\ thread'[t] = thread[t] /\ TypeOK /\ blobs' \in Nat /\ blobs <= blobs'
            /\ thread[t] \in Request /\ HoldsSafely(thread[t])
        BY <2>1 DEF IInv, TypeOK, CopiesAgree
      <3> QED BY <2>2, <3>1, HoldsStable
    <2> QED BY <2>2, <2>3 DEF IInv, CopiesAgree
  <1> QED BY <1>1, <1>2, <1>3 DEF Next, Wait

\* The inductive invariant holds in every reachable state.
THEOREM Invariance == Spec => []IInv
  BY InitIInv, NextIInv, PTL DEF Spec

\* Types: every variable, and every record a servlet thread holds, has its type.
THEOREM TypeCorrect == Spec => []TypeOK
  <1>1. IInv => TypeOK
    BY DEF IInv
  <1> QED BY Invariance, <1>1, PTL

\* A file in the table has its content on the disk (fileUpload writes the blob
\* first, no merge changes meta_id).
THEOREM FilesKeepBlobs == Spec => []FilesHaveBlobs
  <1>1. IInv => FilesHaveBlobs
    BY DEF IInv
  <1> QED BY Invariance, <1>1, PTL

\* The folder tree has no cycle, so the recursions over it end.
THEOREM TreeStaysGrounded == Spec => []TreeGrounded
  <1>1. IInv => TreeGrounded
    BY DEF IInv
  <1> QED BY Invariance, <1>1, PTL

\* The detached rows that threads are about to merge agree with the table on
\* all columns but name and status, however stale they are.
THEOREM CopiesStayCopies == Spec => []CopiesAgree
  <1>1. IInv => CopiesAgree
    BY DEF IInv
  <1> QED BY Invariance, <1>1, PTL

-----------------------------------------------------------------------------
(* Whose rows a step writes, and the promise of DriveTable.                *)

\* What a step of thread t does to the table and to the disk.
Effect(t) ==
    \/ UNCHANGED <<files, blobs>>
    \/ files' = files /\ blobs' = blobs + 1
    \/ /\ blobs' = blobs /\ thread'[t] # thread[t]
       /\ \E id \in DOMAIN files, row \in Row :
             CopyOf(id, row, thread[t].user) /\ files' = [files EXCEPT ![id] = row]
    \/ /\ blobs' = blobs /\ files' = Append(files, thread[t].row)
       /\ Insertable(thread[t])
       /\ thread[t].row.type = "file" => thread[t].row.blob \in 1..blobs

\* The record a thread goes on with.
LEMMA Becomes ==
  ASSUME IInv, NEW t \in Threads, NEW r, Become(t, r)
  PROVE  thread'[t] = r
  BY DEF IInv, TypeOK, Become

\* A thread never goes on with the same record after a merge.
LEMMA NextIdMoves ==
  ASSUME NEW r \in Request, r.pc \in {"settle", "walk"}
  PROVE  NextId(r) # r
  <1>1. Idle.pc = "idle"
    BY DEF Idle
  <1>2. [Idle EXCEPT !.pc = "lookup", !.op = r.op, !.user = r.user,
             !.mode = r.mode, !.ids = Tail(r.ids)].pc = "lookup"
    BY DEF Idle
  <1> QED BY <1>1, <1>2 DEF NextId

\* Every step of a thread has one of the four effects.
LEMMA StepEffect ==
  ASSUME IInv, NEW t \in Threads, Begin(t) \/ Continue(t) \/ Fail(t)
  PROVE  Effect(t)
  <1> DEFINE r == thread[t]
  <1>0. r \in Request /\ HoldsSafely(r)
    BY DEF IInv, TypeOK, CopiesAgree
  <1>1. ASSUME NEW id, NEW row, CopyOf(id, row, r.user), Merge(id, row), thread'[t] # r
        PROVE  Effect(t)
    BY <1>1 DEF Effect, CopyOf, Merge
  <1>2. CASE Begin(t)
    BY <1>2 DEF Begin, CreateFolder, Upload, Delete, Recover, Rename, Move, Effect
  <1>3. CASE CreateFolderInsert(t)
    <2>1. r.op = "create_folder"
      BY <1>3 DEF CreateFolderInsert, At
    <2>2. Insertable(r) /\ r.row.type = "folder"
      BY <1>0, <2>1 DEF HoldsSafely, Insertable
    <2> QED BY <1>3, <2>2 DEF CreateFolderInsert, Effect
  <1>4. CASE UploadInsert(t)
    <2>1. r.op = "upload" /\ r.pc = "insert"
      BY <1>4 DEF UploadInsert, At
    <2>2. Insertable(r) /\ r.row.blob \in 1..blobs
      BY <1>0, <2>1 DEF HoldsSafely
    <2> QED BY <1>4, <2>2 DEF UploadInsert, Effect
  <1>5. CASE UploadWrite(t)
    BY <1>5 DEF UploadWrite, Effect
  <1>6. CASE RecoverActivate(t)
    <2>1. r.op = "recover" /\ r.pc = "activate" /\ Merge(r.id, r.row)
      BY <1>6 DEF RecoverActivate, At
    <2>2. thread'[t] = [r EXCEPT !.pc = "probe"]
      BY <1>6, Becomes DEF RecoverActivate
    <2>3. thread'[t] # r
      <3>1. thread'[t].pc = "probe"
        BY <1>0, <2>2 DEF Request
      <3> QED BY <2>1, <3>1
    <2> QED BY <1>1, <2>1, <2>3, WalkerHolds
  <1>7. CASE RecoverSettle(t)
    <2>1. r.op = "recover" /\ r.pc = "settle" /\ Merge(r.id, r.row)
      BY <1>7 DEF RecoverSettle, At
    <2>2. thread'[t] = [r EXCEPT !.pc = "enter"] \/ thread'[t] = NextId(r)
      BY <1>7, Becomes DEF RecoverSettle
    <2>3. thread'[t] # r
      <3>1. [r EXCEPT !.pc = "enter"].pc = "enter"
        BY <1>0 DEF Request
      <3> QED BY <1>0, <2>1, <2>2, <3>1, NextIdMoves
    <2> QED BY <1>1, <2>1, <2>3, WalkerHolds
  <1>8. CASE Ascend(t)
    <2>1. r.pc = "walk"
      BY <1>8 DEF Ascend
    <2>2. /\ r.stack \in Seq(FrameType) /\ r.stack # <<>> /\ r.op \in {"delete", "recover"}
          /\ \A k \in DOMAIN r.stack : FrameSafe(r.stack[k], r.user)
      BY <2>1, WalkFrames
    <2>3. thread'[t] # r
      <3>1. CASE thread'[t] = NextId(r)
        BY <3>1, <1>0, <2>1, NextIdMoves
      <3>2. CASE thread'[t] = [r EXCEPT !.stack = Below(r)]
        <4>1. thread'[t].stack = Below(r)
          BY <3>2, <1>0 DEF Request
        <4>2. Len(Below(r)) = Len(r.stack) - 1 /\ Len(r.stack) \in Nat
          BY <2>2, BelowFacts
        <4>3. Len(Below(r)) # Len(r.stack)
          BY <4>2
        <4> QED BY <4>1, <4>3
      <3>3. thread'[t] = IF Len(r.stack) = 1 THEN NextId(r) ELSE [r EXCEPT !.stack = Below(r)]
        BY <1>8, Becomes DEF Ascend
      <3> QED BY <3>1, <3>2, <3>3
    <2>4. CASE Top(r).self = NoItem
      BY <1>8, <2>4 DEF Ascend, Reads, Effect
    <2>5. CASE Top(r).self # NoItem
      <3>1. Len(r.stack) \in DOMAIN r.stack
        BY <2>2
      <3>2. CopyOf(Top(r).self.id, Top(r).self.row, r.user)
        BY <2>2, <2>5, <3>1 DEF FrameSafe, Top
      <3>3. Merge(Top(r).self.id, Top(r).self.row)
        BY <1>8, <2>5 DEF Ascend
      <3> QED BY <1>1, <2>3, <3>2, <3>3
    <2> QED BY <2>4, <2>5
  <1>9. CASE RenameSave(t)
    <2>1. r.op = "rename" /\ r.pc = "save" /\ Merge(r.id, r.row)
      BY <1>9 DEF RenameSave, At
    <2>2. thread'[t] = [r EXCEPT !.pc = "probe"]
      BY <1>9, Becomes DEF RenameSave
    <2>3. thread'[t] # r
      <3>1. thread'[t].pc = "probe"
        BY <1>0, <2>2 DEF Request
      <3> QED BY <2>1, <3>1
    <2> QED BY <1>1, <2>1, <2>3, RenamerHolds
  <1>10. CASE RenameSettle(t)
    <2>1. r.op = "rename" /\ r.pc = "settle" /\ Merge(r.id, r.row)
      BY <1>10 DEF RenameSettle, At
    <2>2. thread'[t] = Idle
      BY <1>10, Becomes DEF RenameSettle
    <2>3. thread'[t] # r
      BY <2>1, <2>2 DEF Idle
    <2> QED BY <1>1, <2>1, <2>3, RenamerHolds
  <1>11. CASE \/ CreateFolderProbe(t) \/ UploadParent(t) \/ UploadProbe(t)
              \/ Lookup(t) \/ DeleteFetch(t) \/ DeleteEnter(t) \/ RecoverFetch(t)
              \/ RecoverProbe(t) \/ RecoverEnter(t) \/ Descend(t) \/ RenameProbe(t)
              \/ MoveCompare(t)
    BY <1>11 DEF CreateFolderProbe, UploadParent, UploadProbe, Lookup,
       DeleteFetch, DeleteEnter, RecoverFetch, RecoverProbe, RecoverEnter, Descend,
       RenameProbe, MoveCompare, Reads, Effect
  <1>12. CASE Fail(t)
    BY <1>12 DEF Fail, UploadWriteFails, UploadInsertFails, Abort, Effect
  <1> QED BY <1>2, <1>3, <1>4, <1>5, <1>6, <1>7, <1>8, <1>9, <1>10, <1>11, <1>12 DEF Continue

\* What happens to the rows that were there.
LEMMA RowsWritten ==
  ASSUME IInv, NEW t \in Threads, Effect(t), NEW f \in DOMAIN files, files'[f] # files[f]
  PROVE  thread'[t] # thread[t] /\ files[f].user = thread[t].user
  <1>1. files \in Seq(Row)
    BY DEF IInv, TypeOK
  <1>2. files' # Append(files, thread[t].row)
    BY <1>1
  <1>3. PICK id \in DOMAIN files, row \in Row :
          /\ thread'[t] # thread[t] /\ CopyOf(id, row, thread[t].user)
          /\ files' = [files EXCEPT ![id] = row]
    BY <1>2 DEF Effect
  <1>4. f = id
    BY <1>1, <1>3
  <1> QED BY <1>3, <1>4 DEF CopyOf

\* A request changes rows of its own user only, whatever other requests, stale
\* copies and crashes come in between.
THEOREM OwnRowsOnly == Spec => OnlyOwnRows
  <1>1. IInv /\ [Next]_vars =>
          [\A f \in DOMAIN files :
              files'[f] # files[f] =>
                  \E t \in Threads : thread'[t] # thread[t] /\ files[f].user = thread[t].user]_vars
    <2> SUFFICES ASSUME IInv, Next, NEW f \in DOMAIN files, files'[f] # files[f]
                 PROVE  \E t \in Threads : thread'[t] # thread[t] /\ files[f].user = thread[t].user
      OBVIOUS
    <2>1. PICK t \in Threads : Begin(t) \/ Continue(t) \/ Fail(t)
      BY DEF Next, Crash, Wait, vars
    <2> QED BY <2>1, StepEffect, RowsWritten
  <1> QED BY <1>1, Invariance, PTL DEF Spec, OnlyOwnRows

\* A merge of a copy changes the name and the status of one row only.
LEMMA MergeRelabels ==
  ASSUME IInv, NEW id, NEW row, NEW user, CopyOf(id, row, user),
         files' = [files EXCEPT ![id] = row], blobs' = blobs
  PROVE  Table!Relabel
  <1>1. /\ files \in Seq(Row) /\ id \in DOMAIN files /\ row \in Row /\ files[id] \in Row
        /\ row.user = files[id].user /\ row.folder = files[id].folder
        /\ row.type = files[id].type /\ row.blob = files[id].blob
    BY DEF IInv, TypeOK, CopyOf
  <1>2. files'[id] = row
    BY <1>1
  <1>3. row = [[files[id] EXCEPT !.name = row.name] EXCEPT !.status = row.status]
    BY <1>1 DEF Row
  <1>4. files' = [files EXCEPT ![id].name = files'[id].name, ![id].status = files'[id].status]
    BY <1>1, <1>2, <1>3
  <1> QED BY <1>1, <1>4 DEF Table!Relabel

\* Every step of a thread keeps the promise of the abstract table.
LEMMA EffectKept ==
  ASSUME IInv, NEW t \in Threads, Effect(t)
  PROVE  [Table!Next]_(Table!vars)
  <1>1. files \in Seq(Row)
    BY DEF IInv, TypeOK
  <1>2. CASE UNCHANGED <<files, blobs>>
    BY <1>2 DEF Table!vars
  <1>3. CASE files' = files /\ blobs' = blobs + 1
    BY <1>3 DEF Table!Next, Table!StoreContent
  <1>4. ASSUME NEW id \in DOMAIN files, NEW row \in Row, CopyOf(id, row, thread[t].user),
               files' = [files EXCEPT ![id] = row], blobs' = blobs
        PROVE  Table!Next
    BY <1>4, MergeRelabels DEF Table!Next
  <1>5. ASSUME blobs' = blobs, files' = Append(files, thread[t].row), Insertable(thread[t]),
               thread[t].row.type = "file" => thread[t].row.blob \in 1..blobs
        PROVE  Table!Next
    <2> DEFINE row == thread[t].row
    <2>1. /\ row \in Row /\ row.folder \in 0..Len(files) /\ row.status = "normal"
          /\ row.user \in Users
      BY <1>5 DEF Insertable, Row
    <2>2. /\ Len(files') = Len(files) + 1 /\ files'[Len(files')] = row
          /\ \A f \in DOMAIN files : files'[f] = files[f]
      BY <1>1, <1>5, <2>1
    <2>3. Table!AddRow
      BY <1>5, <2>1, <2>2 DEF Table!AddRow
    <2> QED BY <2>3 DEF Table!Next
  <1> QED BY <1>2, <1>3, <1>4, <1>5 DEF Effect

\* The file table with all its racing requests implements the abstract table:
\* rows are only added and relabelled, in one place, for one owner.
THEOREM TableKept == Spec => TablePromise
  <1>1. Init => Table!Init
    BY DEF Init, Table!Init
  <1>2. IInv /\ [Next]_vars => [Table!Next]_(Table!vars)
    <2> SUFFICES ASSUME IInv, [Next]_vars PROVE [Table!Next]_(Table!vars)
      OBVIOUS
    <2>1. CASE \E t \in Threads : Begin(t) \/ Continue(t) \/ Fail(t)
      BY <2>1, StepEffect, EffectKept
    <2>2. CASE UNCHANGED <<files, blobs>>
      BY <2>2 DEF Table!vars
    <2> QED BY <2>1, <2>2 DEF Next, Crash, Wait, vars
  <1> QED BY <1>1, <1>2, Invariance, PTL DEF Spec, TablePromise, Table!Spec

-----------------------------------------------------------------------------
(* Contents that nobody names.                                             *)

\* The contents that the threads hold.
HeldContents == {thread[t].row.blob : t \in Threads}

\* The rows keep naming the contents they name.
NamesKept == \A f \in DOMAIN files : f \in DOMAIN files' /\ files'[f].blob = files[f].blob

\* Contents are numbered, so there are finitely many.
LEMMA OrphansFinite ==
  ASSUME blobs \in Nat
  PROVE  IsFiniteSet(Orphans) /\ Cardinality(Orphans) \in Nat
  <1>1. IsFiniteSet(1..blobs)
    BY FS_Interval
  <1>2. Orphans \in SUBSET (1..blobs)
    BY DEF Orphans
  <1>3. IsFiniteSet(Orphans)
    BY <1>1, <1>2, FS_Subset
  <1> QED BY <1>3, FS_CardinalityType

\* Every effect of a step keeps the names, merges of stale copies too.
LEMMA EffectNames ==
  ASSUME IInv, NEW t \in Threads, Effect(t)
  PROVE  NamesKept
  <1>0. files \in Seq(Row)
    BY DEF IInv, TypeOK
  <1>1. CASE files' = files
    BY <1>1 DEF NamesKept
  <1>2. CASE \E id \in DOMAIN files, row \in Row :
               CopyOf(id, row, thread[t].user) /\ files' = [files EXCEPT ![id] = row]
    BY <1>0, <1>2 DEF NamesKept, CopyOf
  <1>3. CASE files' = Append(files, thread[t].row) /\ Insertable(thread[t])
    <2>1. thread[t].row \in Row
      BY <1>3 DEF Insertable
    <2> QED BY <1>0, <1>3, <2>1 DEF NamesKept
  <1> QED BY <1>1, <1>2, <1>3 DEF Effect

\* A step of one thread orphans at most what it stores and what it held.
LEMMA Unorphaned ==
  ASSUME NEW t \in Threads, NamesKept, blobs \in Nat, blobs' \in Nat,
         \A s \in Threads \ {t} : thread'[s] = thread[s], NEW S,
         \A b \in Nat :
            (b \in 1..blobs' /\ b \notin 1..blobs)
              \/ (thread[t].pc = "insert" /\ thread[t].row.blob = b) =>
            \/ b \in S
            \/ \E f \in DOMAIN files' : files'[f].blob = b
            \/ thread'[t].pc = "insert" /\ thread'[t].row.blob = b
  PROVE  Orphans' \subseteq Orphans \cup S
  <1> SUFFICES ASSUME NEW b \in Orphans', b \notin S PROVE b \in Orphans
    OBVIOUS
  <1>1. /\ b \in Nat /\ b \in 1..blobs' /\ b > Len(Seed)
        /\ \A f \in DOMAIN files' : files'[f].blob # b
        /\ \A s \in Threads : ~(thread'[s].pc = "insert" /\ thread'[s].row.blob = b)
    BY DEF Orphans
  <1>2. b \in 1..blobs /\ ~(thread[t].pc = "insert" /\ thread[t].row.blob = b)
    BY <1>1
  <1>3. \A s \in Threads : ~(thread[s].pc = "insert" /\ thread[s].row.blob = b)
    BY <1>1, <1>2
  <1>4. \A f \in DOMAIN files : files[f].blob # b
    BY <1>1 DEF NamesKept
  <1> QED BY <1>1, <1>2, <1>3, <1>4 DEF Orphans

\* What a step leaves to the other threads.
LEMMA OthersWait ==
  ASSUME IInv, NEW t \in Threads, Begin(t) \/ Continue(t) \/ Fail(t)
  PROVE  \A s \in Threads \ {t} : thread'[s] = thread[s]
  <1>1. CASE UNCHANGED thread
    BY <1>1
  <1>2. CASE \E r : Become(t, r)
    BY <1>2 DEF Become, IInv, TypeOK
  <1>3. CASE Begin(t)
    BY <1>1, <1>2, <1>3 DEF Begin, CreateFolder, Upload, Delete, Recover, Rename, Move
  <1>4. CASE Continue(t)
    BY <1>2, <1>4 DEF Continue, CreateFolderProbe, CreateFolderInsert, UploadParent, UploadProbe,
       UploadWrite, UploadInsert, Lookup, DeleteFetch, DeleteEnter, RecoverFetch, RecoverActivate,
       RecoverProbe, RecoverSettle, RecoverEnter, Descend, Ascend, RenameSave, RenameProbe,
       RenameSettle, MoveCompare
  <1>5. CASE Fail(t)
    BY <1>2, <1>5 DEF Fail, UploadWriteFails, UploadInsertFails, Abort
  <1> QED BY <1>3, <1>4, <1>5

\* A step that does not fail orphans nothing.
LEMMA WorkOrphansNothing ==
  ASSUME IInv, IInv', NEW t \in Threads, Begin(t) \/ Continue(t)
  PROVE  Orphans' \subseteq Orphans /\ faults' = faults
  <1> DEFINE r == thread[t]
  <1>0. /\ IInv /\ NamesKept /\ blobs \in Nat /\ blobs' \in Nat /\ files \in Seq(Row)
        /\ \A s \in Threads \ {t} : thread'[s] = thread[s]
    BY StepEffect, EffectNames, OthersWait DEF IInv, TypeOK
  <1>1. faults' = faults
    BY DEF Begin, CreateFolder, Upload, Delete, Recover, Rename, Move, Continue,
       CreateFolderProbe, CreateFolderInsert, UploadParent, UploadProbe,
       UploadWrite, UploadInsert, Lookup, DeleteFetch, DeleteEnter, RecoverFetch, RecoverActivate,
       RecoverProbe, RecoverSettle, RecoverEnter, Descend, Ascend, RenameSave, RenameProbe,
       RenameSettle, MoveCompare, Reads, Quiet, Merge
  <1>2. CASE r.pc = "insert"
    <2>1. CreateFolderInsert(t) \/ UploadInsert(t)
      BY <1>2 DEF Begin, CreateFolder, Upload, Delete, Recover, Rename, Move, Accept, Continue,
         CreateFolderProbe, UploadParent, UploadProbe,
         UploadWrite, Lookup, DeleteFetch, DeleteEnter, RecoverFetch, RecoverActivate,
         RecoverProbe, RecoverSettle, RecoverEnter, Descend, Ascend, RenameSave, RenameProbe,
         RenameSettle, MoveCompare, At
    <2>2. files' = Append(files, r.row) /\ blobs' = blobs
      BY <2>1 DEF CreateFolderInsert, UploadInsert
    <2>3. r.row \in Row
      <3>1. HoldsSafely(r) /\ (r.op = "create_folder" \/ (r.op = "upload" /\ r.pc # "parent"))
        BY <1>2, <2>1 DEF IInv, CopiesAgree, CreateFolderInsert, UploadInsert, At
      <3> QED BY <3>1 DEF HoldsSafely, Insertable
    <2>4. \E f \in DOMAIN files' : files'[f].blob = r.row.blob
      <3>1. Len(files) + 1 \in DOMAIN files' /\ files'[Len(files) + 1] = r.row
        BY <1>0, <2>2, <2>3
      <3> QED BY <3>1
    <2>5. Orphans' \subseteq Orphans \cup {}
      BY <1>0, <2>2, <2>4, Unorphaned
    <2> QED BY <1>1, <2>5
  <1>3. CASE UploadWrite(t)
    <2>1. r \in Request /\ r.row \in Row /\ r.pc = "write"
      BY <1>3 DEF UploadWrite, At, IInv, TypeOK, CopiesAgree, HoldsSafely, Insertable
    <2>2. blobs' = blobs + 1
      BY <1>3 DEF UploadWrite
    <2>3. thread'[t] = [r EXCEPT !.pc = "insert", !.row.blob = blobs + 1]
      BY <1>3, Becomes DEF UploadWrite
    <2>4. thread'[t].pc = "insert" /\ thread'[t].row.blob = blobs + 1
      BY <2>1, <2>3 DEF Request, Row
    <2>5. \A b \in 1..blobs' : b \notin 1..blobs => b = blobs + 1
      BY <1>0, <2>2
    <2>6. Orphans' \subseteq Orphans \cup {}
      BY <1>0, <2>1, <2>4, <2>5, Unorphaned
    <2> QED BY <1>1, <2>6
  <1>4. CASE r.pc # "insert" /\ ~UploadWrite(t)
    <2>1. blobs' = blobs
      BY <1>4 DEF Begin, CreateFolder, Upload, Delete, Recover, Rename, Move, Continue,
         CreateFolderProbe, CreateFolderInsert, UploadParent, UploadProbe,
         UploadInsert, Lookup, DeleteFetch, DeleteEnter, RecoverFetch, RecoverActivate,
         RecoverProbe, RecoverSettle, RecoverEnter, Descend, Ascend, RenameSave, RenameProbe,
         RenameSettle, MoveCompare, Reads, Merge
    <2>2. Orphans' \subseteq Orphans \cup {}
      BY <1>0, <1>4, <2>1, Unorphaned
    <2> QED BY <1>1, <2>2
  <1> QED BY <1>2, <1>3, <1>4

\* A call that fails orphans one content at most.
LEMMA FailOrphansOne ==
  ASSUME IInv, IInv', NEW t \in Threads, Fail(t)
  PROVE  faults' = faults + 1 /\ \E e : Orphans' \subseteq Orphans \cup {e}
  <1>0. /\ NamesKept /\ blobs \in Nat /\ blobs' \in Nat
        /\ \A s \in Threads \ {t} : thread'[s] = thread[s]
    BY StepEffect, EffectNames, OthersWait DEF IInv, TypeOK
  <1>1. faults' = faults + 1
    BY DEF Fail, UploadWriteFails, UploadInsertFails, Abort, Fault
  <1>2. CASE UploadWriteFails(t)
    <2>1. thread[t].pc # "insert" /\ (blobs' = blobs \/ blobs' = blobs + 1)
      BY <1>2 DEF UploadWriteFails, At
    <2>2. \A b \in 1..blobs' : b \notin 1..blobs => b \in {blobs + 1}
      BY <1>0, <2>1
    <2>3. Orphans' \subseteq Orphans \cup {blobs + 1}
      BY <1>0, <2>1, <2>2, Unorphaned
    <2> QED BY <1>1, <2>3
  <1>3. CASE UploadInsertFails(t) \/ Abort(t)
    <2>1. blobs' = blobs
      BY <1>3 DEF UploadInsertFails, Abort
    <2>2. Orphans' \subseteq Orphans \cup {thread[t].row.blob}
      BY <1>0, <2>1, Unorphaned
    <2> QED BY <1>1, <2>2
  <1> QED BY <1>2, <1>3 DEF Fail

\* A crash orphans what the threads held.
LEMMA CrashOrphans ==
  ASSUME Crash
  PROVE  Orphans' \subseteq Orphans \cup HeldContents /\ faults' = faults + 1
  <1>1. files' = files /\ blobs' = blobs /\ faults' = faults + 1
    BY DEF Crash, Fault
  <1> SUFFICES ASSUME NEW b \in Orphans', b \notin HeldContents PROVE b \in Orphans
    BY <1>1
  <1>2. \A t \in Threads : thread[t].row.blob # b
    BY DEF HeldContents
  <1> QED BY <1>1, <1>2 DEF Orphans

\* The threads hold no more contents than there are threads.
LEMMA HeldFew ==
  ASSUME IsFiniteSet(Threads)
  PROVE  IsFiniteSet(HeldContents) /\ Cardinality(HeldContents) <= Cardinality(Threads)
  <1> DEFINE f == [t \in Threads |-> thread[t].row.blob]
  <1>1. f \in Surjection(Threads, HeldContents)
    BY DEF Surjection, HeldContents
  <1> HIDE DEF f
  <1> QED BY <1>1, FS_Surjection

\* One fault, and as many orphans more as there are threads, keep the bound.
LEMMA BoundKept ==
  ASSUME IInv, IInv', IsFiniteSet(Threads), OrphansOnlyFromFaults, faults' = faults + 1,
         NEW S, IsFiniteSet(S), Cardinality(S) <= Cardinality(Threads),
         Orphans' \subseteq Orphans \cup S
  PROVE  OrphansOnlyFromFaults'
  <1> DEFINE n == Cardinality(Threads)
  <1>1. /\ n \in Nat /\ faults \in Nat /\ Cardinality(S) \in Nat
        /\ IsFiniteSet(Orphans) /\ Cardinality(Orphans) \in Nat
    BY FS_CardinalityType, OrphansFinite DEF IInv, TypeOK
  <1>2. /\ IsFiniteSet(Orphans \cup S)
        /\ Cardinality(Orphans \cup S)
             = Cardinality(Orphans) + Cardinality(S) - Cardinality(Orphans \cap S)
    BY <1>1, FS_Union
  <1>3. Cardinality(Orphans \cap S) \in Nat
    BY <1>1, FS_Subset, FS_CardinalityType
  <1>4. Cardinality(Orphans') <= Cardinality(Orphans \cup S) /\ Cardinality(Orphans') \in Nat
    BY <1>2, FS_Subset, FS_CardinalityType
  <1>5. Cardinality(Orphans') <= Cardinality(Orphans) + n
    BY <1>1, <1>2, <1>3, <1>4, FS_CardinalityType
  <1>6. Cardinality(Orphans) <= faults * n
    BY DEF OrphansOnlyFromFaults
  <1>7. (faults + 1) * n = faults * n + n /\ faults * n \in Nat
    BY <1>1
  <1>8. Cardinality(Orphans') <= faults' * n
    BY <1>1, <1>4, <1>5, <1>6, <1>7
  <1> QED BY <1>8 DEF OrphansOnlyFromFaults

\* Orphans stay as few if none is added.
LEMMA FewerOrphans ==
  ASSUME IInv, IsFiniteSet(Threads), OrphansOnlyFromFaults, faults' = faults,
         Orphans' \subseteq Orphans
  PROVE  OrphansOnlyFromFaults'
  <1>1. IsFiniteSet(Orphans) /\ Cardinality(Orphans) \in Nat
    BY OrphansFinite DEF IInv, TypeOK
  <1>2. Cardinality(Orphans') <= Cardinality(Orphans) /\ IsFiniteSet(Orphans')
    BY <1>1, FS_Subset
  <1>3. Cardinality(Orphans') \in Nat
    BY <1>2, FS_CardinalityType
  <1> DEFINE n == Cardinality(Threads)
             k == faults * n
  <1>4. Cardinality(Orphans) <= k /\ faults' * n = k
    BY DEF OrphansOnlyFromFaults
  <1>5. k \in Nat
    BY FS_CardinalityType DEF IInv, TypeOK
  <1> HIDE DEF k
  <1>6. Cardinality(Orphans') <= k
    BY <1>1, <1>2, <1>3, <1>4, <1>5
  <1> QED BY <1>4, <1>6 DEF OrphansOnlyFromFaults

\* Every step keeps the bound.
LEMMA NextOrphans ==
  ASSUME IsFiniteSet(Threads)
  PROVE  IInv /\ IInv' /\ OrphansOnlyFromFaults /\ [Next]_vars => OrphansOnlyFromFaults'
  <1> SUFFICES ASSUME IInv, IInv', OrphansOnlyFromFaults, [Next]_vars
               PROVE  OrphansOnlyFromFaults'
    OBVIOUS
  <1>1. CASE UNCHANGED vars
    <2>1. Orphans' = Orphans /\ faults' = faults
      BY <1>1 DEF vars, Orphans
    <2> QED BY <2>1, FewerOrphans
  <1>2. CASE Crash
    BY <1>2, CrashOrphans, HeldFew, BoundKept
  <1>3. ASSUME NEW t \in Threads, Begin(t) \/ Continue(t) PROVE OrphansOnlyFromFaults'
    BY <1>3, WorkOrphansNothing, FewerOrphans
  <1>4. ASSUME NEW t \in Threads, Fail(t) PROVE OrphansOnlyFromFaults'
    <2>1. PICK e : Orphans' \subseteq Orphans \cup {e}
      BY <1>4, FailOrphansOne
    <2>2. IsFiniteSet({e}) /\ Cardinality({e}) = 1
      BY FS_Singleton
    <2>3. Cardinality(Threads) \in Nat /\ Cardinality(Threads) # 0
      BY <1>4, FS_CardinalityType, FS_EmptySet
    <2>4. Cardinality({e}) <= Cardinality(Threads)
      BY <2>2, <2>3
    <2>5. faults' = faults + 1
      BY <1>4, FailOrphansOne
    <2> QED BY <2>1, <2>2, <2>4, <2>5, BoundKept
  <1> QED BY <1>1, <1>2, <1>3, <1>4 DEF Next, Wait

\* Contents are orphaned by failed calls and crashes only, at most one for each
\* thread at every fault: all other uploads name what they have written.
THEOREM OrphansStayFew ==
  ASSUME IsFiniteSet(Threads)
  PROVE  Spec => []OrphansOnlyFromFaults
  <1>1. Init => OrphansOnlyFromFaults
    <2> SUFFICES ASSUME Init PROVE OrphansOnlyFromFaults
      OBVIOUS
    <2>1. Len(Seed) \in Nat
      BY SeedAssumption
    <2>2. Orphans = {}
      BY <2>1 DEF Init, Orphans
    <2>3. Cardinality(Orphans) = 0 /\ faults = 0 /\ Cardinality(Threads) \in Nat
      BY <2>2, FS_EmptySet, FS_CardinalityType DEF Init
    <2> QED BY <2>3 DEF OrphansOnlyFromFaults
  <1>2. IInv /\ IInv' /\ OrphansOnlyFromFaults /\ [Next]_vars => OrphansOnlyFromFaults'
    BY NextOrphans
  <1> QED BY <1>1, <1>2, Invariance, PTL DEF Spec

-----------------------------------------------------------------------------
(* Requests that do not overlap: names in the root, and what comes back.    *)

\* The server has one servlet thread.
OneThread == \E t : Threads = {t}

\* No two of the rows F, those of X left out, are listed in the root of one user
\* under one name.
Apart(F, X) ==
    \A f, g \in DOMAIN F \ X :
        f # g /\ F[f].folder = Root /\ F[g].folder = Root /\ F[f].user = F[g].user
        /\ F[f].status = "normal" /\ F[g].status = "normal"
        => F[f].name # F[g].name

\* If row, called name, is listed in the root, no other row than id clashes with it.
Clear(F, id, row, name) ==
    row.folder = Root /\ row.status = "normal" =>
        \A g \in DOMAIN F \ {id} :
            F[g].folder = Root /\ F[g].user = row.user /\ F[g].status = "normal" => F[g].name # name

\* What an activation of a recursion is going to save: rows that are deleted, or
\* rows that do not lie in the root.
Dead(f) == f.self.row.status # "normal" /\ \A c \in f.pending : c.row.status # "normal"
Deep(f) ==
    /\ f.self = NoItem \/ f.self.row.folder # Root
    /\ \A c \in f.pending : c.row.folder # Root

\* While a request is alone it revives nothing it is not asked to: what it holds
\* is deleted, or as it is in the table.
Sound(r, F) ==
    /\ r.op = "rename" => r.row.status = F[r.id].status
    /\ r.op = "delete" /\ r.pc = "enter" => r.row.status # "normal"
    /\ r.op = "delete" /\ r.pc = "walk" => \A k \in DOMAIN r.stack : Dead(r.stack[k])
    /\ r.op = "recover" /\ r.pc = "walk" => \A k \in DOMAIN r.stack : Deep(r.stack[k])

\* The row a request has saved under a name it has not checked yet.
AtRisk(r) ==
    IF r.op \in {"recover", "rename"} /\ r.pc \in {"probe", "settle"} THEN {r.id} ELSE {}

\* While a request is alone it leaves no two rows of one name in the root: the
\* name it has found free is still free.
Named(r, F) ==
    /\ Apart(F, AtRisk(r))
    /\ r.op = "create_folder" /\ r.pc = "insert" => Clear(F, 0, r.row, r.row.name)
    /\ r.op = "upload" /\ r.pc \in {"write", "insert"} => Clear(F, 0, r.row, r.row.name)
    /\ r.op \in {"recover", "rename"} /\ r.pc = "settle" => Clear(F, r.id, r.row, r.row.name)
    /\ r.op = "rename" => Clear(F, r.id, r.row, r.orig)

\* A request that goes on to n over the rows F keeps both.
Carries(r, n, F) == Sound(n, F) /\ (Named(r, files) => Named(n, F))

\* A request at a point where neither asks anything of it.
Plain(n) ==
    /\ n.op # "rename"
    /\ n.op = "delete" => n.pc \notin {"enter", "walk"}
    /\ n.op = "recover" => n.pc \notin {"probe", "settle", "walk"}
    /\ n.op = "create_folder" => n.pc # "insert"
    /\ n.op = "upload" => n.pc \notin {"write", "insert"}

LEMMA PlainCarries ==
  ASSUME NEW r, NEW n, Plain(n), NEW F, Named(r, files) => Apart(F, {})
  PROVE  Carries(r, n, F)
  BY DEF Carries, Sound, Named, Plain, AtRisk

LEMMA PlainOnes ==
  /\ Plain(Idle)
  /\ \A r : r.op \in {"delete", "recover"} => Plain(NextId(r))
  /\ \A r : r.op = "upload" => Plain(NextName(r))
  <1>1. Plain(Idle)
    BY DEF Idle, Plain
  <1>2. ASSUME NEW r, r.op \in {"delete", "recover"} PROVE Plain(NextId(r))
    <2> DEFINE n == [Idle EXCEPT !.pc = "lookup", !.op = r.op, !.user = r.user,
                         !.mode = r.mode, !.ids = Tail(r.ids)]
    <2>1. n.pc = "lookup" /\ n.op = r.op
      BY DEF Idle
    <2>2. NextId(r) = Idle \/ NextId(r) = n
      BY DEF NextId
    <2> HIDE DEF n
    <2> QED BY <1>1, <1>2, <2>1, <2>2 DEF Plain
  <1>3. ASSUME NEW r, r.op = "upload" PROVE Plain(NextName(r))
    <2> DEFINE n == [Idle EXCEPT !.pc = "parent", !.op = r.op, !.user = r.user,
                         !.folder = r.folder, !.names = Tail(r.names)]
    <2>1. n.pc = "parent" /\ n.op = r.op
      BY DEF Idle
    <2>2. NextName(r) = Idle \/ NextName(r) = n
      BY DEF NextName
    <2> HIDE DEF n
    <2> QED BY <1>1, <1>3, <2>1, <2>2 DEF Plain
  <1> QED BY <1>1, <1>2, <1>3

\* A name that getFileByName does not find is free.
LEMMA FreeIsClear ==
  ASSUME NEW id, NEW row, ~NameTaken(id, row)
  PROVE  Clear(files, id, row, row.name)
  BY DEF NameTaken, Clear

\* The rows after a merge, or an insert.
LEMMA MergeApart ==
  ASSUME TypeOK, NEW id \in DOMAIN files, NEW row,
         files' = [files EXCEPT ![id] = row]
  PROVE  /\ \A X : Apart(files, X) /\ X \subseteq {id} => Apart(files', {id})
         /\ \A X : Apart(files, X) /\ X \subseteq {id} /\ Clear(files, id, row, row.name)
                      => Apart(files', {})
         /\ \A other, name : Clear(files, id, other, name) => Clear(files', id, other, name)
  <1>1. /\ DOMAIN files' = DOMAIN files /\ files'[id] = row
        /\ \A f \in DOMAIN files \ {id} : files'[f] = files[f]
    BY DEF TypeOK
  <1>2. ASSUME NEW X, Apart(files, X), X \subseteq {id} PROVE Apart(files', {id})
    BY <1>1, <1>2 DEF Apart
  <1>3. ASSUME Apart(files', {id}), Clear(files, id, row, row.name) PROVE Apart(files', {})
    BY <1>1, <1>3 DEF Apart, Clear
  <1>4. ASSUME NEW other, NEW name, Clear(files, id, other, name) PROVE Clear(files', id, other, name)
    BY <1>1, <1>4 DEF Clear
  <1> QED BY <1>2, <1>3, <1>4

LEMMA AppendApart ==
  ASSUME TypeOK, NEW row \in Row, files' = Append(files, row), Apart(files, {}),
         Clear(files, 0, row, row.name)
  PROVE  Apart(files', {})
  <1>1. /\ files \in Seq(Row) /\ DOMAIN files = 1 .. Len(files) /\ Len(files) \in Nat
        /\ DOMAIN files' = 1 .. Len(files) + 1
    BY DEF TypeOK
  <1>2. DOMAIN files' = DOMAIN files \cup {Len(files) + 1} /\ 0 \notin DOMAIN files
    BY <1>1
  <1>3. files'[Len(files) + 1] = row /\ \A f \in DOMAIN files : files'[f] = files[f]
    BY <1>1
  <1> QED BY <1>2, <1>3 DEF Apart, Clear

\* What a step begins with.
LEMMA Before ==
  ASSUME IInv, NEW t \in Threads
  PROVE  thread[t] \in Request /\ HoldsSafely(thread[t]) /\ files \in Seq(Row)
         /\ TypeOK /\ thread \in [Threads -> Request]
  BY DEF IInv, TypeOK, CopiesAgree

\* A request that has no row at risk finds the root in order.
LEMMA NoRisk ==
  ASSUME NEW r, r.op \notin {"recover", "rename"} \/ r.pc \notin {"probe", "settle"}, Named(r, files)
  PROVE  Apart(files, {})
  BY DEF Named, AtRisk

\* A request that is accepted: a rename holds the row as it is in the table.
LEMMA BeginCarries ==
  ASSUME IInv, NEW t \in Threads, Begin(t), Sound(thread[t], files)
  PROVE  Carries(thread[t], thread'[t], files')
  <1> DEFINE r == thread[t]
  <1>1. /\ files' = files /\ r.pc = "idle" /\ thread \in [Threads -> Request]
        /\ \A n : Become(t, n) => thread'[t] = n
    BY Before, Becomes DEF Begin, CreateFolder, Upload, Delete, Recover, Rename, Move, Accept
  <1>2. Named(r, files) => Apart(files, {})
    BY <1>1, NoRisk
  <1>3. ASSUME thread' = thread PROVE Carries(r, thread'[t], files')
    BY <1>1, <1>3 DEF Carries
  <1>4. CASE CreateFolder(t)
    <2>1. PICK u \in Users, parent \in 0..Len(files)+1, m \in Names :
            \/ Become(t, [Idle EXCEPT !.pc = "probe", !.op = "create_folder", !.user = u,
                              !.row = NewRow(u, parent, <<m>>, "folder")])
            \/ UNCHANGED thread
      BY <1>4 DEF CreateFolder
    <2> DEFINE row == NewRow(u, parent, <<m>>, "folder")
               n == [Idle EXCEPT !.pc = "probe", !.op = "create_folder", !.user = u, !.row = row]
    <2> HIDE DEF row
    <2>2. n.pc = "probe" /\ n.op = "create_folder"
      BY DEF Idle
    <2>3. thread'[t] = n \/ thread' = thread
      BY <1>1, <2>1 DEF row
    <2> HIDE DEF n
    <2>4. Plain(n)
      BY <2>2 DEF Plain
    <2> QED BY <1>1, <1>2, <1>3, <2>3, <2>4, PlainCarries
  <1>5. CASE Upload(t)
    <2>1. PICK u \in Users, parent \in 0..Len(files)+1, ns \in Lists(Names) :
            Become(t, [Idle EXCEPT !.pc = "parent", !.op = "upload", !.user = u,
                           !.folder = parent, !.names = ns])
      BY <1>5 DEF Upload
    <2> DEFINE n == [Idle EXCEPT !.pc = "parent", !.op = "upload", !.user = u,
                         !.folder = parent, !.names = ns]
    <2>2. n.pc = "parent" /\ n.op = "upload"
      BY DEF Idle
    <2>3. thread'[t] = n
      BY <1>1, <2>1
    <2> HIDE DEF n
    <2>4. Plain(n)
      BY <2>2 DEF Plain
    <2> QED BY <1>1, <1>2, <2>3, <2>4, PlainCarries
  <1>6. CASE Delete(t)
    <2>1. PICK u \in Users, ids \in Lists(0..Len(files)), m \in RemoveSource :
            Become(t, [Idle EXCEPT !.pc = "lookup", !.op = "delete", !.user = u,
                           !.ids = ids, !.mode = m])
      BY <1>6 DEF Delete
    <2> DEFINE n == [Idle EXCEPT !.pc = "lookup", !.op = "delete", !.user = u,
                         !.ids = ids, !.mode = m]
    <2>2. n.pc = "lookup" /\ n.op = "delete"
      BY DEF Idle
    <2>3. thread'[t] = n
      BY <1>1, <2>1
    <2> HIDE DEF n
    <2>4. Plain(n)
      BY <2>2 DEF Plain
    <2> QED BY <1>1, <1>2, <2>3, <2>4, PlainCarries
  <1>7. CASE Recover(t)
    <2>1. PICK u \in Users, ids \in Lists(0..Len(files)) :
            Become(t, [Idle EXCEPT !.pc = "lookup", !.op = "recover", !.user = u, !.ids = ids])
      BY <1>7 DEF Recover
    <2> DEFINE n == [Idle EXCEPT !.pc = "lookup", !.op = "recover", !.user = u, !.ids = ids]
    <2>2. n.pc = "lookup" /\ n.op = "recover"
      BY DEF Idle
    <2>3. thread'[t] = n
      BY <1>1, <2>1
    <2> HIDE DEF n
    <2>4. Plain(n)
      BY <2>2 DEF Plain
    <2> QED BY <1>1, <1>2, <2>3, <2>4, PlainCarries
  <1>8. CASE Move(t)
    <2>1. PICK u \in Users, id \in 0..Len(files), parent \in 0..Len(files) :
            Become(t, [Idle EXCEPT !.pc = "compare", !.op = "move", !.user = u, !.id = id,
                           !.folder = parent])
      BY <1>8 DEF Move
    <2> DEFINE n == [Idle EXCEPT !.pc = "compare", !.op = "move", !.user = u, !.id = id,
                         !.folder = parent]
    <2>2. n.pc = "compare" /\ n.op = "move"
      BY DEF Idle
    <2>3. thread'[t] = n
      BY <1>1, <2>1
    <2> HIDE DEF n
    <2>4. Plain(n)
      BY <2>2 DEF Plain
    <2> QED BY <1>1, <1>2, <2>3, <2>4, PlainCarries
  <1>9. CASE Rename(t)
    <2>1. PICK u \in Users, id \in 0..Len(files), m \in Names :
            IF Exists(id) /\ files[id].user = u
            THEN Become(t, [Idle EXCEPT !.pc = "save", !.op = "rename", !.user = u, !.id = id,
                                !.row = [files[id] EXCEPT !.name = <<m>>],
                                !.orig = files[id].name])
            ELSE UNCHANGED thread
      BY <1>9 DEF Rename
    <2>2. CASE ~(Exists(id) /\ files[id].user = u)
      BY <1>3, <2>1, <2>2
    <2>3. CASE Exists(id) /\ files[id].user = u
      <3> DEFINE row == [files[id] EXCEPT !.name = <<m>>]
                 orig == files[id].name
                 n == [Idle EXCEPT !.pc = "save", !.op = "rename", !.user = u, !.id = id,
                           !.row = row, !.orig = orig]
      <3>1. id \in DOMAIN files /\ files[id] \in Row
        BY <2>3, Before DEF Exists
      <3>2. /\ row.status = files[id].status /\ row.user = files[id].user
            /\ row.folder = files[id].folder
        BY <3>1 DEF Row
      <3>3. thread'[t] = n
        BY <1>1, <2>1, <2>3
      <3> HIDE DEF row
      <3>4. Apart(files, {}) => Clear(files, id, row, orig)
        BY <3>1, <3>2 DEF Apart, Clear
      <3> HIDE DEF orig
      <3>5. n.pc = "save" /\ n.op = "rename" /\ n.id = id /\ n.row = row /\ n.orig = orig
        BY DEF Idle
      <3> HIDE DEF n
      <3>6. Sound(n, files)
        BY <3>2, <3>5 DEF Sound
      <3>7. Apart(files, {}) => Named(n, files)
        BY <3>4, <3>5 DEF Named, AtRisk
      <3> QED BY <1>1, <1>2, <3>3, <3>6, <3>7 DEF Carries
    <2> QED BY <2>2, <2>3
  <1> QED BY <1>4, <1>5, <1>6, <1>7, <1>8, <1>9 DEF Begin

\* createFolder and uploads: the name is free when the row is inserted.
LEMMA InsertCarries ==
  ASSUME IInv, NEW t \in Threads,
         \/ CreateFolderProbe(t) \/ CreateFolderInsert(t)
         \/ UploadParent(t) \/ UploadProbe(t) \/ UploadWrite(t) \/ UploadInsert(t)
  PROVE  Carries(thread[t], thread'[t], files')
  <1> DEFINE r == thread[t]
  <1>0. /\ r \in Request /\ HoldsSafely(r) /\ TypeOK
        /\ \A n : Become(t, n) => thread'[t] = n
    BY Before, Becomes
  <1>1. r.op \in {"create_folder", "upload"}
    BY DEF CreateFolderProbe, CreateFolderInsert, UploadParent, UploadProbe, UploadWrite,
       UploadInsert, At
  <1>2. Named(r, files) => Apart(files, {})
    BY <1>1, NoRisk
  <1>3. r.op = "upload" => Plain(NextName(r))
    BY PlainOnes
  <1>4. CASE CreateFolderProbe(t)
    <2> DEFINE n == [r EXCEPT !.pc = "insert"]
    <2>1. /\ files' = files /\ r.op = "create_folder"
          /\ thread'[t] = Idle \/ (thread'[t] = n /\ ~NameTaken(0, r.row))
      BY <1>0, <1>4 DEF CreateFolderProbe, At, Reads
    <2>2. n.pc = "insert" /\ n.op = "create_folder" /\ n.row = r.row
      BY <1>0, <2>1 DEF Request
    <2> HIDE DEF n
    <2>3. ~NameTaken(0, r.row) => Carries(r, n, files)
      BY <1>2, <2>2, FreeIsClear DEF Carries, Sound, Named, AtRisk
    <2> QED BY <1>2, <2>1, <2>3, PlainOnes, PlainCarries
  <1>5. CASE CreateFolderInsert(t) \/ UploadInsert(t)
    <2>1. r.pc = "insert" /\ files' = Append(files, r.row)
      BY <1>5 DEF CreateFolderInsert, UploadInsert, At
    <2>2. r.row \in Row
      BY <1>0, <1>1, <2>1 DEF HoldsSafely, Insertable
    <2>3. Named(r, files) => Apart(files', {})
      <3>1. Named(r, files) => Clear(files, 0, r.row, r.row.name)
        BY <1>1, <2>1 DEF Named
      <3> QED BY <1>0, <1>2, <2>1, <2>2, <3>1, AppendApart
    <2>4. Plain(thread'[t])
      BY <1>0, <1>3, <1>5, PlainOnes DEF CreateFolderInsert, UploadInsert, At
    <2> QED BY <2>3, <2>4, PlainCarries
  <1>6. CASE UploadParent(t)
    <2> DEFINE row == NewRow(r.user, r.folder, <<Head(r.names)>>, "file")
               n == [r EXCEPT !.pc = "probe", !.row = row, !.orig = row.name, !.tries = 1]
    <2>1. files' = files /\ r.op = "upload" /\ (thread'[t] = n \/ thread'[t] = NextName(r))
      BY <1>0, <1>6 DEF UploadParent, At, Reads
    <2> HIDE DEF row
    <2>2. n.pc = "probe" /\ n.op = "upload"
      BY <1>0, <2>1 DEF Request
    <2> HIDE DEF n
    <2>3. Plain(n)
      BY <2>2 DEF Plain
    <2> QED BY <1>2, <1>3, <2>1, <2>3, PlainCarries
  <1>7. CASE UploadProbe(t)
    <2> DEFINE m == [r EXCEPT !.row.name = Suffixed(r.orig, "_", r.tries), !.tries = @ + 1]
               n == [r EXCEPT !.pc = "write"]
    <2>1. /\ files' = files /\ r.op = "upload" /\ r.pc = "probe"
          /\ thread'[t] = m \/ (thread'[t] = n /\ ~NameTaken(0, r.row))
      BY <1>0, <1>7 DEF UploadProbe, At, Reads
    <2>2. n.pc = "write" /\ n.op = "upload" /\ n.row = r.row /\ m.pc = "probe" /\ m.op = "upload"
      BY <1>0, <2>1 DEF Request
    <2> HIDE DEF m, n
    <2>3. ~NameTaken(0, r.row) => Carries(r, n, files)
      BY <1>2, <2>2, FreeIsClear DEF Carries, Sound, Named, AtRisk
    <2>4. Plain(m)
      BY <2>2 DEF Plain
    <2> QED BY <1>2, <2>1, <2>3, <2>4, PlainCarries
  <1>8. CASE UploadWrite(t)
    <2> DEFINE row == [r.row EXCEPT !.blob = blobs + 1]
               n == [r EXCEPT !.pc = "insert", !.row = row]
    <2>1. files' = files /\ r.op = "upload" /\ r.pc = "write"
      BY <1>8 DEF UploadWrite, At
    <2>2. r.row \in Row
      BY <1>0, <2>1 DEF HoldsSafely, Insertable
    <2>3. thread'[t] = n
      <3>1. thread'[t] = [r EXCEPT !.pc = "insert", !.row.blob = blobs + 1]
        BY <1>0, <1>8 DEF UploadWrite
      <3> QED BY <1>0, <3>1 DEF Request
    <2>4. /\ row.folder = r.row.folder /\ row.status = r.row.status /\ row.user = r.row.user
          /\ row.name = r.row.name
      BY <2>2 DEF Row
    <2> HIDE DEF row
    <2>5. n.pc = "insert" /\ n.op = "upload" /\ n.row = row
      BY <1>0, <2>1 DEF Request
    <2> HIDE DEF n
    <2>6. Named(r, files) => Clear(files, 0, row, row.name)
      BY <2>1, <2>4 DEF Named, Clear
    <2> QED BY <1>2, <2>1, <2>3, <2>5, <2>6 DEF Carries, Sound, Named, AtRisk
  <1> QED BY <1>4, <1>5, <1>6, <1>7, <1>8

\* What a recursion over the folder id is going to save.
LEMMA VisitFine ==
  ASSUME IInv, NEW r, NEW id \in DOMAIN files
  PROVE  /\ \A c \in Visit(r, id) : c.row.folder # Root
         /\ r.op = "delete" => \A c \in Visit(r, id) : c.row.status # "normal"
  <1> SUFFICES ASSUME NEW c \in Visit(r, id)
               PROVE  c.row.folder # Root /\ (r.op = "delete" => c.row.status # "normal")
    OBVIOUS
  <1> DEFINE st == SubStatus(r)
  <1>1. PICK k \in Children(r.user, id) : c = Item(k, [files[k] EXCEPT !.status = st])
    BY DEF Visit
  <1>2. k \in DOMAIN files /\ files[k] \in Row /\ files[k].folder = id /\ id # Root
    BY DEF Children, IInv, TypeOK, Root
  <1>3. r.op = "delete" => st # "normal"
    BY DEF SubStatus, SubDoomed
  <1> HIDE DEF st
  <1> DEFINE row == [files[k] EXCEPT !.status = st]
  <1>4. row.folder = id /\ row.status = st
    BY <1>2 DEF Row
  <1> HIDE DEF row
  <1>5. c.row = row
    BY <1>1 DEF Item, row
  <1> QED BY <1>2, <1>3, <1>4, <1>5

\* A request that enters a recursion, or goes on with it.
LEMMA WalkCarries ==
  ASSUME NEW r, NEW n, NEW F, n.pc = "walk", n.op \in {"delete", "recover"},
         n.op = "delete" => \A k \in DOMAIN n.stack : Dead(n.stack[k]),
         n.op = "recover" => \A k \in DOMAIN n.stack : Deep(n.stack[k]),
         Named(r, files) => Apart(F, {})
  PROVE  Carries(r, n, F)
  BY DEF Carries, Sound, Named, AtRisk

\* The ids of a delete or recover request, up to its recursion.
LEMMA FetchCarries ==
  ASSUME IInv, NEW t \in Threads,
         Lookup(t) \/ DeleteFetch(t) \/ DeleteEnter(t) \/ RecoverFetch(t) \/ RecoverEnter(t),
         Sound(thread[t], files)
  PROVE  Carries(thread[t], thread'[t], files')
  <1> DEFINE r == thread[t]
  <1>0. /\ r \in Request /\ HoldsSafely(r) /\ files' = files
        /\ \A n : Become(t, n) => thread'[t] = n
    BY Before, Becomes DEF Lookup, DeleteFetch, DeleteEnter, RecoverFetch, RecoverEnter, Reads
  <1>1. r.pc \in {"lookup", "fetch", "enter"} /\ r.op \in {"delete", "recover"}
    <2>1. CASE Lookup(t)
      <3>1. r.pc = "lookup"
        BY <2>1 DEF Lookup
      <3>2. r.op \in {"none", "create_folder", "upload", "delete", "recover", "rename", "move"}
        BY <1>0 DEF Request
      <3> QED BY <1>0, <3>1, <3>2 DEF HoldsSafely
    <2>2. CASE ~Lookup(t)
      BY <2>2 DEF DeleteFetch, DeleteEnter, RecoverFetch, RecoverEnter, At
    <2> QED BY <2>1, <2>2
  <1>2. Named(r, files) => Apart(files', {})
    BY <1>0, <1>1, NoRisk
  <1>3. CASE Lookup(t)
    <2> DEFINE id == Head(r.ids)
               n == [r EXCEPT !.pc = "fetch", !.id = id]
    <2>1. thread'[t] = n \/ thread'[t] = Idle
      BY <1>0, <1>3 DEF Lookup
    <2> HIDE DEF id
    <2>2. n.pc = "fetch" /\ n.op = r.op
      BY <1>0 DEF Request
    <2> HIDE DEF n
    <2>3. Plain(n)
      BY <1>1, <2>2 DEF Plain
    <2> QED BY <1>2, <2>1, <2>3, PlainOnes, PlainCarries
  <1>4. CASE DeleteFetch(t)
    <2> DEFINE copy == [files[r.id] EXCEPT !.status = Doomed(r.mode)]
               n == [r EXCEPT !.pc = "enter", !.row = copy]
    <2>1. r.op = "delete" /\ r.pc = "fetch" /\ (thread'[t] = n \/ thread'[t] = NextId(r))
      BY <1>0, <1>4 DEF DeleteFetch, At
    <2>2. copy.status # "normal"
      <3>1. files[r.id] \in Row
        BY <1>0, <2>1, Before DEF HoldsSafely
      <3> QED BY <3>1 DEF Row, Doomed
    <2> HIDE DEF copy
    <2>3. n.pc = "enter" /\ n.op = "delete" /\ n.row = copy
      BY <1>0, <2>1 DEF Request
    <2> HIDE DEF n
    <2>4. Carries(r, n, files')
      BY <1>2, <2>2, <2>3 DEF Carries, Sound, Named, AtRisk
    <2> QED BY <1>1, <1>2, <2>1, <2>4, PlainOnes, PlainCarries
  <1>5. CASE DeleteEnter(t)
    <2> DEFINE pending == IF r.row.type = "folder" THEN Visit(r, r.id) ELSE {}
               frame == Frame(Item(r.id, r.row), pending)
               n == [r EXCEPT !.pc = "walk", !.row = NoRow, !.stack = <<frame>>]
    <2>1. r.op = "delete" /\ r.pc = "enter" /\ thread'[t] = n
      BY <1>0, <1>5 DEF DeleteEnter, At
    <2>2. r.row.status # "normal" /\ r.id \in DOMAIN files
      BY <1>0, <2>1 DEF Sound, HoldsSafely, CopyOf
    <2>3. \A c \in pending : c.row.status # "normal"
      BY <2>1, <2>2, VisitFine
    <2> HIDE DEF pending
    <2>4. Dead(frame)
      BY <2>2, <2>3 DEF Dead, Frame, Item
    <2> HIDE DEF frame
    <2>5. n.pc = "walk" /\ n.op = "delete" /\ n.stack = <<frame>>
      BY <1>0, <2>1 DEF Request
    <2> HIDE DEF n
    <2>6. \A k \in DOMAIN n.stack : n.stack[k] = frame
      BY <2>5
    <2> QED BY <1>2, <2>1, <2>4, <2>5, <2>6, WalkCarries
  <1>6. CASE RecoverFetch(t)
    <2> DEFINE copy == [files[r.id] EXCEPT !.status = "normal"]
               orig == copy.name
               n == [r EXCEPT !.pc = "activate", !.row = copy, !.orig = orig, !.tries = 1]
    <2>1. r.op = "recover" /\ thread'[t] = n
      BY <1>0, <1>6 DEF RecoverFetch, At
    <2> HIDE DEF orig
    <2> HIDE DEF copy
    <2>2. n.pc = "activate" /\ n.op = "recover"
      BY <1>0, <2>1 DEF Request
    <2> HIDE DEF n
    <2>3. Plain(n)
      BY <2>2 DEF Plain
    <2> QED BY <1>2, <2>1, <2>3, PlainCarries
  <1>7. CASE RecoverEnter(t)
    <2> DEFINE pending == Visit(r, r.id)
               frame == Frame(NoItem, pending)
               n == [r EXCEPT !.pc = "walk", !.row = NoRow, !.stack = <<frame>>]
    <2>1. r.op = "recover" /\ r.pc = "enter" /\ thread'[t] = n
      BY <1>0, <1>7 DEF RecoverEnter, At
    <2>2. r.id \in DOMAIN files
      BY <1>0, <2>1 DEF HoldsSafely, CopyOf
    <2>3. \A c \in pending : c.row.folder # Root
      BY <2>2, VisitFine
    <2> HIDE DEF pending
    <2>4. Deep(frame)
      BY <2>3 DEF Deep, Frame
    <2> HIDE DEF frame
    <2>5. n.pc = "walk" /\ n.op = "recover" /\ n.stack = <<frame>>
      BY <1>0, <2>1 DEF Request
    <2> HIDE DEF n
    <2>6. \A k \in DOMAIN n.stack : n.stack[k] = frame
      BY <2>5
    <2> QED BY <1>2, <2>1, <2>4, <2>5, <2>6, WalkCarries
  <1> QED BY <1>3, <1>4, <1>5, <1>6, <1>7

\* The row asked for comes back, and is renamed if its name is taken.
LEMMA RecoverCarries ==
  ASSUME IInv, NEW t \in Threads,
         RecoverActivate(t) \/ RecoverProbe(t) \/ RecoverSettle(t)
  PROVE  Carries(thread[t], thread'[t], files')
  <1> DEFINE r == thread[t]
  <1>0. /\ r \in Request /\ TypeOK
        /\ \A n : Become(t, n) => thread'[t] = n
    BY Before, Becomes
  <1>1. r.op = "recover" /\ r.pc \in {"activate", "probe", "settle"}
    BY DEF RecoverActivate, RecoverProbe, RecoverSettle, At
  <1>2. r.id \in DOMAIN files /\ r.row \in Row
    BY <1>1, WalkerHolds DEF CopyOf
  <1>3. CASE RecoverActivate(t)
    <2> DEFINE n == [r EXCEPT !.pc = "probe"]
    <2>1. r.pc = "activate" /\ files' = [files EXCEPT ![r.id] = r.row] /\ thread'[t] = n
      BY <1>0, <1>3 DEF RecoverActivate, At, Merge
    <2>2. n.pc = "probe" /\ n.op = "recover" /\ n.id = r.id
      BY <1>0, <1>1 DEF Request
    <2> HIDE DEF n
    <2>3. Named(r, files) => Apart(files', {r.id})
      <3>1. Named(r, files) => Apart(files, {})
        BY <2>1, NoRisk
      <3>2. {} \subseteq {r.id}
        OBVIOUS
      <3> QED BY <1>0, <1>2, <2>1, <3>1, <3>2, MergeApart
    <2> QED BY <2>1, <2>2, <2>3 DEF Carries, Sound, Named, AtRisk
  <1>4. CASE RecoverProbe(t)
    <2> DEFINE name == Suffixed(r.orig, "_recover_", r.tries)
               m == [r EXCEPT !.row.name = name, !.tries = @ + 1]
               n == [r EXCEPT !.pc = "settle"]
    <2>1. /\ r.pc = "probe" /\ files' = files
          /\ thread'[t] = m \/ (thread'[t] = n /\ ~NameTaken(r.id, r.row))
      BY <1>0, <1>4 DEF RecoverProbe, At, Reads
    <2> HIDE DEF name
    <2>2. /\ n.pc = "settle" /\ n.op = "recover" /\ n.id = r.id /\ n.row = r.row
          /\ m.pc = "probe" /\ m.op = "recover" /\ m.id = r.id
      BY <1>0, <1>1, <2>1 DEF Request
    <2> HIDE DEF m, n
    <2>3. Named(r, files) => Apart(files, {r.id})
      BY <1>1, <2>1 DEF Named, AtRisk
    <2>4. Carries(r, m, files)
      BY <2>2, <2>3 DEF Carries, Sound, Named, AtRisk
    <2>5. ~NameTaken(r.id, r.row) => Carries(r, n, files)
      BY <2>2, <2>3, FreeIsClear DEF Carries, Sound, Named, AtRisk
    <2> QED BY <2>1, <2>4, <2>5
  <1>5. CASE RecoverSettle(t)
    <2> DEFINE n == [r EXCEPT !.pc = "enter"]
    <2>1. /\ r.pc = "settle" /\ files' = [files EXCEPT ![r.id] = r.row]
          /\ thread'[t] = n \/ thread'[t] = NextId(r)
      BY <1>0, <1>5 DEF RecoverSettle, At, Merge
    <2>2. n.pc = "enter" /\ n.op = "recover"
      BY <1>0, <1>1 DEF Request
    <2> HIDE DEF n
    <2>3. Named(r, files) => Apart(files', {})
      <3>1. Named(r, files) => Apart(files, {r.id}) /\ Clear(files, r.id, r.row, r.row.name)
        BY <1>1, <2>1 DEF Named, AtRisk
      <3> QED BY <1>0, <1>2, <2>1, <3>1, MergeApart
    <2>4. Plain(n)
      BY <2>2 DEF Plain
    <2>5. Plain(NextId(r))
      BY <1>1, PlainOnes
    <2>6. Plain(thread'[t])
      BY <2>1, <2>4, <2>5
    <2> QED BY <2>3, <2>6, PlainCarries
  <1> QED BY <1>3, <1>4, <1>5

\* The stack after the recursion has gone into the child c.
Deeper(r, n, c) ==
    LET L == Len(r.stack)
    IN /\ n.pc = "walk" /\ n.op = r.op /\ DOMAIN n.stack = 1 .. L + 1
       /\ \A k \in 1 .. L - 1 : n.stack[k] = r.stack[k]
       /\ n.stack[L].self = Top(r).self /\ n.stack[L].pending = Top(r).pending \ {c}
       /\ n.stack[L+1].self = c
       /\ n.stack[L+1].pending = IF c.row.type = "folder" THEN Visit(r, c.id) ELSE {}

\* The recursion goes into a child of a folder.
LEMMA DescendStack ==
  ASSUME IInv, NEW t \in Threads, Descend(t)
  PROVE  /\ thread[t].pc = "walk" /\ files' = files /\ Len(thread[t].stack) \in Nat \ {0}
         /\ DOMAIN thread[t].stack = 1 .. Len(thread[t].stack)
         /\ \E c \in Top(thread[t]).pending :
               /\ CopyOf(c.id, c.row, thread[t].user)
               /\ Deeper(thread[t], thread'[t], c)
  <1> DEFINE r == thread[t]
             L == Len(r.stack)
  <1>1. r.pc = "walk" /\ files' = files /\ \A n : Become(t, n) => thread'[t] = n
    BY Becomes DEF Descend, Reads
  <1>2. /\ r \in Request /\ r.op \in {"delete", "recover"}
        /\ r.stack \in Seq(FrameType) /\ r.stack # <<>>
        /\ \A k \in DOMAIN r.stack : FrameSafe(r.stack[k], r.user)
    BY <1>1, WalkFrames
  <1>3. /\ L \in Nat \ {0} /\ L \in DOMAIN r.stack /\ Top(r) = r.stack[L] /\ Top(r) \in FrameType
        /\ DOMAIN r.stack = 1 .. L
    BY <1>2 DEF Top
  <1>4. PICK c \in Top(r).pending :
          Become(t, [r EXCEPT
             !.stack = Below(r) \o << [Top(r) EXCEPT !.pending = @ \ {c}],
                                      Frame(c, IF c.row.type = "folder" THEN Visit(r, c.id) ELSE {}) >>])
    BY DEF Descend
  <1> DEFINE pending == IF c.row.type = "folder" THEN Visit(r, c.id) ELSE {}
             top == [Top(r) EXCEPT !.pending = @ \ {c}]
             new == Frame(c, pending)
             b == Below(r)
             st == b \o <<top, new>>
             n == [r EXCEPT !.stack = st]
  <1>5. CopyOf(c.id, c.row, r.user) /\ c \in [id : Nat, row : Row]
    BY <1>2, <1>3 DEF FrameSafe, FrameType
  <1>6. pending \in SUBSET [id : Nat, row : Row]
    BY <1>2, VisitSafe
  <1>7. thread'[t] = n
    BY <1>1, <1>4
  <1> HIDE DEF pending
  <1>8. top.self = Top(r).self /\ top.pending = Top(r).pending \ {c} /\ top \in FrameType
    BY <1>3 DEF FrameType
  <1>9. new.self = c /\ new.pending = pending /\ new \in FrameType
    BY <1>5, <1>6 DEF Frame, FrameType, ItemType
  <1> HIDE DEF top, new
  <1>10. n.pc = "walk" /\ n.op = r.op /\ n.stack = st
    BY <1>1, <1>2 DEF Request
  <1>11. b \in Seq(FrameType) /\ Len(b) = L - 1 /\ \A i \in 1..L-1 : b[i] = r.stack[i]
    BY <1>2, BelowFacts
  <1> HIDE DEF b, L
  <1>12. /\ st \in Seq(FrameType) /\ Len(st) = Len(b) + 2
         /\ \A i \in 1..Len(b) : st[i] = b[i]
         /\ st[Len(b)+1] = top /\ st[Len(b)+2] = new
    BY <1>8, <1>9, <1>11, PushTwo
  <1>13. Len(b) + 1 = L /\ Len(b) + 2 = L + 1
    BY <1>3, <1>11
  <1> HIDE DEF st, n
  <1>14. DOMAIN st = 1 .. L + 1 /\ st[L] = top /\ st[L+1] = new
    BY <1>12, <1>13
  <1>15. Deeper(r, n, c)
    BY <1>8, <1>9, <1>10, <1>11, <1>12, <1>14 DEF Deeper, L, pending
  <1> QED BY <1>1, <1>3, <1>5, <1>7, <1>15 DEF L

LEMMA DescendCarries ==
  ASSUME IInv, NEW t \in Threads, Descend(t), Sound(thread[t], files)
  PROVE  Carries(thread[t], thread'[t], files')
  <1> DEFINE r == thread[t]
             n == thread'[t]
             L == Len(r.stack)
  <1>1. /\ r.pc = "walk" /\ files' = files /\ L \in Nat \ {0} /\ DOMAIN r.stack = 1 .. L
        /\ r.op \in {"delete", "recover"} /\ Top(r) = r.stack[L]
    BY DescendStack, WalkFrames DEF Top
  <1>2. PICK c \in Top(r).pending : CopyOf(c.id, c.row, r.user) /\ Deeper(r, n, c)
    BY DescendStack
  <1>3. c.id \in DOMAIN files
    BY <1>2 DEF CopyOf
  <1>4. /\ \A d \in n.stack[L+1].pending : d.row.folder # Root
        /\ r.op = "delete" => \A d \in n.stack[L+1].pending : d.row.status # "normal"
    BY <1>2, <1>3, VisitFine DEF Deeper
  <1>5. Named(r, files) => Apart(files', {})
    BY <1>1, NoRisk
  <1> HIDE DEF L
  <1>6. /\ n.pc = "walk" /\ n.op = r.op
        /\ \A k \in DOMAIN n.stack : k \in 1 .. L - 1 \/ k = L \/ k = L + 1
        /\ \A k \in 1 .. L - 1 : k \in DOMAIN r.stack /\ n.stack[k] = r.stack[k]
        /\ L \in DOMAIN r.stack
        /\ n.stack[L].self = r.stack[L].self /\ n.stack[L].pending \subseteq r.stack[L].pending
        /\ n.stack[L+1].self \in r.stack[L].pending
    <2>1. /\ n.pc = "walk" /\ n.op = r.op /\ DOMAIN n.stack = 1 .. L + 1
          /\ \A k \in 1 .. L - 1 : n.stack[k] = r.stack[k]
          /\ n.stack[L].self = r.stack[L].self
          /\ n.stack[L].pending \subseteq r.stack[L].pending
          /\ n.stack[L+1].self \in r.stack[L].pending
      BY <1>1, <1>2 DEF Deeper, L
    <2> HIDE DEF n
    <2>2. L \in Nat \ {0}
      BY <1>1
    <2>3. \A k \in 1 .. L + 1 : k \in 1 .. L - 1 \/ k = L \/ k = L + 1
      BY <2>2
    <2>4. L \in 1 .. L /\ \A k \in 1 .. L - 1 : k \in 1 .. L
      BY <2>2
    <2> QED BY <1>1, <2>1, <2>3, <2>4
  <1> HIDE DEF n
  <1>7. r.op = "delete" => \A k \in DOMAIN n.stack : Dead(n.stack[k])
    <2> SUFFICES ASSUME r.op = "delete", NEW k \in DOMAIN n.stack PROVE Dead(n.stack[k])
      OBVIOUS
    <2>1. \A i \in DOMAIN r.stack : Dead(r.stack[i])
      BY <1>1 DEF Sound
    <2>2. Dead(n.stack[L]) /\ Dead(n.stack[L+1])
      BY <1>4, <1>6, <2>1 DEF Dead
    <2> QED BY <1>6, <2>1, <2>2
  <1>8. r.op = "recover" => \A k \in DOMAIN n.stack : Deep(n.stack[k])
    <2> SUFFICES ASSUME r.op = "recover", NEW k \in DOMAIN n.stack PROVE Deep(n.stack[k])
      OBVIOUS
    <2>1. \A i \in DOMAIN r.stack : Deep(r.stack[i])
      BY <1>1 DEF Sound
    <2>2. Deep(n.stack[L]) /\ Deep(n.stack[L+1])
      BY <1>4, <1>6, <2>1 DEF Deep
    <2> QED BY <1>6, <2>1, <2>2
  <1> QED BY <1>1, <1>5, <1>6, <1>7, <1>8, WalkCarries DEF n

\* The recursion returns: what it saves is deleted, or not in the root.
LEMMA AscendCarries ==
  ASSUME IInv, NEW t \in Threads, Ascend(t), Sound(thread[t], files)
  PROVE  Carries(thread[t], thread'[t], files')
  <1> DEFINE r == thread[t]
             L == Len(r.stack)
             n == [r EXCEPT !.stack = Below(r)]
  <1>1. r.pc = "walk" /\ thread'[t] = IF L = 1 THEN NextId(r) ELSE n
    BY Becomes DEF Ascend
  <1>2. /\ r \in Request /\ r.op \in {"delete", "recover"} /\ TypeOK
        /\ r.stack \in Seq(FrameType) /\ r.stack # <<>>
        /\ \A k \in DOMAIN r.stack : FrameSafe(r.stack[k], r.user)
    BY <1>1, WalkFrames, Before
  <1>3. L \in Nat \ {0} /\ L \in DOMAIN r.stack /\ Top(r) = r.stack[L]
    BY <1>2 DEF Top
  <1>4. \A k \in DOMAIN Below(r) : k \in DOMAIN r.stack /\ Below(r)[k] = r.stack[k]
    <2>1. /\ Below(r) \in Seq(FrameType) /\ Len(Below(r)) = L - 1
          /\ \A k \in 1..L-1 : Below(r)[k] = r.stack[k]
      BY <1>2, BelowFacts
    <2>2. DOMAIN Below(r) = 1 .. L - 1 /\ DOMAIN r.stack = 1 .. L
      BY <1>2, <1>3, <2>1
    <2>3. 1 .. L - 1 \subseteq 1 .. L
      BY <1>3
    <2> QED BY <2>1, <2>2, <2>3
  <1> HIDE DEF L
  <1>5. Named(r, files) => Apart(files', {})
    <2>1. Named(r, files) => Apart(files, {})
      BY <1>1, NoRisk
    <2>2. CASE Top(r).self = NoItem
      BY <2>1, <2>2 DEF Ascend, Reads
    <2>3. CASE Top(r).self # NoItem
      <3> DEFINE id == Top(r).self.id
                 row == Top(r).self.row
      <3>1. files' = [files EXCEPT ![id] = row] /\ id \in DOMAIN files
        BY <1>2, <1>3, <2>3 DEF Ascend, Merge, FrameSafe, CopyOf
      <3>2. row.status # "normal" \/ row.folder # Root
        BY <1>1, <1>2, <1>3, <2>3 DEF Sound, Dead, Deep
      <3> HIDE DEF id, row
      <3>3. Clear(files, id, row, row.name)
        BY <3>2 DEF Clear
      <3>4. {} \subseteq {id}
        OBVIOUS
      <3> QED BY <1>2, <2>1, <3>1, <3>3, <3>4, MergeApart
    <2> QED BY <2>2, <2>3
  <1>6. CASE L = 1
    <2>1. Plain(NextId(r))
      BY <1>2, PlainOnes
    <2>2. Plain(thread'[t])
      BY <1>1, <1>6, <2>1
    <2> QED BY <1>5, <2>2, PlainCarries
  <1>7. CASE L # 1
    <2>1. thread'[t] = n /\ n.pc = "walk" /\ n.op = r.op /\ n.stack = Below(r)
      BY <1>1, <1>2, <1>7 DEF Request
    <2> HIDE DEF n
    <2>2. /\ n.op = "delete" => \A k \in DOMAIN n.stack : Dead(n.stack[k])
          /\ n.op = "recover" => \A k \in DOMAIN n.stack : Deep(n.stack[k])
      BY <1>1, <1>4, <2>1 DEF Sound
    <2> QED BY <1>2, <1>5, <2>1, <2>2, WalkCarries
  <1> QED BY <1>6, <1>7

\* A rename: the new name is saved, and the old one stays free until the new one
\* is known to be.
LEMMA RenameCarries ==
  ASSUME IInv, NEW t \in Threads,
         RenameSave(t) \/ RenameProbe(t) \/ RenameSettle(t),
         Sound(thread[t], files)
  PROVE  Carries(thread[t], thread'[t], files')
  <1> DEFINE r == thread[t]
  <1>0. /\ r \in Request /\ TypeOK
        /\ \A n : Become(t, n) => thread'[t] = n
    BY Before, Becomes
  <1>1. r.op = "rename" /\ r.pc \in {"save", "probe", "settle"}
    BY DEF RenameSave, RenameProbe, RenameSettle, At
  <1>2. r.id \in DOMAIN files /\ r.row \in Row /\ r.row.status = files[r.id].status
    BY <1>1, RenamerHolds DEF CopyOf, Sound
  <1>3. CASE RenameSave(t)
    <2> DEFINE n == [r EXCEPT !.pc = "probe"]
    <2>1. r.pc = "save" /\ files' = [files EXCEPT ![r.id] = r.row] /\ thread'[t] = n
      BY <1>0, <1>3 DEF RenameSave, At, Merge
    <2>2. /\ n.pc = "probe" /\ n.op = "rename" /\ n.id = r.id /\ n.row = r.row
          /\ n.orig = r.orig
      BY <1>0, <1>1 DEF Request
    <2> HIDE DEF n
    <2>3. files'[r.id] = r.row
      BY <1>0, <1>2, <2>1 DEF TypeOK
    <2>4. Named(r, files) => Apart(files', {r.id})
      <3>1. Named(r, files) => Apart(files, {})
        BY <2>1, NoRisk
      <3>2. {} \subseteq {r.id}
        OBVIOUS
      <3> QED BY <1>0, <1>2, <2>1, <3>1, <3>2, MergeApart
    <2>5. Named(r, files) => Clear(files', r.id, r.row, r.orig)
      <3>1. Named(r, files) => Clear(files, r.id, r.row, r.orig)
        BY <1>1 DEF Named
      <3> QED BY <1>0, <1>2, <2>1, <3>1, MergeApart
    <2>6. Sound(n, files')
      BY <2>2, <2>3 DEF Sound
    <2>7. Named(r, files) => Named(n, files')
      BY <2>2, <2>4, <2>5 DEF Named, AtRisk
    <2> QED BY <2>1, <2>6, <2>7 DEF Carries
  <1>4. CASE RenameProbe(t)
    <2> DEFINE name == IF NameTaken(r.id, r.row) THEN r.orig ELSE r.row.name
               row == [r.row EXCEPT !.name = name]
               n == [r EXCEPT !.pc = "settle", !.row = row]
    <2>1. r.pc = "probe" /\ files' = files /\ thread'[t] = n
      BY <1>0, <1>4 DEF RenameProbe, At, Reads, Request
    <2>2. Named(r, files) => Apart(files, {r.id}) /\ Clear(files, r.id, r.row, r.orig)
      BY <1>1, <2>1 DEF Named, AtRisk
    <2>3. Named(r, files) => Clear(files, r.id, r.row, name)
      BY <2>2, FreeIsClear
    <2> HIDE DEF name
    <2>4. /\ row.name = name /\ row.status = r.row.status /\ row.user = r.row.user
          /\ row.folder = r.row.folder
      BY <1>2 DEF Row
    <2> HIDE DEF row
    <2>5. /\ n.pc = "settle" /\ n.op = "rename" /\ n.id = r.id /\ n.row = row
          /\ n.orig = r.orig
      BY <1>0, <1>1 DEF Request
    <2> HIDE DEF n
    <2>6. Sound(n, files)
      BY <1>2, <2>4, <2>5 DEF Sound
    <2>7. Named(r, files) => Clear(files, r.id, row, row.name) /\ Clear(files, r.id, row, r.orig)
      BY <2>2, <2>3, <2>4 DEF Clear
    <2>8. Named(r, files) => Named(n, files)
      BY <2>2, <2>5, <2>7 DEF Named, AtRisk
    <2> QED BY <2>1, <2>6, <2>8 DEF Carries
  <1>5. CASE RenameSettle(t)
    <2>1. r.pc = "settle" /\ files' = [files EXCEPT ![r.id] = r.row] /\ thread'[t] = Idle
      BY <1>0, <1>5 DEF RenameSettle, At, Merge
    <2>2. Named(r, files) => Apart(files', {})
      <3>1. Named(r, files) => Apart(files, {r.id}) /\ Clear(files, r.id, r.row, r.row.name)
        BY <1>1, <2>1 DEF Named, AtRisk
      <3> QED BY <1>0, <1>2, <2>1, <3>1, MergeApart
    <2>3. Plain(thread'[t])
      BY <2>1, PlainOnes
    <2> QED BY <2>2, <2>3, PlainCarries
  <1> QED BY <1>3, <1>4, <1>5

\* move and copy change nothing.
LEMMA MoveCarries ==
  ASSUME IInv, NEW t \in Threads, MoveCompare(t)
  PROVE  Carries(thread[t], thread'[t], files')
  <1>1. files' = files /\ thread'[t] = Idle /\ thread[t].op = "move"
    BY Becomes DEF MoveCompare, Reads, At
  <1>2. Named(thread[t], files) => Apart(files', {})
    BY <1>1, NoRisk
  <1>3. Plain(thread'[t])
    BY <1>1, PlainOnes
  <1> QED BY <1>2, <1>3, PlainCarries

\* Whatever a request does next, short of a failure.
LEMMA WorkCarries ==
  ASSUME IInv, NEW t \in Threads, Begin(t) \/ Continue(t), Sound(thread[t], files)
  PROVE  Carries(thread[t], thread'[t], files')
  <1>1. CASE Begin(t)
    BY <1>1, BeginCarries
  <1>2. CASE Continue(t)
    BY <1>2, InsertCarries, FetchCarries, RecoverCarries, DescendCarries, AscendCarries,
       RenameCarries, MoveCarries DEF Continue
  <1> QED BY <1>1, <1>2

\* A request that fails, or is cut off by a crash, holds nothing any more.
LEMMA FailEnds ==
  ASSUME IInv, NEW t \in Threads, Fail(t)
  PROVE  Plain(thread'[t]) /\ files' = files /\ faults < MaxFaults
  <1>1. \A n : Become(t, n) => thread'[t] = n
    BY Becomes
  <1>2. CASE UploadWriteFails(t) \/ UploadInsertFails(t)
    <2>1. /\ thread[t].op = "upload" /\ thread'[t] = NextName(thread[t]) /\ files' = files
          /\ faults < MaxFaults
      BY <1>1, <1>2 DEF UploadWriteFails, UploadInsertFails, At, Fault
    <2>2. Plain(NextName(thread[t]))
      BY <2>1, PlainOnes
    <2> QED BY <2>1, <2>2
  <1>3. CASE Abort(t)
    BY <1>1, <1>3, PlainOnes DEF Abort, Fault
  <1> QED BY <1>2, <1>3 DEF Fail

\* A request at such a point is sound.
LEMMA PlainIsSound == ASSUME NEW n, NEW F, Plain(n) PROVE Sound(n, F)
  BY DEF Plain, Sound

\* The invariant of requests that do not overlap.
SInv == IInv /\ OneThread /\ \A t \in Threads : Sound(thread[t], files)

LEMMA InitSInv == Init /\ OneThread => SInv
  <1> SUFFICES ASSUME Init, OneThread PROVE SInv
    OBVIOUS
  <1>1. \A t \in Threads : Plain(thread[t])
    BY PlainOnes DEF Init
  <1> QED BY <1>1, InitIInv, PlainIsSound DEF SInv

LEMMA NextSInv == SInv /\ [Next]_vars => SInv'
  <1> SUFFICES ASSUME SInv, [Next]_vars PROVE SInv'
    OBVIOUS
  <1>1. IInv' /\ IInv /\ OneThread
    BY NextIInv DEF SInv
  <1>2. OneThread'
    BY <1>1 DEF OneThread
  <1>3. PICK s : Threads = {s}
    BY <1>1 DEF OneThread
  <1>4. Sound(thread[s], files)
    BY <1>3 DEF SInv
  <1>5. Sound(thread'[s], files')
    <2>1. CASE Begin(s) \/ Continue(s)
      <3>1. Carries(thread[s], thread'[s], files')
        BY <1>1, <1>3, <1>4, <2>1, WorkCarries
      <3> QED BY <3>1 DEF Carries
    <2>2. CASE Fail(s)
      BY <1>1, <1>3, <2>2, FailEnds, PlainIsSound
    <2>3. CASE Crash
      <3>1. thread'[s] = Idle
        BY <1>3, <2>3 DEF Crash
      <3> QED BY <3>1, PlainOnes, PlainIsSound
    <2>4. CASE UNCHANGED vars \/ Wait
      BY <1>4, <2>4 DEF Wait, vars
    <2> QED BY <1>3, <2>1, <2>2, <2>3, <2>4 DEF Next
  <1> QED BY <1>1, <1>2, <1>3, <1>5 DEF SInv

\* What the one request in hand saves, unless it recovers, is not normal where the
\* table is not.
LEMMA SavesNoNormal ==
  ASSUME IInv, NEW t \in Threads, Continue(t), Sound(thread[t], files),
         thread[t].op # "recover",
         NEW f \in DOMAIN files, files[f].status # "normal", files'[f].status = "normal"
  PROVE  FALSE
  <1> DEFINE r == thread[t]
  <1>0. TypeOK /\ r \in Request /\ files'[f] # files[f]
    BY Before
  <1>1. ASSUME NEW id \in DOMAIN files, NEW row,
               files' = [files EXCEPT ![id] = row],
               row.status = files[id].status \/ row.status # "normal"
        PROVE  FALSE
    <2>1. files'[f] = IF f = id THEN row ELSE files[f]
      BY <1>0, <1>1 DEF TypeOK
    <2> QED BY <2>1, <1>1
  <1>2. CASE RenameSave(t) \/ RenameSettle(t)
    <2>1. r.op = "rename" /\ files' = [files EXCEPT ![r.id] = r.row]
      BY <1>2 DEF RenameSave, RenameSettle, At, Merge
    <2>2. r.id \in DOMAIN files /\ r.row.status = files[r.id].status
      BY <2>1, RenamerHolds DEF CopyOf, Sound
    <2> QED BY <1>1, <2>1, <2>2
  <1>3. CASE Ascend(t)
    <2>1. r.pc = "walk"
      BY <1>3 DEF Ascend
    <2>2. /\ r.op = "delete" /\ r.stack \in Seq(FrameType) /\ r.stack # <<>>
          /\ \A k \in DOMAIN r.stack : FrameSafe(r.stack[k], r.user)
      BY <2>1, WalkFrames
    <2>3. Len(r.stack) \in DOMAIN r.stack /\ Top(r) = r.stack[Len(r.stack)]
      BY <2>2 DEF Top
    <2>4. Top(r).self # NoItem
      BY <1>0, <1>3 DEF Ascend, Reads
    <2>5. /\ files' = [files EXCEPT ![Top(r).self.id] = Top(r).self.row]
          /\ Top(r).self.id \in DOMAIN files
      BY <1>3, <2>2, <2>3, <2>4 DEF Ascend, Merge, FrameSafe, CopyOf
    <2>6. Top(r).self.row.status # "normal"
      BY <2>1, <2>2, <2>3 DEF Sound, Dead
    <2> QED BY <1>1, <2>5, <2>6
  <1>4. CASE CreateFolderInsert(t) \/ UploadInsert(t)
    <2>1. files' = Append(files, r.row)
      BY <1>4 DEF CreateFolderInsert, UploadInsert
    <2> QED BY <1>0, <2>1 DEF TypeOK
  <1>5. CASE RecoverActivate(t) \/ RecoverSettle(t)
    BY <1>5 DEF RecoverActivate, RecoverSettle, At
  <1>6. CASE UNCHANGED files
    BY <1>0, <1>6
  <1> QED BY <1>2, <1>3, <1>4, <1>5, <1>6 DEF Continue, CreateFolderProbe, UploadParent,
       UploadProbe, UploadWrite, Lookup, DeleteFetch, DeleteEnter, RecoverFetch, RecoverProbe,
       RecoverEnter, Descend, RenameProbe, MoveCompare, Reads

\* While requests do not overlap, a row comes back from a deleted status through a
\* recover request only (FileManager.delete, rename and recover, as long as one
\* servlet thread serves them).
THEOREM RecoverAloneRevives == Spec /\ OneThread => OnlyRecoverRevives
  <1> DEFINE Step == \A f \in DOMAIN files :
                        files[f].status # "normal" /\ files'[f].status = "normal" =>
                           \E t \in Threads : thread'[t] # thread[t] /\ thread[t].op = "recover"
  <1>1. SInv /\ [Next]_vars => [Step]_vars
    <2> SUFFICES ASSUME SInv, Next, NEW f \in DOMAIN files,
                        files[f].status # "normal", files'[f].status = "normal"
                 PROVE  \E t \in Threads : thread'[t] # thread[t] /\ thread[t].op = "recover"
      OBVIOUS
    <2>0. IInv /\ files'[f] # files[f]
      BY DEF SInv
    <2>1. PICK t \in Threads : Begin(t) \/ Continue(t) \/ Fail(t)
      BY <2>0 DEF Next, Crash, Wait, vars
    <2>2. thread'[t] # thread[t]
      BY <2>0, <2>1, StepEffect, RowsWritten
    <2>3. Continue(t)
      <3>1. CASE Begin(t)
        BY <2>0, <3>1 DEF Begin, CreateFolder, Upload, Delete, Recover, Rename, Move
      <3>2. CASE Fail(t)
        BY <2>0, <3>2, FailEnds
      <3> QED BY <2>1, <3>1, <3>2
    <2>4. Sound(thread[t], files)
      BY DEF SInv
    <2>5. thread[t].op = "recover"
      BY <2>0, <2>3, <2>4, SavesNoNormal
    <2> QED BY <2>2, <2>5
  <1> QED BY <1>1, InitSInv, NextSInv, PTL DEF Spec, OnlyRecoverRevives

\* The table the server starts with lists no name twice in a root.
SeedUnique == Apart(Seed, {})

\* The invariant behind the unique names, with the conditions on the constants.
UInv ==
    /\ SInv /\ MaxFaults = 0 /\ faults = 0
    /\ \A t \in Threads : Named(thread[t], files)

LEMMA InitUInv == Init /\ OneThread /\ MaxFaults = 0 /\ SeedUnique => UInv
  <1> SUFFICES ASSUME Init, OneThread, MaxFaults = 0, SeedUnique PROVE UInv
    OBVIOUS
  <1>1. \A t \in Threads : thread[t] = Idle
    BY DEF Init
  <1>2. files = Seed /\ faults = 0
    BY DEF Init
  <1>3. Named(Idle, files)
    BY <1>2 DEF Named, AtRisk, Idle, SeedUnique
  <1> QED BY <1>1, <1>2, <1>3, InitSInv DEF UInv

LEMMA NextUInv == UInv /\ [Next]_vars => UInv'
  <1> SUFFICES ASSUME UInv, [Next]_vars PROVE UInv'
    OBVIOUS
  <1>1. SInv' /\ SInv /\ IInv /\ IInv' /\ OneThread /\ MaxFaults = 0 /\ faults = 0
    BY NextSInv DEF UInv, SInv
  <1>2. PICK s : Threads = {s}
    BY <1>1 DEF OneThread
  <1>3. Sound(thread[s], files) /\ Named(thread[s], files)
    BY <1>2 DEF UInv, SInv
  <1>4. Named(thread'[s], files') /\ faults' = 0
    <2>1. CASE Begin(s) \/ Continue(s)
      <3>1. Carries(thread[s], thread'[s], files')
        BY <1>1, <1>2, <1>3, <2>1, WorkCarries
      <3>2. faults' = faults
        BY <1>1, <1>2, <2>1, WorkOrphansNothing
      <3> QED BY <1>1, <1>3, <3>1, <3>2 DEF Carries
    <2>2. CASE Fail(s)
      BY <1>1, <1>2, <2>2, FailEnds
    <2>3. CASE Crash
      BY <1>1, <2>3 DEF Crash, Fault
    <2>4. CASE UNCHANGED vars \/ Wait
      BY <1>1, <1>3, <2>4 DEF Wait, vars
    <2> QED BY <1>2, <2>1, <2>2, <2>3, <2>4 DEF Next
  <1> QED BY <1>1, <1>2, <1>4 DEF UInv

\* While requests do not overlap, no call fails and the table is in order at the
\* start, no two rows are listed under one name in the root (createFolder,
\* fileUpload, recoverFile and rename look for the name before they settle on it).
THEOREM RootNamesStayUnique ==
    Spec /\ OneThread /\ MaxFaults = 0 /\ SeedUnique => []RootNamesUnique
  <1>1. UInv => RootNamesUnique
    <2> SUFFICES ASSUME UInv, Quiescent, NEW f \in DOMAIN files, NEW g \in DOMAIN files,
                        f # g, files[f].folder = Root
                 PROVE  ~SameListing(f, g)
      BY DEF RootNamesUnique
    <2>1. PICK t \in Threads : Named(thread[t], files) /\ thread[t].pc = "idle"
      BY DEF UInv, SInv, OneThread, Quiescent
    <2>2. Apart(files, {})
      BY <2>1, NoRisk
    <2> QED BY <2>2 DEF Apart, SameListing
  <1> QED BY <1>1, InitUInv, NextUInv, PTL DEF Spec

-----------------------------------------------------------------------------
(* A delete reaches the whole subtree.                                     *)

\* Beneath, in the rows F.
Under(F, g, f) ==
    /\ F[f].type = "folder"
    /\ \E S \in SUBSET {k \in DOMAIN F : F[k].user = F[f].user} :
          /\ g \in S
          /\ \A k \in S : LET p == F[k].folder
                          IN p = f \/ (p \in S /\ F[p].type = "folder")

\* The children of a folder.
Kids(F, f) == {c \in DOMAIN F : F[c].folder = f /\ F[c].user = F[f].user}

\* Neither row c nor any row beneath it is listed.
Gone(F, c) == \A g \in DOMAIN F : g = c \/ Under(F, g, c) => F[g].status # "normal"

\* The rows F become G: nothing moves, nothing is added, nothing comes back.
Wanes(F, G) ==
    /\ DOMAIN G = DOMAIN F
    /\ \A f \in DOMAIN F :
          /\ G[f].user = F[f].user /\ G[f].folder = F[f].folder /\ G[f].type = F[f].type
          /\ F[f].status # "normal" => G[f].status # "normal"

\* Child c of the row that frame k of the stack st is for: it is still to be visited,
\* or the next frame is for it, or it is gone with all beneath it.
Seen(st, k, c, F) ==
    \/ \E i \in st[k].pending : i.id = c
    \/ k + 1 \in DOMAIN st /\ st[k+1].self.id = c
    \/ Gone(F, c)

\* What the recursion of a delete has done so far.
Walked(r, F) ==
    r.op = "delete" /\ r.pc = "walk" =>
        \A k \in DOMAIN r.stack :
            LET f == r.stack[k].self.id
            IN /\ f \in DOMAIN F
               /\ F[f].type = "folder" => \A c \in Kids(F, f) : Seen(r.stack, k, c, F)

\* The rows whose parents are older.
Grounded(F) == DOMAIN F \subseteq Nat /\ \A f \in DOMAIN F : F[f].folder \in Nat /\ F[f].folder < f

\* A set of numbers that is not empty has a least.
Older == {ss \in Nat \X Nat : ss[1] < ss[2]}

LEMMA OlderWF == IsWellFoundedOn(Older, Nat)
  BY NatLessThanWellFounded DEF OpToRel, Older

LEMMA OldestOf ==
  ASSUME NEW S, S \subseteq Nat, S # {}
  PROVE  \E x \in S : \A y \in S : x <= y
  <1>1. PICK x \in S : \A y \in S : <<y, x>> \notin Older
    BY OlderWF, WFMin, Zenon
  <1>2. \A y \in S : y \in Nat /\ x \in Nat /\ ~(y < x)
    BY <1>1 DEF Older
  <1> QED BY <1>2

LEMMA WanesKeeps ==
  ASSUME NEW F, NEW G, Wanes(F, G)
  PROVE  /\ \A g, f \in DOMAIN F : Under(G, g, f) => Under(F, g, f)
         /\ \A f \in DOMAIN F : Kids(G, f) = Kids(F, f)
         /\ \A c \in DOMAIN F : Gone(F, c) => Gone(G, c)
         /\ \A r : Walked(r, F) => Walked(r, G)
  <1>1. ASSUME NEW g \in DOMAIN F, NEW f \in DOMAIN F, Under(G, g, f) PROVE Under(F, g, f)
    <2>1. PICK S \in SUBSET {k \in DOMAIN G : G[k].user = G[f].user} :
            /\ g \in S
            /\ \A k \in S : LET p == G[k].folder IN p = f \/ (p \in S /\ G[p].type = "folder")
      BY <1>1 DEF Under
    <2>2. S \in SUBSET {k \in DOMAIN F : F[k].user = F[f].user}
      BY DEF Wanes
    <2>3. ASSUME NEW k \in S PROVE F[k].folder = f \/ (F[k].folder \in S /\ F[F[k].folder].type = "folder")
      BY <2>1, <2>2 DEF Wanes
    <2>4. F[f].type = "folder"
      BY <1>1 DEF Under, Wanes
    <2> QED BY <2>1, <2>2, <2>3, <2>4 DEF Under
  <1>2. ASSUME NEW f \in DOMAIN F PROVE Kids(G, f) = Kids(F, f)
    BY DEF Kids, Wanes
  <1>3. ASSUME NEW c \in DOMAIN F, Gone(F, c) PROVE Gone(G, c)
    BY <1>1, <1>3 DEF Gone, Wanes
  <1>4. ASSUME NEW r, Walked(r, F) PROVE Walked(r, G)
    <2> SUFFICES ASSUME r.op = "delete", r.pc = "walk", NEW k \in DOMAIN r.stack
                 PROVE  LET f == r.stack[k].self.id
                        IN /\ f \in DOMAIN G
                           /\ G[f].type = "folder" => \A c \in Kids(G, f) : Seen(r.stack, k, c, G)
      BY DEF Walked
    <2> DEFINE f == r.stack[k].self.id
    <2>1. f \in DOMAIN F /\ (F[f].type = "folder" => \A c \in Kids(F, f) : Seen(r.stack, k, c, F))
      BY <1>4 DEF Walked
    <2>2. f \in DOMAIN G /\ G[f].type = F[f].type /\ Kids(G, f) = Kids(F, f)
      BY <1>2, <2>1 DEF Wanes
    <2>3. ASSUME NEW c \in Kids(F, f), Seen(r.stack, k, c, F) PROVE Seen(r.stack, k, c, G)
      BY <1>3, <2>3 DEF Seen, Kids
    <2> QED BY <2>1, <2>2, <2>3
  <1> QED BY <1>1, <1>2, <1>3, <1>4

\* What lies beneath a folder is one of its children, or lies beneath one.
LEMMA UnderSplit ==
  ASSUME NEW F, Grounded(F), NEW f \in DOMAIN F, NEW g \in DOMAIN F, Under(F, g, f)
  PROVE  \E c \in Kids(F, f) : g = c \/ Under(F, g, c)
  <1> DEFINE Reached(k) == \E c \in Kids(F, f) : k = c \/ Under(F, k, c)
  <1>1. PICK S \in SUBSET {k \in DOMAIN F : F[k].user = F[f].user} :
          /\ g \in S
          /\ \A k \in S : LET p == F[k].folder IN p = f \/ (p \in S /\ F[p].type = "folder")
    BY DEF Under
  <1> DEFINE Bad == {k \in S : ~Reached(k)}
  <1> SUFFICES ASSUME Bad # {} PROVE FALSE
    BY <1>1
  <1>2. Bad \subseteq Nat
    BY DEF Grounded
  <1>3. PICK k \in Bad : \A y \in Bad : k <= y
    BY <1>2, OldestOf
  <1> DEFINE p == F[k].folder
  <1>4. /\ k \in S /\ k \in DOMAIN F /\ F[k].user = F[f].user /\ k \in Nat /\ p \in Nat /\ p < k
        /\ p = f \/ (p \in S /\ F[p].type = "folder")
    BY <1>1, <1>2 DEF Grounded
  <1>5. ~Reached(k)
    OBVIOUS
  <1>6. p # f
    BY <1>4, <1>5 DEF Kids
  <1>7. p \notin Bad
    BY <1>2, <1>3, <1>4
  <1>8. PICK c \in Kids(F, f) : p = c \/ Under(F, p, c)
    BY <1>4, <1>6, <1>7
  <1>9. c \in DOMAIN F /\ F[c].user = F[f].user
    BY DEF Kids
  <1>10. CASE p = c
    <2>1. /\ {k} \in SUBSET {j \in DOMAIN F : F[j].user = F[c].user}
          /\ k \in {k} /\ \A j \in {k} : F[j].folder = c
      BY <1>4, <1>9, <1>10
    <2>2. F[c].type = "folder"
      BY <1>4, <1>6, <1>10
    <2>3. Under(F, k, c)
      BY <2>1, <2>2 DEF Under
    <2> QED BY <1>5, <2>3
  <1>11. CASE Under(F, p, c)
    <2>1. PICK W \in SUBSET {j \in DOMAIN F : F[j].user = F[c].user} :
            /\ p \in W
            /\ \A j \in W : LET q == F[j].folder IN q = c \/ (q \in W /\ F[q].type = "folder")
      BY <1>11 DEF Under
    <2> DEFINE V == W \cup {k}
    <2>2. V \in SUBSET {j \in DOMAIN F : F[j].user = F[c].user} /\ k \in V
      BY <1>4, <1>9
    <2>3. ASSUME NEW j \in V
          PROVE  F[j].folder = c \/ (F[j].folder \in V /\ F[F[j].folder].type = "folder")
      <3>1. CASE j \in W
        BY <2>1, <3>1
      <3>2. CASE j = k
        BY <1>4, <1>6, <2>1, <3>2
      <3> QED BY <3>1, <3>2
    <2>4. F[c].type = "folder"
      BY <1>11 DEF Under
    <2> HIDE DEF V
    <2>5. Under(F, k, c)
      BY <2>2, <2>3, <2>4 DEF Under
    <2> QED BY <1>5, <2>5
  <1> QED BY <1>8, <1>10, <1>11

\* A row whose children are all gone is gone once it is saved as deleted.
LEMMA GoneUp ==
  ASSUME NEW F, NEW G, Grounded(F), Wanes(F, G), NEW f \in DOMAIN F,
         F[f].type = "folder" => \A c \in Kids(F, f) : Gone(F, c),
         G[f].status # "normal"
  PROVE  Gone(G, f)
  <1> SUFFICES ASSUME NEW g \in DOMAIN G, g = f \/ Under(G, g, f) PROVE G[g].status # "normal"
    BY DEF Gone
  <1>1. g \in DOMAIN F
    BY DEF Wanes
  <1>2. CASE Under(G, g, f)
    <2>1. Under(F, g, f)
      BY <1>1, <1>2, WanesKeeps
    <2>2. F[f].type = "folder"
      BY <2>1 DEF Under
    <2>3. PICK c \in Kids(F, f) : g = c \/ Under(F, g, c)
      BY <1>1, <2>1, UnderSplit
    <2>4. Gone(F, c)
      BY <2>2
    <2>5. F[g].status # "normal"
      BY <1>1, <2>3, <2>4 DEF Gone
    <2> QED BY <1>1, <2>5 DEF Wanes
  <1> QED BY <1>2

\* The table is grounded.
LEMMA TableGrounded == ASSUME IInv PROVE Grounded(files)
  <1>1. files \in Seq(Row) /\ \A f \in DOMAIN files : files[f].folder < f
    BY DEF IInv, TypeOK, TreeGrounded
  <1>2. \A f \in DOMAIN files : files[f] \in Row /\ f \in Nat
    BY <1>1
  <1> QED BY <1>1, <1>2 DEF Grounded, Row

\* A delete, and a move, revive nothing and add nothing.
LEMMA DeleteWanes ==
  ASSUME IInv, NEW t \in Threads, Begin(t) \/ Continue(t) \/ Fail(t), Sound(thread[t], files),
         thread[t].op \in {"none", "delete", "move"}
  PROVE  Wanes(files, files')
  <1>1. TypeOK /\ files \in Seq(Row)
    BY Before
  <1>2. CASE files' = files
    BY <1>2 DEF Wanes
  <1>3. CASE files' # files
    <2>1. ~Begin(t) /\ ~Fail(t)
      BY <1>3, FailEnds DEF Begin, CreateFolder, Upload, Delete, Recover, Rename, Move
    <2>2. Continue(t)
      BY <2>1
    <2>3. Ascend(t) /\ thread[t].op = "delete" /\ thread[t].pc = "walk"
      <3>1. Ascend(t)
        BY <1>3, <2>2 DEF Continue, CreateFolderProbe, CreateFolderInsert,
           UploadParent, UploadProbe, UploadWrite, UploadInsert, Lookup, DeleteFetch, DeleteEnter,
           RecoverFetch, RecoverActivate, RecoverProbe, RecoverSettle, RecoverEnter, Descend,
           RenameSave, RenameProbe, RenameSettle, MoveCompare, Reads, At
      <3>2. thread[t].pc = "walk"
        BY <3>1 DEF Ascend
      <3> QED BY <3>1, <3>2, WalkFrames
    <2>4. PICK id \in DOMAIN files, row \in Row :
            CopyOf(id, row, thread[t].user) /\ files' = [files EXCEPT ![id] = row]
      <3>1. files' = [files EXCEPT ![Top(thread[t]).self.id] = Top(thread[t]).self.row]
        BY <1>3, <2>3 DEF Ascend, Merge, Reads
      <3>2. files' # Append(files, thread[t].row)
        BY <1>1, <3>1
      <3> QED BY <1>3, <2>2, <3>2, StepEffect DEF Effect
    <2>5. /\ DOMAIN files' = DOMAIN files
          /\ \A f \in DOMAIN files : files'[f] = IF f = id THEN row ELSE files[f]
      BY <1>1, <2>4
    <2>6. ASSUME NEW f \in DOMAIN files, files[f].status # "normal"
          PROVE  files'[f].status # "normal"
      BY <2>2, <2>3, <2>6, SavesNoNormal
    <2> QED BY <2>4, <2>5, <2>6 DEF Wanes, CopyOf
  <1> QED BY <1>2, <1>3

\* A request keeps its kind until it ends.
LEMMA OpKept ==
  ASSUME IInv, NEW t \in Threads, Continue(t) \/ Fail(t)
  PROVE  thread'[t].op \in {thread[t].op, "none"}
  <1> DEFINE r == thread[t]
  <1>1. r \in Request /\ \A n : Become(t, n) => thread'[t] = n
    BY Before, Becomes
  <1>2. Idle.op = "none"
    BY DEF Idle
  <1>3. NextId(r).op \in {r.op, "none"} /\ NextName(r).op \in {r.op, "none"}
    <2> DEFINE m == [Idle EXCEPT !.pc = "lookup", !.op = r.op, !.user = r.user,
                         !.mode = r.mode, !.ids = Tail(r.ids)]
               n == [Idle EXCEPT !.pc = "parent", !.op = r.op, !.user = r.user,
                         !.folder = r.folder, !.names = Tail(r.names)]
    <2>1. m.op = r.op /\ n.op = r.op
      BY DEF Idle
    <2>2. NextId(r) \in {Idle, m} /\ NextName(r) \in {Idle, n}
      BY DEF NextId, NextName
    <2> HIDE DEF m, n
    <2> QED BY <1>2, <2>1, <2>2
  <1>4. CASE CreateFolderProbe(t) \/ CreateFolderInsert(t)
    BY <1>1, <1>2, <1>4 DEF CreateFolderProbe, CreateFolderInsert, Request
  <1>5. CASE UploadParent(t) \/ UploadProbe(t) \/ UploadWrite(t) \/ UploadInsert(t)
    <2>1. CASE UploadParent(t)
      BY <1>1, <1>3, <2>1 DEF UploadParent, Request
    <2>2. CASE UploadProbe(t)
      BY <1>1, <2>2 DEF UploadProbe, Request
    <2>3. CASE UploadWrite(t) \/ UploadInsert(t)
      BY <1>1, <1>3, <2>3 DEF UploadWrite, UploadInsert, Request
    <2> QED BY <1>5, <2>1, <2>2, <2>3
  <1>6. CASE Lookup(t) \/ DeleteFetch(t) \/ DeleteEnter(t)
    <2>1. CASE Lookup(t)
      BY <1>1, <1>2, <2>1 DEF Lookup, Request
    <2>2. CASE DeleteFetch(t)
      BY <1>1, <1>3, <2>2 DEF DeleteFetch, Request
    <2>3. CASE DeleteEnter(t)
      <3>1. PICK st : thread'[t] = [thread[t] EXCEPT !.pc = "walk", !.row = NoRow, !.stack = st]
        BY <1>1, <2>3 DEF DeleteEnter
      <3> QED BY <1>1, <3>1 DEF Request
    <2> QED BY <1>6, <2>1, <2>2, <2>3
  <1>7. CASE RecoverFetch(t) \/ RecoverActivate(t) \/ RecoverProbe(t) \/ RecoverSettle(t) \/ RecoverEnter(t)
    <2>1. CASE RecoverFetch(t)
      BY <1>1, <2>1 DEF RecoverFetch, Request
    <2>2. CASE RecoverActivate(t)
      BY <1>1, <2>2 DEF RecoverActivate, Request
    <2>3. CASE RecoverProbe(t)
      BY <1>1, <2>3 DEF RecoverProbe, Request
    <2>4. CASE RecoverSettle(t)
      BY <1>1, <1>3, <2>4 DEF RecoverSettle, Request
    <2>5. CASE RecoverEnter(t)
      BY <1>1, <2>5 DEF RecoverEnter, Request
    <2> QED BY <1>7, <2>1, <2>2, <2>3, <2>4, <2>5
  <1>8. CASE Descend(t)
    BY <1>8, DescendStack DEF Deeper
  <1>9. CASE Ascend(t)
    BY <1>1, <1>3, <1>9 DEF Ascend, Request
  <1>10. CASE RenameSave(t) \/ RenameProbe(t) \/ RenameSettle(t) \/ MoveCompare(t)
    <2>1. CASE RenameSave(t)
      BY <1>1, <2>1 DEF RenameSave, Request
    <2>2. CASE RenameProbe(t)
      BY <1>1, <2>2 DEF RenameProbe, Request
    <2>3. CASE RenameSettle(t) \/ MoveCompare(t)
      BY <1>1, <1>2, <2>3 DEF RenameSettle, MoveCompare
    <2> QED BY <1>10, <2>1, <2>2, <2>3
  <1>11. CASE Fail(t)
    BY <1>1, <1>2, <1>3, <1>11 DEF Fail, UploadWriteFails, UploadInsertFails, Abort
  <1> QED BY <1>4, <1>5, <1>6, <1>7, <1>8, <1>9, <1>10, <1>11 DEF Continue

\* A request that is accepted has not begun to walk.
LEMMA BeginStands ==
  ASSUME IInv, NEW t \in Threads, Begin(t)
  PROVE  thread'[t] = thread[t] \/ (thread'[t].pc # "walk" /\ thread'[t].op \in Ops)
  <1>1. \A n : Become(t, n) => thread'[t] = n
    BY Becomes
  <1>2. CASE CreateFolder(t)
    BY <1>1, <1>2 DEF CreateFolder, Accept, Idle
  <1>3. CASE Upload(t)
    BY <1>1, <1>3 DEF Upload, Accept, Idle
  <1>4. CASE Delete(t)
    BY <1>1, <1>4 DEF Delete, Accept, Idle
  <1>5. CASE Recover(t)
    BY <1>1, <1>5 DEF Recover, Accept, Idle
  <1>6. CASE Rename(t)
    <2>1. "rename" \in Ops
      BY <1>6 DEF Rename, Accept
    <2>2. ASSUME thread'[t] # thread[t]
          PROVE  \E u, id, row, name :
                    thread'[t] = [Idle EXCEPT !.pc = "save", !.op = "rename", !.user = u,
                                              !.id = id, !.row = row, !.orig = name]
      <3>1. PICK u, id, name :
              Become(t, [Idle EXCEPT !.pc = "save", !.op = "rename", !.user = u, !.id = id,
                            !.row = [files[id] EXCEPT !.name = <<name>>],
                            !.orig = files[id].name])
        BY <1>6, <2>2 DEF Rename
      <3> QED BY <1>1, <3>1
    <2> QED BY <2>1, <2>2 DEF Idle
  <1>7. CASE Move(t)
    BY <1>1, <1>7 DEF Move, Accept, Idle
  <1> QED BY <1>2, <1>3, <1>4, <1>5, <1>6, <1>7 DEF Begin

\* Where the recursion of a delete is after a step, it was, or has just begun.
LEMMA WalksOn ==
  ASSUME IInv, NEW t \in Threads, Begin(t) \/ Continue(t) \/ Fail(t),
         thread'[t].op = "delete", thread'[t].pc = "walk"
  PROVE  DeleteEnter(t) \/ Descend(t) \/ Ascend(t) \/ thread'[t] = thread[t]
  <1> DEFINE r == thread[t]
  <1>1. r \in Request /\ HoldsSafely(r) /\ \A n : Become(t, n) => thread'[t] = n
    BY Before, Becomes
  <1>2. Idle.pc = "idle" /\ Idle.op = "none"
    BY DEF Idle
  <1>3. CASE Begin(t)
    BY <1>3, BeginStands
  <1>4. CASE Continue(t)
    <2>1. r.op = "delete"
      BY <1>4, OpKept
    <2>2. /\ ~CreateFolderProbe(t) /\ ~CreateFolderInsert(t)
          /\ ~UploadParent(t) /\ ~UploadProbe(t) /\ ~UploadWrite(t) /\ ~UploadInsert(t)
          /\ ~RecoverFetch(t) /\ ~RecoverActivate(t) /\ ~RecoverProbe(t) /\ ~RecoverSettle(t)
          /\ ~RecoverEnter(t)
          /\ ~RenameSave(t) /\ ~RenameProbe(t) /\ ~RenameSettle(t) /\ ~MoveCompare(t)
      BY <2>1 DEF CreateFolderProbe, CreateFolderInsert, UploadParent, UploadProbe, UploadWrite,
         UploadInsert, RecoverFetch, RecoverActivate, RecoverProbe, RecoverSettle, RecoverEnter,
         RenameSave, RenameProbe, RenameSettle, MoveCompare, At
    <2>3. ~Lookup(t)
      BY <1>1, <1>2 DEF Lookup, Request
    <2>4. ~DeleteFetch(t)
      <3>1. Plain(NextId(r))
        BY <2>1, PlainOnes
      <3>2. thread'[t] # NextId(r)
        BY <3>1 DEF Plain
      <3> QED BY <1>1, <3>2 DEF DeleteFetch, Request
    <2> QED BY <1>4, <2>2, <2>3, <2>4 DEF Continue
  <1>5. CASE Fail(t)
    BY <1>5, FailEnds DEF Plain
  <1> QED BY <1>3, <1>4, <1>5

\* Rows that wane stay beneath the folders they were beneath.
LEMMA UnderKept ==
  ASSUME NEW F, NEW G, Wanes(F, G), NEW g, NEW f \in DOMAIN F, Under(F, g, f)
  PROVE  Under(G, g, f)
  <1>1. PICK S \in SUBSET {k \in DOMAIN F : F[k].user = F[f].user} :
          /\ g \in S
          /\ \A k \in S : LET p == F[k].folder IN p = f \/ (p \in S /\ F[p].type = "folder")
    BY DEF Under
  <1>2. S \in SUBSET {k \in DOMAIN G : G[k].user = G[f].user}
    BY DEF Wanes
  <1>3. ASSUME NEW k \in S PROVE G[k].folder = f \/ (G[k].folder \in S /\ G[G[k].folder].type = "folder")
    BY <1>1, <1>2 DEF Wanes
  <1>4. G[f].type = "folder"
    BY DEF Under, Wanes
  <1> QED BY <1>1, <1>2, <1>3, <1>4 DEF Under

\* Every child of a folder is visited.
LEMMA VisitAll ==
  ASSUME NEW r, NEW f \in DOMAIN files, files[f].user = r.user, NEW c \in Kids(files, f)
  PROVE  \E i \in Visit(r, f) : i.id = c
  <1> DEFINE i == Item(c, [files[c] EXCEPT !.status = SubStatus(r)])
  <1>1. c \in Children(r.user, f)
    BY DEF Kids, Children
  <1>2. i \in Visit(r, f)
    BY <1>1 DEF Visit
  <1>3. i.id = c
    BY DEF Item
  <1> QED BY <1>2, <1>3

\* The recursion of a delete begins.
LEMMA EnterWalked ==
  ASSUME IInv, NEW t \in Threads, DeleteEnter(t)
  PROVE  Walked(thread'[t], files')
  <1> DEFINE r == thread[t]
             pending == IF r.row.type = "folder" THEN Visit(r, r.id) ELSE {}
             frame == Frame(Item(r.id, r.row), pending)
             n == [r EXCEPT !.pc = "walk", !.row = NoRow, !.stack = <<frame>>]
  <1>1. r.op = "delete" /\ r.pc = "enter" /\ thread'[t] = n /\ files' = files /\ r \in Request
    BY Before, Becomes DEF DeleteEnter, At, Reads
  <1>2. CopyOf(r.id, r.row, r.user)
    BY <1>1, WalkerHolds
  <1>3. frame.self.id = r.id /\ frame.pending = pending
    BY DEF Frame, Item
  <1>4. /\ r.id \in DOMAIN files
        /\ files[r.id].type = "folder" =>
              \A c \in Kids(files, r.id) : \E i \in pending : i.id = c
    BY <1>2, VisitAll DEF CopyOf
  <1> HIDE DEF frame, pending
  <1>5. n.stack = <<frame>>
    BY <1>1 DEF Request
  <1> HIDE DEF n
  <1>6. \A k \in DOMAIN n.stack : n.stack[k] = frame
    BY <1>5
  <1> QED BY <1>1, <1>3, <1>4, <1>6 DEF Walked, Seen

\* It goes into a child, whose children are all to be visited.
LEMMA DescendWalked ==
  ASSUME IInv, NEW t \in Threads, Descend(t), Walked(thread[t], files)
  PROVE  Walked(thread'[t], files')
  <1> DEFINE r == thread[t]
             n == thread'[t]
             L == Len(r.stack)
  <1>1. /\ r.pc = "walk" /\ files' = files /\ L \in Nat \ {0} /\ DOMAIN r.stack = 1 .. L
        /\ Top(r) = r.stack[L]
    BY DescendStack DEF Top
  <1>2. PICK c \in Top(r).pending : CopyOf(c.id, c.row, r.user) /\ Deeper(r, n, c)
    BY DescendStack
  <1> HIDE DEF L
  <1>3. /\ n.op = r.op /\ DOMAIN n.stack = 1 .. L + 1
        /\ \A k \in 1 .. L - 1 : n.stack[k] = r.stack[k]
        /\ n.stack[L].self = r.stack[L].self /\ n.stack[L].pending = r.stack[L].pending \ {c}
        /\ n.stack[L+1].self = c
        /\ n.stack[L+1].pending = IF c.row.type = "folder" THEN Visit(r, c.id) ELSE {}
    BY <1>1, <1>2 DEF Deeper, L
  <1> HIDE DEF n
  <1> SUFFICES ASSUME r.op = "delete", NEW k \in DOMAIN n.stack
               PROVE  LET f == n.stack[k].self.id
                      IN /\ f \in DOMAIN files
                         /\ files[f].type = "folder" =>
                               \A x \in Kids(files, f) : Seen(n.stack, k, x, files)
    BY <1>1, <1>3 DEF Walked, n
  <1>4. \A i \in DOMAIN r.stack :
           LET f == r.stack[i].self.id
           IN /\ f \in DOMAIN files
              /\ files[f].type = "folder" => \A x \in Kids(files, f) : Seen(r.stack, i, x, files)
    BY <1>1 DEF Walked
  <1>5. CASE k \in 1 .. L - 1
    <2>1. /\ k \in DOMAIN r.stack /\ n.stack[k] = r.stack[k] /\ k + 1 \in DOMAIN n.stack
          /\ n.stack[k+1].self = r.stack[k+1].self
      <3>1. L \in Nat \ {0}
        BY <1>1
      <3>2. /\ k \in 1 .. L /\ k + 1 \in 1 .. L + 1
            /\ k + 1 \in 1 .. L - 1 \/ k + 1 = L
        BY <1>5, <3>1
      <3>3. n.stack[k] = r.stack[k]
        BY <1>3, <1>5
      <3>4. n.stack[k+1].self = r.stack[k+1].self
        <4>1. CASE k + 1 \in 1 .. L - 1
          BY <1>3, <4>1
        <4>2. CASE k + 1 = L
          BY <1>3, <4>2
        <4> QED BY <3>2, <4>1, <4>2
      <3> QED BY <1>1, <1>3, <3>2, <3>3, <3>4
    <2>2. \A x : Seen(r.stack, k, x, files) => Seen(n.stack, k, x, files)
      BY <2>1 DEF Seen
    <2> QED BY <1>4, <2>1, <2>2
  <1>6. CASE k = L
    <2>1. L \in DOMAIN r.stack /\ L + 1 \notin DOMAIN r.stack /\ L + 1 \in DOMAIN n.stack
      BY <1>1, <1>3
    <2>2. \A x : Seen(r.stack, L, x, files) => Seen(n.stack, L, x, files)
      BY <1>3, <2>1 DEF Seen
    <2> QED BY <1>3, <1>4, <1>6, <2>1, <2>2
  <1>7. CASE k = L + 1
    <2>1. c.id \in DOMAIN files /\ files[c.id].user = r.user /\ files[c.id].type = c.row.type
      BY <1>2 DEF CopyOf
    <2>2. ASSUME files[c.id].type = "folder", NEW x \in Kids(files, c.id)
          PROVE  Seen(n.stack, k, x, files)
      BY <1>3, <1>7, <2>1, <2>2, VisitAll DEF Seen
    <2> QED BY <1>3, <1>7, <2>1, <2>2
  <1>8. k \in 1 .. L - 1 \/ k = L \/ k = L + 1
    BY <1>1, <1>3
  <1> QED BY <1>5, <1>6, <1>7, <1>8

\* It returns from a folder when all beneath it is gone.
LEMMA TopGone ==
  ASSUME IInv, NEW t \in Threads, Ascend(t), thread[t].op = "delete",
         Sound(thread[t], files), Walked(thread[t], files)
  PROVE  /\ Wanes(files, files') /\ Top(thread[t]).self.id \in DOMAIN files
         /\ Gone(files', Top(thread[t]).self.id)
  <1> DEFINE r == thread[t]
             f == Top(r).self.id
             L == Len(r.stack)
  <1>1. r.pc = "walk" /\ Top(r).pending = {} /\ files \in Seq(Row)
    BY Before DEF Ascend
  <1>2. /\ r.stack \in Seq(FrameType) /\ r.stack # <<>>
    BY <1>1, WalkFrames
  <1>3. L \in DOMAIN r.stack /\ L + 1 \notin DOMAIN r.stack /\ Top(r) = r.stack[L]
    BY <1>2 DEF Top
  <1>4. Dead(Top(r))
    BY <1>1, <1>3 DEF Sound
  <1>5. Top(r).self # NoItem
    BY <1>4 DEF Dead, NoItem, Item, NoRow
  <1>6. /\ f \in DOMAIN files
        /\ files[f].type = "folder" => \A c \in Kids(files, f) : Seen(r.stack, L, c, files)
    BY <1>1, <1>3 DEF Walked
  <1>7. files[f].type = "folder" => \A c \in Kids(files, f) : Gone(files, c)
    BY <1>1, <1>3, <1>6 DEF Seen
  <1>8. Wanes(files, files')
    BY DeleteWanes DEF Continue
  <1>9. files'[f].status # "normal"
    <2>1. files' = [files EXCEPT ![f] = Top(r).self.row]
      BY <1>5 DEF Ascend, Merge
    <2>2. files'[f] = Top(r).self.row
      BY <1>1, <1>6, <2>1
    <2> QED BY <1>4, <2>2 DEF Dead
  <1> QED BY <1>6, <1>7, <1>8, <1>9, GoneUp, TableGrounded

LEMMA AscendWalked ==
  ASSUME IInv, NEW t \in Threads, Ascend(t), Sound(thread[t], files), Walked(thread[t], files)
  PROVE  Walked(thread'[t], files')
  <1> DEFINE r == thread[t]
             L == Len(r.stack)
             n == [r EXCEPT !.stack = Below(r)]
  <1>1. r.pc = "walk" /\ thread'[t] = IF L = 1 THEN NextId(r) ELSE n
    BY Becomes DEF Ascend
  <1>2. /\ r \in Request /\ r.op \in {"delete", "recover"}
        /\ r.stack \in Seq(FrameType) /\ r.stack # <<>>
    BY <1>1, WalkFrames
  <1>3. L \in Nat \ {0} /\ DOMAIN r.stack = 1 .. L /\ Top(r) = r.stack[L]
    BY <1>2 DEF Top
  <1>4. /\ DOMAIN Below(r) = 1 .. L - 1
        /\ \A k \in 1 .. L - 1 : Below(r)[k] = r.stack[k]
    BY <1>2, BelowFacts
  <1> HIDE DEF L
  <1>5. CASE L = 1
    <2>1. Plain(NextId(r))
      BY <1>2, PlainOnes
    <2> QED BY <1>1, <1>5, <2>1 DEF Plain, Walked
  <1>6. CASE L # 1
    <2>1. n.op = r.op /\ n.pc = "walk" /\ n.stack = Below(r) /\ thread'[t] = n
      BY <1>1, <1>2, <1>6 DEF Request
    <2> HIDE DEF n
    <2> SUFFICES ASSUME r.op = "delete", NEW k \in 1 .. L - 1
                 PROVE  LET f == n.stack[k].self.id
                        IN /\ f \in DOMAIN files'
                           /\ files'[f].type = "folder" =>
                                 \A x \in Kids(files', f) : Seen(n.stack, k, x, files')
      BY <1>4, <2>1 DEF Walked
    <2>2. Wanes(files, files') /\ Gone(files', Top(r).self.id)
      BY TopGone
    <2>3. Walked(r, files')
      BY <2>2, WanesKeeps
    <2>4. k \in DOMAIN r.stack /\ n.stack[k] = r.stack[k]
      BY <1>3, <1>4, <2>1
    <2>5. LET f == r.stack[k].self.id
          IN /\ f \in DOMAIN files'
             /\ files'[f].type = "folder" =>
                   \A x \in Kids(files', f) : Seen(r.stack, k, x, files')
      BY <1>1, <2>3, <2>4 DEF Walked
    <2>6. ASSUME NEW x, Seen(r.stack, k, x, files') PROVE Seen(n.stack, k, x, files')
      <3>1. CASE \E i \in r.stack[k].pending : i.id = x
        BY <2>4, <3>1 DEF Seen
      <3>2. CASE k + 1 \in DOMAIN r.stack /\ r.stack[k+1].self.id = x
        <4>1. k + 1 \in 1 .. L - 1 \/ k + 1 = L
          BY <1>3
        <4>2. CASE k + 1 = L
          BY <1>3, <2>2, <3>2, <4>2 DEF Seen
        <4>3. CASE k + 1 \in 1 .. L - 1
          BY <1>4, <2>1, <3>2, <4>3 DEF Seen
        <4> QED BY <4>1, <4>2, <4>3
      <3>3. CASE Gone(files', x)
        BY <3>3 DEF Seen
      <3> QED BY <2>6, <3>1, <3>2, <3>3 DEF Seen
    <2> QED BY <2>4, <2>5, <2>6
  <1> QED BY <1>5, <1>6

LEMMA WalkedOn ==
  ASSUME IInv, NEW t \in Threads, Begin(t) \/ Continue(t) \/ Fail(t),
         Sound(thread[t], files), Walked(thread[t], files)
  PROVE  Walked(thread'[t], files')
  <1>1. CASE ~(thread'[t].op = "delete" /\ thread'[t].pc = "walk")
    BY <1>1 DEF Walked
  <1>2. CASE thread'[t].op = "delete" /\ thread'[t].pc = "walk" /\ thread'[t] = thread[t]
    <2>1. Wanes(files, files')
      BY <1>2, DeleteWanes
    <2> QED BY <1>2, <2>1, WanesKeeps
  <1>3. CASE DeleteEnter(t) \/ Descend(t) \/ Ascend(t)
    BY <1>3, EnterWalked, DescendWalked, AscendWalked
  <1> QED BY <1>1, <1>2, <1>3, WalksOn

\* Nobody puts rows into a folder that is being deleted, or revives them: the server
\* has one thread, or requests delete and move only.
Undisturbed == OneThread \/ Ops \subseteq {"delete", "move"}

\* The invariant behind SubtreeDeleted.
DInv ==
    /\ IInv
    /\ \/ OneThread
       \/ /\ Ops \subseteq {"delete", "move"}
          /\ \A t \in Threads : thread[t].op \in {"none", "delete", "move"}
    /\ \A t \in Threads : Sound(thread[t], files) /\ Walked(thread[t], files)

LEMMA InitDInv == Init /\ Undisturbed => DInv
  <1> SUFFICES ASSUME Init, Undisturbed PROVE DInv
    OBVIOUS
  <1>1. \A t \in Threads : thread[t].op = "none" /\ Plain(thread[t])
    BY PlainOnes DEF Init, Idle
  <1>2. \A t \in Threads : Sound(thread[t], files) /\ Walked(thread[t], files)
    BY <1>1, PlainIsSound DEF Walked
  <1> QED BY <1>1, <1>2, InitIInv DEF DInv, Undisturbed

\* A step of a thread, and what it does to the others.
LEMMA ThreadDInv ==
  ASSUME DInv, NEW t \in Threads, Begin(t) \/ Continue(t) \/ Fail(t)
  PROVE  DInv'
  <1>1. IInv /\ IInv' /\ Sound(thread[t], files) /\ Walked(thread[t], files)
    <2>1. Next
      BY DEF Next
    <2> QED BY <2>1, NextIInv DEF DInv
  <1>2. Sound(thread'[t], files')
    <2>1. CASE Begin(t) \/ Continue(t)
      <3>1. Carries(thread[t], thread'[t], files')
        BY <1>1, <2>1, WorkCarries
      <3> QED BY <3>1 DEF Carries
    <2>2. CASE Fail(t)
      BY <1>1, <2>2, FailEnds, PlainIsSound
    <2> QED BY <2>1, <2>2
  <1>3. Walked(thread'[t], files')
    BY <1>1, WalkedOn
  <1>4. CASE OneThread
    <2>1. OneThread' /\ \A s \in Threads : s = t
      BY <1>4 DEF OneThread
    <2> QED BY <1>1, <1>2, <1>3, <2>1 DEF DInv
  <1>5. CASE Ops \subseteq {"delete", "move"} /\ \A s \in Threads : thread[s].op \in {"none", "delete", "move"}
    <2>1. thread'[t].op \in {"none", "delete", "move"}
      BY <1>1, <1>5, OpKept, BeginStands
    <2>2. \A s \in Threads \ {t} : thread'[s] = thread[s]
      BY <1>1, OthersWait
    <2>3. Wanes(files, files')
      BY <1>1, <1>5, DeleteWanes
    <2>4. ASSUME NEW s \in Threads \ {t}
          PROVE  Sound(thread'[s], files') /\ Walked(thread'[s], files')
      <3>1. Sound(thread[s], files) /\ Walked(thread[s], files) /\ thread[s].op # "rename"
        BY <1>5 DEF DInv
      <3>2. Sound(thread[s], files')
        BY <3>1 DEF Sound
      <3>3. Walked(thread[s], files')
        BY <2>3, <3>1, WanesKeeps
      <3> QED BY <2>2, <3>2, <3>3
    <2>5. \A s \in Threads : thread'[s].op \in {"none", "delete", "move"}
      BY <1>5, <2>1, <2>2
    <2> QED BY <1>1, <1>2, <1>3, <1>5, <2>4, <2>5 DEF DInv
  <1> QED BY <1>4, <1>5 DEF DInv

LEMMA NextDInv == DInv /\ [Next]_vars => DInv'
  <1> SUFFICES ASSUME DInv, [Next]_vars PROVE DInv'
    OBVIOUS
  <1>1. IInv'
    BY NextIInv DEF DInv
  <1>2. CASE \E t \in Threads : Begin(t) \/ Continue(t) \/ Fail(t)
    BY <1>2, ThreadDInv
  <1>3. CASE Crash
    <2>1. \A t \in Threads : thread'[t] = Idle
      BY <1>3 DEF Crash
    <2>2. \A t \in Threads : thread'[t].op = "none" /\ Plain(thread'[t])
      BY <2>1, PlainOnes DEF Idle
    <2>3. \A t \in Threads : Sound(thread'[t], files') /\ Walked(thread'[t], files')
      BY <2>2, PlainIsSound DEF Walked
    <2> QED BY <1>1, <2>2, <2>3 DEF DInv, OneThread
  <1>4. CASE UNCHANGED vars \/ Wait
    <2>1. UNCHANGED <<files, thread>>
      BY <1>4 DEF vars, Wait
    <2> QED BY <1>1, <2>1 DEF DInv, OneThread
  <1> QED BY <1>2, <1>3, <1>4 DEF Next

\* A delete with nothing left to visit returns from the row on top of its stack.
LEMMA WalkReturns ==
  ASSUME IInv, [Next]_vars, faults' = faults, NEW t \in Threads,
         At(t, "delete", "walk"), Top(thread[t]).pending = {}, thread'[t] # thread[t]
  PROVE  Ascend(t)
  <1>0. faults \in Nat /\ thread[t].pc = "walk"
    BY DEF At, IInv, TypeOK
  <1>1. ~(faults' = faults + 1)
    BY <1>0
  <1>2. PICK s \in Threads : Begin(s) \/ Continue(s) \/ Fail(s)
    BY <1>0, <1>1 DEF Next, Crash, Fault, Wait, vars
  <1>3. s = t
    BY <1>0, <1>2, OthersWait
  <1>4. ~Fail(t)
    BY <1>1 DEF Fail, UploadWriteFails, UploadInsertFails, Abort, Fault
  <1>5. ~Begin(t)
    BY <1>0 DEF Begin, CreateFolder, Upload, Delete, Recover, Rename, Move, Accept
  <1>6. ~Descend(t)
    BY DEF Descend
  <1> QED BY <1>0, <1>2, <1>3, <1>4, <1>5, <1>6 DEF Continue, CreateFolderProbe,
       CreateFolderInsert, UploadParent, UploadProbe, UploadWrite, UploadInsert, Lookup,
       DeleteFetch, DeleteEnter, RecoverFetch, RecoverActivate, RecoverProbe, RecoverSettle,
       RecoverEnter, RenameSave, RenameProbe, RenameSettle, MoveCompare, At

\* When the recursion of a delete returns from a row, neither the row nor anything
\* beneath it is listed (deleteFileRecursive), in a tree of any depth and with any
\* number of deletes at once, unless other requests put rows there meanwhile.
THEOREM SubtreeGoes == Spec /\ Undisturbed => SubtreeDeleted
  <1> DEFINE Step ==
        \A t \in Threads :
          LET r == thread[t]
          IN /\ At(t, "delete", "walk") /\ Top(r).pending = {}
             /\ thread'[t] # r /\ faults' = faults
             =>
                LET f == Top(r).self.id
                IN \A g \in DOMAIN files :
                      g = f \/ Beneath(g, f) => files'[g].status # "normal"
  <1>1. DInv /\ [Next]_vars => [Step]_vars
    <2> SUFFICES ASSUME DInv, [Next]_vars, NEW t \in Threads, At(t, "delete", "walk"),
                        Top(thread[t]).pending = {}, thread'[t] # thread[t], faults' = faults,
                        NEW g \in DOMAIN files,
                        g = Top(thread[t]).self.id \/ Beneath(g, Top(thread[t]).self.id)
                 PROVE  files'[g].status # "normal"
      OBVIOUS
    <2> DEFINE f == Top(thread[t]).self.id
    <2>1. IInv /\ Sound(thread[t], files) /\ Walked(thread[t], files) /\ thread[t].op = "delete"
      BY DEF DInv, At
    <2>2. Ascend(t)
      BY <2>1, WalkReturns
    <2>3. Wanes(files, files') /\ f \in DOMAIN files /\ Gone(files', f)
      BY <2>1, <2>2, TopGone
    <2>4. g \in DOMAIN files'
      BY <2>3 DEF Wanes
    <2>5. g = f \/ Under(files', g, f)
      <3>1. ASSUME Under(files, g, f) PROVE Under(files', g, f)
        BY <2>3, <3>1, UnderKept
      <3>2. Beneath(g, f) => Under(files, g, f)
        BY DEF Beneath, Under
      <3> QED BY <3>1, <3>2
    <2> QED BY <2>3, <2>4, <2>5 DEF Gone
  <1> QED BY <1>1, InitDInv, NextDInv, PTL DEF Spec, SubtreeDeleted

=============================================================================
