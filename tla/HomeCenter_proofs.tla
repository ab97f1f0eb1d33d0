-------------------------- MODULE HomeCenter_proofs --------------------------
(***************************************************************************)
(* Proofs about HomeCenter, for any devices, users, threads and bounds.    *)
(***************************************************************************)
EXTENDS HomeCenter, TLAPS

\* Some row of the table H is of device d.
In(d, H) == \E h \in H : h.device = d

\* What a thread holds is safe to write while the table Hdc is H.
Safe(r, H) ==
    /\ r.op \in {"register", "active"} /\ r.pc = "insert" => r.row \subseteq HdcRow
    /\ r.op \in {"register", "active"} /\ r.answer = "OK" => \E h \in H : h.token = r.token
    /\ r.pc # "idle" => r.op # "none"
    /\ \A d, e \in r.device : d = e
    /\ r.op = "bind" /\ r.pc = "probe" /\ r.status = "found" => \A d \in r.device : In(d, H)
    /\ r.op = "bind" /\ r.pc = "insert" => \A d \in r.device : In(d, H)
    /\ r.op = "update" /\ r.pc = "probe" => r.status \in NewStatuses
    /\ r.op = "update" /\ r.pc = "merge" =>
          r.row \subseteq BindingRow /\ \A b \in r.row : In(b.device, H)
    /\ r.op = "cancel" /\ r.pc = "delete" => r.row \subseteq BindingRow

\* The inductive invariant.
IInv ==
    /\ TypeOK
    /\ \A t \in Threads : Safe(thread[t], hdcs)
    /\ \A b \in bindings : In(b.device, hdcs)

\* What a step of one thread has to establish.
StepTo(t, r) ==
    /\ Become(t, r)
    /\ r \in Request
    /\ Safe(r, hdcs')
    /\ hdcs \subseteq hdcs'
    /\ hdcs' \subseteq HdcRow
    /\ bindings' \subseteq BindingRow
    /\ \A b \in bindings' : In(b.device, hdcs')
    /\ minted' \in Nat /\ served' \in Nat /\ faults' \in Nat

-----------------------------------------------------------------------------

\* An idle thread is a request, and holds nothing.
LEMMA IdleType ==
  /\ Idle \in Request
  /\ Idle.pc = "idle" /\ Idle.op = "none" /\ Idle.row = {} /\ Idle.device = {}
  /\ Idle.status = "none" /\ Idle.answer = "none" /\ Idle.token = 0
  BY DEF Idle, Request

\* So is a thread with an answer to send, which holds the answer only.
LEMMA AnswerType ==
  ASSUME NEW op \in {"register", "active", "login", "bind", "cancel", "update"},
         NEW answer \in Answers, NEW token \in Nat
  PROVE  LET r == Answer(op, answer, token)
         IN  /\ r \in Request /\ r.pc = "answer" /\ r.op = op /\ r.answer = answer
             /\ r.token = token /\ r.device = {}
  BY IdleType DEF Answer, Request

\* What a thread holds stays safe while the table Hdc grows.
LEMMA SafeStable ==
  ASSUME NEW r, NEW H, NEW G, H \subseteq G, Safe(r, H)
  PROVE  Safe(r, G)
  BY DEF Safe, In

\* An answer that is not a token is safe to send.
LEMMA AnswerSafe ==
  ASSUME NEW op \in {"register", "active", "login", "bind", "cancel", "update"},
         NEW answer \in Answers, NEW token \in Nat, NEW H,
         op \in {"register", "active"} /\ answer = "OK" => \E h \in H : h.token = token
  PROVE  Safe(Answer(op, answer, token), H)
  <1> DEFINE r == Answer(op, answer, token)
  <1>1. r.pc = "answer" /\ r.op = op /\ r.answer = answer /\ r.token = token /\ r.device = {}
    BY AnswerType
  <1> HIDE DEF r
  <1>2. Safe(r, H)
    BY <1>1 DEF Safe
  <1> QED BY <1>2 DEF r

\* A step of one thread to a safe place preserves the invariant.
LEMMA StepPreserves ==
  ASSUME IInv, NEW t \in Threads, NEW r, StepTo(t, r)
  PROVE  IInv'
  <1>1. thread \in [Threads -> Request] /\ thread' = [thread EXCEPT ![t] = r]
    BY DEF IInv, TypeOK, StepTo, Become
  <1>2. TypeOK'
    BY <1>1 DEF TypeOK, StepTo
  <1>3. ASSUME NEW s \in Threads PROVE Safe(thread'[s], hdcs')
    <2>1. CASE s = t
      BY <1>1, <2>1 DEF StepTo
    <2>2. CASE s # t
      BY <1>1, <2>2, SafeStable DEF IInv, StepTo
    <2> QED BY <2>1, <2>2
  <1> QED BY <1>2, <1>3 DEF IInv, StepTo

\* A step that leaves the tables alone has to establish less.
LEMMA ReadTo ==
  ASSUME IInv, NEW t \in Threads, NEW r \in Request, Become(t, r), Safe(r, hdcs),
         UNCHANGED <<hdcs, bindings>>, minted' \in Nat, served' \in Nat, faults' \in Nat
  PROVE  StepTo(t, r)
  BY DEF IInv, TypeOK, StepTo

\* Sending any answer but a token is such a step.
LEMMA AnswerTo ==
  ASSUME IInv, NEW t \in Threads,
         NEW op \in {"register", "active", "login", "bind", "cancel", "update"},
         NEW answer \in Answers, NEW token \in Nat,
         op \in {"register", "active"} /\ answer = "OK" => \E h \in hdcs : h.token = token,
         Become(t, Answer(op, answer, token)),
         UNCHANGED <<hdcs, bindings>>, minted' \in Nat, served' \in Nat, faults' \in Nat
  PROVE  IInv'
  <1> DEFINE r == Answer(op, answer, token)
  <1>1. r \in Request
    BY AnswerType
  <1>2. Safe(r, hdcs)
    BY AnswerSafe
  <1> QED BY <1>1, <1>2, ReadTo, StepPreserves

-----------------------------------------------------------------------------
(* The steps.                                                              *)

\* What accepting a request leaves alone.
LEMMA AcceptTypes ==
  ASSUME IInv, NEW t, NEW op, Accept(t, op)
  PROVE  served' \in Nat /\ faults' \in Nat /\ minted \in Nat
  BY DEF IInv, TypeOK, Accept

\* register draws a row for the device or finds one.
LEMMA RegisterStep ==
  ASSUME IInv, NEW t \in Threads, NEW d \in Devices, Register(t, d)
  PROVE  IInv'
  <1>1. served' \in Nat /\ faults' \in Nat /\ minted \in Nat /\ UNCHANGED <<hdcs, bindings>>
    BY AcceptTypes DEF Register
  <1>2. CASE RowsOf(d) # {}
    <2>1. Become(t, Answer("register", "NAME_DUP", 0)) /\ minted' = minted
      BY <1>2 DEF Register
    <2> QED BY <1>1, <2>1, AnswerTo DEF Answers
  <1>3. CASE RowsOf(d) = {}
    <2> DEFINE row == Hdc(ById(d), d, minted + 1)
               r == [Idle EXCEPT !.pc = "insert", !.op = "register", !.row = {row}]
    <2>1. Become(t, r) /\ minted' = minted + 1
      BY <1>3 DEF Register
    <2>2. row \in HdcRow
      BY <1>1 DEF Hdc, ById, HdcRow
    <2> HIDE DEF row
    <2>3. r \in Request /\ r.pc = "insert" /\ r.op = "register" /\ r.row = {row}
          /\ r.answer = "none" /\ r.device = {}
      BY <2>2, IdleType DEF Request
    <2> HIDE DEF r
    <2>4. Safe(r, hdcs)
      BY <2>2, <2>3 DEF Safe
    <2> QED BY <1>1, <2>1, <2>3, <2>4, ReadTo, StepPreserves
  <1> QED BY <1>2, <1>3

\* active does too; the token it tells is read from the table.
LEMMA ActiveStep ==
  ASSUME IInv, NEW t \in Threads, NEW d \in Devices, Active(t, d)
  PROVE  IInv'
  <1>1. served' \in Nat /\ faults' \in Nat /\ minted \in Nat /\ UNCHANGED <<hdcs, bindings>>
    BY AcceptTypes DEF Active
  <1>2. CASE RowsOf(d) # {}
    <2>1. PICK h \in RowsOf(d) : Become(t, Answer("active", "OK", h.token)) /\ minted' = minted
      BY <1>2 DEF Active
    <2>2. h \in hdcs /\ h.token \in Nat
      BY DEF RowsOf, IInv, TypeOK, HdcRow
    <2> QED BY <1>1, <2>1, <2>2, AnswerTo DEF Answers
  <1>3. CASE RowsOf(d) = {}
    <2> DEFINE row == Hdc(Random(minted + 1), d, minted + 2)
               r == [Idle EXCEPT !.pc = "insert", !.op = "active", !.row = {row}]
    <2>1. Become(t, r) /\ minted' = minted + 2
      BY <1>3 DEF Active
    <2>2. row \in HdcRow
      BY <1>1 DEF Hdc, Random, HdcRow
    <2> HIDE DEF row
    <2>3. r \in Request /\ r.pc = "insert" /\ r.op = "active" /\ r.row = {row}
          /\ r.answer = "none" /\ r.device = {}
      BY <2>2, IdleType DEF Request
    <2> HIDE DEF r
    <2>4. Safe(r, hdcs)
      BY <2>2, <2>3 DEF Safe
    <2> QED BY <1>1, <2>1, <2>3, <2>4, ReadTo, StepPreserves
  <1> QED BY <1>2, <1>3

\* The token that is told is inserted in the same step.
LEMMA DeviceInsertStep ==
  ASSUME IInv, NEW t \in Threads, DeviceInsert(t)
  PROVE  IInv'
  <1> DEFINE r == thread[t]
  <1>1. /\ r.op \in {"register", "active"} /\ r.pc = "insert"
        /\ UNCHANGED <<bindings, minted, served, faults>>
        /\ minted' \in Nat /\ served' \in Nat /\ faults' \in Nat
    BY DEF DeviceInsert, IInv, TypeOK
  <1>2. PICK new \in r.row :
              IF \E h \in hdcs : h.id = new.id
              THEN Become(t, Answer(r.op, "exception", 0)) /\ UNCHANGED hdcs
              ELSE Become(t, Answer(r.op, "OK", new.token)) /\ hdcs' = hdcs \cup {new}
    BY DEF DeviceInsert
  <1>3. new \in HdcRow /\ new.token \in Nat
    BY <1>1 DEF IInv, Safe, HdcRow
  <1>4. CASE \E h \in hdcs : h.id = new.id
    BY <1>1, <1>2, <1>4, AnswerTo DEF Answers
  <1>5. CASE ~\E h \in hdcs : h.id = new.id
    <2> DEFINE a == Answer(r.op, "OK", new.token)
    <2>1. Become(t, a) /\ hdcs' = hdcs \cup {new}
      BY <1>2, <1>5
    <2>2. a \in Request
      BY <1>1, <1>3, AnswerType DEF Answers
    <2>3. \E h \in hdcs' : h.token = new.token
      BY <2>1
    <2>4. Safe(a, hdcs')
      BY <1>1, <1>3, <2>3, AnswerSafe DEF Answers
    <2> HIDE DEF a
    <2>5. hdcs \subseteq hdcs' /\ hdcs' \subseteq HdcRow
      BY <1>3, <2>1 DEF IInv, TypeOK
    <2>6. bindings' \subseteq BindingRow /\ \A b \in bindings' : In(b.device, hdcs')
      BY <1>1, <2>5 DEF IInv, TypeOK, In
    <2>7. StepTo(t, a)
      BY <1>1, <2>1, <2>2, <2>4, <2>5, <2>6 DEF StepTo
    <2> QED BY <2>7, StepPreserves
  <1> QED BY <1>4, <1>5

\* login tells no token.
LEMMA LoginStep ==
  ASSUME IInv, NEW t \in Threads, NEW d \in Devices, NEW token \in Nat, Login(t, d, token)
  PROVE  IInv'
  <1>1. /\ served' \in Nat /\ faults' \in Nat /\ minted' \in Nat
        /\ UNCHANGED <<hdcs, bindings>>
    BY AcceptTypes DEF Login, tables
  <1>2. PICK answer \in {"OK", "AUTH_ERROR"} : Become(t, Answer("login", answer, 0))
    BY DEF Login
  <1> QED BY <1>1, <1>2, AnswerTo DEF Answers

\* A bind that begins has found nothing yet.
LEMMA BindStep ==
  ASSUME IInv, NEW t \in Threads, NEW d \in Devices, NEW u \in Users, Bind(t, d, u)
  PROVE  IInv'
  <1> DEFINE r == [Idle EXCEPT !.pc = "device", !.op = "bind", !.device = {d}, !.user = {u}]
  <1>1. /\ served' \in Nat /\ faults' \in Nat /\ minted' \in Nat
        /\ UNCHANGED <<hdcs, bindings>> /\ Become(t, r)
    BY AcceptTypes DEF Bind, tables
  <1>2. r \in Request /\ r.pc = "device" /\ r.op = "bind" /\ r.answer = "none" /\ r.device = {d}
    BY IdleType DEF Request
  <1> HIDE DEF r
  <1>3. Safe(r, hdcs)
    BY <1>2 DEF Safe
  <1> QED BY <1>1, <1>2, <1>3, ReadTo, StepPreserves

\* What a thread that goes on with a request holds.
LEMMA ReadsTypes ==
  ASSUME IInv, Reads, NEW t \in Threads
  PROVE  /\ thread[t] \in Request /\ Safe(thread[t], hdcs)
         /\ UNCHANGED <<hdcs, bindings>>
         /\ minted' \in Nat /\ served' \in Nat /\ faults' \in Nat
  BY DEF IInv, TypeOK, Reads

\* A device that was found stays in the table.
LEMMA BindDeviceStep ==
  ASSUME IInv, NEW t \in Threads, BindDevice(t)
  PROVE  IInv'
  <1> DEFINE r == thread[t]
  <1>1. Reads /\ r.op = "bind" /\ r.pc = "device"
    BY DEF BindDevice, At
  <1>2. PICK d \in r.device :
              Become(t, [r EXCEPT !.pc = "probe",
                             !.status = IF RowsOf(d) = {} THEN "NOT_FOUND" ELSE "found"])
    BY DEF BindDevice
  <1>3. r \in Request
    BY <1>1, ReadsTypes
  <1> DEFINE s == IF RowsOf(d) = {} THEN "NOT_FOUND" ELSE "found"
             n == [r EXCEPT !.pc = "probe", !.status = s]
  <1>4. n \in Request /\ n.pc = "probe" /\ n.op = "bind" /\ n.device = r.device /\ n.status = s
        /\ Become(t, n)
    BY <1>1, <1>2, <1>3 DEF Request
  <1> HIDE DEF n
  <1>5. n.status = "found" => \A e \in n.device : In(e, hdcs)
    <2>1. ASSUME NEW e \in n.device PROVE e = d
      BY <1>1, <1>4 DEF IInv, Safe
    <2> QED BY <1>4, <2>1 DEF In, RowsOf
  <1>6. Safe(n, hdcs)
    <2>1. Safe(r, hdcs)
      BY <1>1, ReadsTypes
    <2> QED BY <1>4, <1>5, <2>1 DEF Safe
  <1> QED BY <1>1, <1>4, <1>6, ReadsTypes, ReadTo, StepPreserves

\* Only a bind that found its device goes on to insert.
LEMMA BindProbeStep ==
  ASSUME IInv, NEW t \in Threads, BindProbe(t)
  PROVE  IInv'
  <1> DEFINE r == thread[t]
             n == [r EXCEPT !.pc = "insert"]
  <1>1. Reads /\ r.op = "bind" /\ r.pc = "probe" /\ r \in Request /\ Safe(r, hdcs)
    BY ReadsTypes DEF BindProbe, At
  <1>2. PICK d \in r.device :
              \/ \E answer \in {"NOT_FOUND", "NAME_DUP"} : Become(t, Answer("bind", answer, 0))
              \/ r.status = "found" /\ Become(t, n)
    BY DEF BindProbe
  <1>3. CASE \E answer \in {"NOT_FOUND", "NAME_DUP"} : Become(t, Answer("bind", answer, 0))
    BY <1>1, <1>3, ReadsTypes, AnswerTo DEF Answers
  <1>4. CASE r.status = "found" /\ Become(t, n)
    <2>1. /\ n \in Request /\ n.pc = "insert" /\ n.op = "bind" /\ n.device = r.device
      BY <1>1 DEF Request
    <2> HIDE DEF n
    <2>2. Safe(n, hdcs)
      BY <1>1, <1>4, <2>1 DEF Safe
    <2> QED BY <1>1, <1>4, <2>1, <2>2, ReadsTypes, ReadTo, StepPreserves
  <1> QED BY <1>2, <1>3, <1>4

\* An answer after a change of the bindings only.
LEMMA BindingsTo ==
  ASSUME IInv, NEW t \in Threads,
         NEW op \in {"bind", "cancel", "update"}, NEW answer \in Answers,
         Become(t, Answer(op, answer, 0)),
         bindings' \subseteq BindingRow, \A b \in bindings' : In(b.device, hdcs),
         hdcs' = hdcs, minted' \in Nat, UNCHANGED <<served, faults>>
  PROVE  IInv'
  <1> DEFINE r == Answer(op, answer, 0)
  <1>1. r \in Request
    BY AnswerType
  <1>2. Safe(r, hdcs')
    BY AnswerSafe
  <1> HIDE DEF r
  <1>3. StepTo(t, r)
    BY <1>1, <1>2 DEF StepTo, IInv, TypeOK, r
  <1> QED BY <1>3, StepPreserves

\* The new binding names the device that was found.
LEMMA BindInsertStep ==
  ASSUME IInv, NEW t \in Threads, BindInsert(t)
  PROVE  IInv'
  <1> DEFINE r == thread[t]
  <1>1. /\ r.op = "bind" /\ r.pc = "insert" /\ r \in Request /\ Safe(r, hdcs)
        /\ minted' = minted + 1 /\ minted \in Nat
        /\ UNCHANGED <<hdcs, served, faults>>
        /\ Become(t, Answer("bind", "OK", 0))
    BY DEF BindInsert, At, IInv, TypeOK
  <1>2. PICK d \in r.device, u \in r.user :
              bindings' = bindings \cup
                  {[id |-> minted + 1, device |-> d, user |-> u, status |-> "request"]}
    BY DEF BindInsert
  <1> DEFINE new == [id |-> minted + 1, device |-> d, user |-> u, status |-> "request"]
  <1>3. d \in Devices /\ u \in Users /\ In(d, hdcs)
    BY <1>1 DEF Request, Safe
  <1>4. new \in BindingRow /\ new.device = d
    BY <1>1, <1>3 DEF BindingRow
  <1> HIDE DEF new
  <1>5. bindings' \subseteq BindingRow /\ \A b \in bindings' : In(b.device, hdcs)
    BY <1>2, <1>3, <1>4 DEF IInv, TypeOK, new
  <1> QED BY <1>1, <1>5, BindingsTo DEF Answers

\* A cancel holds a binding of the table.
LEMMA CancelStep ==
  ASSUME IInv, NEW t \in Threads, NEW d \in Devices, NEW u \in Users, Cancel(t, d, u)
  PROVE  IInv'
  <1>1. /\ served' \in Nat /\ faults' \in Nat /\ minted' \in Nat
        /\ UNCHANGED <<hdcs, bindings>>
    BY AcceptTypes DEF Cancel, tables
  <1>2. CASE Become(t, Answer("cancel", "DEVICE_ERROR", 0))
    BY <1>1, <1>2, AnswerTo DEF Answers
  <1>3. CASE \E b \in BindingsOf(u, d) :
                Become(t, [Idle EXCEPT !.pc = "delete", !.op = "cancel", !.row = {b}])
    <2>1. PICK b \in BindingsOf(u, d) :
                Become(t, [Idle EXCEPT !.pc = "delete", !.op = "cancel", !.row = {b}])
      BY <1>3
    <2> DEFINE n == [Idle EXCEPT !.pc = "delete", !.op = "cancel", !.row = {b}]
    <2>2. b \in BindingRow
      BY DEF BindingsOf, IInv, TypeOK
    <2>3. n \in Request /\ n.pc = "delete" /\ n.op = "cancel" /\ n.row = {b} /\ n.device = {}
      BY <2>2, IdleType DEF Request
    <2> HIDE DEF n
    <2>4. Safe(n, hdcs)
      BY <2>2, <2>3 DEF Safe
    <2> QED BY <1>1, <2>1, <2>3, <2>4, ReadTo, StepPreserves DEF n
  <1> QED BY <1>2, <1>3 DEF Cancel

\* Deleting a binding leaves the others as they are.
LEMMA CancelDeleteStep ==
  ASSUME IInv, NEW t \in Threads, CancelDelete(t)
  PROVE  IInv'
  <1>1. minted' \in Nat /\ UNCHANGED <<hdcs, served, faults>>
    BY DEF CancelDelete, IInv, TypeOK
  <1>2. /\ bindings' \subseteq bindings
        /\ \E answer \in {"exception", "OK"} : Become(t, Answer("cancel", answer, 0))
    BY DEF CancelDelete
  <1>3. bindings' \subseteq BindingRow /\ \A b \in bindings' : In(b.device, hdcs)
    BY <1>2 DEF IInv, TypeOK
  <1> QED BY <1>1, <1>2, <1>3, BindingsTo DEF Answers

\* An update that begins holds a status of the client.
LEMMA UpdateStep ==
  ASSUME IInv, NEW t \in Threads, NEW d \in Devices, NEW token, NEW u \in Users,
         NEW s \in NewStatuses, Update(t, d, token, u, s)
  PROVE  IInv'
  <1> DEFINE n == [Idle EXCEPT !.pc = "probe", !.op = "update", !.device = {d}, !.user = {u},
                               !.status = s]
  <1>1. /\ served' \in Nat /\ faults' \in Nat /\ minted' \in Nat
        /\ UNCHANGED <<hdcs, bindings>>
    BY AcceptTypes DEF Update, tables
  <1>2. CASE Become(t, Answer("update", "DEVICE_ERROR", 0))
    BY <1>1, <1>2, AnswerTo DEF Answers
  <1>3. CASE Become(t, n)
    <2>1. /\ n \in Request /\ n.pc = "probe" /\ n.op = "update" /\ n.status = s
          /\ n.device = {d}
      BY IdleType DEF Request
    <2> HIDE DEF n
    <2>2. Safe(n, hdcs)
      BY <2>1 DEF Safe
    <2> QED BY <1>1, <1>3, <2>1, <2>2, ReadTo, StepPreserves
  <1> QED BY <1>2, <1>3 DEF Update

\* The row it is going to write back names the device of the row it read.
LEMMA UpdateProbeStep ==
  ASSUME IInv, NEW t \in Threads, UpdateProbe(t)
  PROVE  IInv'
  <1> DEFINE r == thread[t]
  <1>1. Reads /\ r.op = "update" /\ r.pc = "probe" /\ r \in Request /\ Safe(r, hdcs)
    BY ReadsTypes DEF UpdateProbe, At
  <1>2. CASE Become(t, Answer("update", "DEVICE_ERROR", 0))
    BY <1>1, <1>2, ReadsTypes, AnswerTo DEF Answers
  <1>3. ASSUME NEW b \in bindings,
               Become(t, [Idle EXCEPT !.pc = "merge", !.op = "update",
                                      !.row = {[b EXCEPT !.status = r.status]}])
        PROVE  IInv'
    <2> DEFINE c == [b EXCEPT !.status = r.status]
               n == [Idle EXCEPT !.pc = "merge", !.op = "update", !.row = {c}]
    <2>1. c \in BindingRow /\ c.device = b.device
      BY <1>1 DEF IInv, TypeOK, Safe, BindingRow
    <2>2. In(b.device, hdcs)
      BY DEF IInv
    <2> HIDE DEF c
    <2>3. n \in Request /\ n.pc = "merge" /\ n.op = "update" /\ n.row = {c} /\ n.device = {}
      BY <2>1, IdleType DEF Request
    <2> HIDE DEF n
    <2>4. Safe(n, hdcs)
      BY <2>1, <2>2, <2>3 DEF Safe
    <2> QED BY <1>1, <1>3, <2>3, <2>4, ReadsTypes, ReadTo, StepPreserves DEF n, c
  <1> QED BY <1>2, <1>3 DEF UpdateProbe, BindingsOf

\* A row that is written back names a known device, even if the binding was
\* cancelled in the meantime.
LEMMA UpdateMergeStep ==
  ASSUME IInv, NEW t \in Threads, UpdateMerge(t)
  PROVE  IInv'
  <1> DEFINE r == thread[t]
  <1>1. /\ r.op = "update" /\ r.pc = "merge" /\ Safe(r, hdcs)
        /\ minted' \in Nat /\ UNCHANGED <<hdcs, served, faults>>
        /\ Become(t, Answer("update", "OK", 0))
    BY DEF UpdateMerge, At, IInv, TypeOK
  <1>2. PICK b \in r.row : bindings' = {c \in bindings : c.id # b.id} \cup {b}
    BY DEF UpdateMerge
  <1>3. b \in BindingRow /\ In(b.device, hdcs)
    BY <1>1 DEF Safe
  <1>4. bindings' \subseteq BindingRow /\ \A c \in bindings' : In(c.device, hdcs)
    BY <1>2, <1>3 DEF IInv, TypeOK
  <1> QED BY <1>1, <1>4, BindingsTo DEF Answers

\* A thread that has sent its answer holds nothing.
LEMMA SendStep ==
  ASSUME IInv, NEW t \in Threads, Send(t)
  PROVE  IInv'
  <1>1. Reads /\ Become(t, Idle)
    BY DEF Send
  <1>2. Safe(Idle, hdcs)
    BY IdleType DEF Safe
  <1> QED BY <1>1, <1>2, IdleType, ReadsTypes, ReadTo, StepPreserves

\* A request that fails answers with an exception.
LEMMA AbortStep ==
  ASSUME IInv, NEW t \in Threads, Abort(t)
  PROVE  IInv'
  <1>1. /\ Become(t, Answer(thread[t].op, "exception", 0))
        /\ UNCHANGED <<hdcs, bindings>>
        /\ minted' \in Nat /\ served' \in Nat /\ faults' \in Nat
    BY DEF Abort, IInv, TypeOK
  <1>2. thread[t].op \in {"register", "active", "login", "bind", "cancel", "update"}
    BY DEF Abort, IInv, Safe, TypeOK, Request
  <1> QED BY <1>1, <1>2, AnswerTo DEF Answers

\* What becomes of the counters, and a crash, are no danger to the tables.
LEMMA FaultStep ==
  ASSUME IInv, UNCHANGED <<hdcs, bindings, minted, served>>, faults' \in Nat,
         thread' = thread \/ thread' = [t \in Threads |-> Idle]
  PROVE  IInv'
  <1>1. Safe(Idle, hdcs) /\ Idle \in Request
    BY IdleType DEF Safe
  <1>2. CASE thread' = thread
    BY <1>2 DEF IInv, TypeOK
  <1>3. CASE thread' = [t \in Threads |-> Idle]
    BY <1>1, <1>3 DEF IInv, TypeOK
  <1> QED BY <1>2, <1>3

-----------------------------------------------------------------------------

\* Any step of one servlet thread preserves the invariant.
LEMMA ThreadStep ==
  ASSUME IInv, NEW t \in Threads, Begin(t) \/ BoxBegin(t) \/ Continue(t) \/ Send(t) \/ Abort(t)
  PROVE  IInv'
  <1>1. CASE Begin(t)
    BY <1>1, ActiveStep, BindStep, CancelStep, UpdateStep DEF Begin
  <1>2. CASE BoxBegin(t)
    <2>1. minted \in Nat
      BY DEF IInv, TypeOK
    <2> QED BY <1>2, <2>1, RegisterStep, LoginStep DEF BoxBegin
  <1>3. CASE Continue(t)
    BY <1>3, DeviceInsertStep, BindDeviceStep, BindProbeStep, BindInsertStep, CancelDeleteStep,
       UpdateProbeStep, UpdateMergeStep DEF Continue
  <1> QED BY <1>1, <1>2, <1>3, SendStep, AbortStep

\* The invariant holds initially.
LEMMA InitInv == Init => IInv
  <1> SUFFICES ASSUME Init PROVE IInv
    OBVIOUS
  <1>1. Idle \in Request /\ Safe(Idle, hdcs)
    BY IdleType DEF Safe
  <1> QED BY <1>1 DEF Init, IInv, TypeOK

\* Every step preserves it.
LEMMA NextInv == IInv /\ [Next]_vars => IInv'
  <1> SUFFICES ASSUME IInv, [Next]_vars PROVE IInv'
    OBVIOUS
  <1>1. CASE UNCHANGED vars
    BY <1>1, FaultStep DEF vars, IInv, TypeOK
  <1>2. CASE Crash
    BY <1>2, FaultStep DEF Crash, IInv, TypeOK
  <1> QED BY <1>1, <1>2, ThreadStep DEF Next, Wait

\* The invariant of the server: types, and what every thread holds is safe to
\* write.
THEOREM Invariance == Spec => []IInv
  BY InitInv, NextInv, PTL DEF Spec

\* The tables and what the threads hold keep their types.
THEOREM TypeCorrect == Spec => []TypeOK
  <1>1. IInv => TypeOK
    BY DEF IInv
  <1> QED BY <1>1, Invariance, PTL

\* A binding names a device that the server knows, for any number of threads,
\* although bind looks the device up and inserts the binding in different
\* transactions: no operation deletes a device.
THEOREM BindingsStayNamed == Spec => []BindingsNamed
  <1>1. IInv => BindingsNamed
    BY DEF IInv, In, BindingsNamed, RowsOf
  <1> QED BY <1>1, Invariance, PTL

\* A token that register or active tells is in the table.
THEOREM ToldTokensStayStored == Spec => []ToldTokensStored
  <1>1. IInv => ToldTokensStored
    BY DEF IInv, Safe, ToldTokensStored
  <1> QED BY <1>1, Invariance, PTL

-----------------------------------------------------------------------------
(* One row for a device, while nobody calls active.                        *)

\* The rows that thread r is going to insert have their device for an id.
Named(r) ==
    /\ r.op # "active"
    /\ r.op = "register" /\ r.pc = "insert" => \A new \in r.row : new.id = ById(new.device)

\* The inductive invariant: a row has its device for an id, and ids are unique.
UInv ==
    /\ IInv /\ DevicesUnique
    /\ \A h \in hdcs : h.id = ById(h.device)
    /\ \A t \in Threads : Named(thread[t])

\* A step of one thread that inserts no device preserves it.
LEMMA NamedTo ==
  ASSUME UInv, IInv', NEW t \in Threads, NEW r, Become(t, r), Named(r), hdcs' = hdcs
  PROVE  UInv'
  <1>1. thread \in [Threads -> Request]
    BY DEF UInv, IInv, TypeOK
  <1>2. \A s \in Threads : Named(thread'[s])
    BY <1>1 DEF Become, UInv
  <1> QED BY <1>2 DEF UInv, DevicesUnique

\* An answer to anything but active is such a step.
LEMMA NamedAnswer ==
  ASSUME NEW op \in {"register", "login", "bind", "cancel", "update"}, NEW answer \in Answers,
         NEW token \in Nat
  PROVE  Named(Answer(op, answer, token))
  <1> DEFINE r == Answer(op, answer, token)
  <1>1. r.pc = "answer" /\ r.op = op
    BY AnswerType
  <1> HIDE DEF r
  <1>2. Named(r)
    BY <1>1 DEF Named
  <1> QED BY <1>2 DEF r

\* register draws a row that has its device for an id.
LEMMA NamedRegister ==
  ASSUME UInv, NEW t \in Threads, NEW d \in Devices, Register(t, d)
  PROVE  UInv'
  <1>1. IInv' /\ hdcs' = hdcs /\ minted \in Nat
    BY RegisterStep DEF Register, UInv, IInv, TypeOK
  <1>2. CASE RowsOf(d) # {}
    BY <1>1, <1>2, NamedAnswer, NamedTo DEF Register, Answers
  <1>3. CASE RowsOf(d) = {}
    <2> DEFINE row == Hdc(ById(d), d, minted + 1)
               r == [Idle EXCEPT !.pc = "insert", !.op = "register", !.row = {row}]
    <2>1. Become(t, r)
      BY <1>3 DEF Register
    <2>2. row.id = ById(row.device) /\ row \in HdcRow
      BY <1>1 DEF Hdc, HdcRow, ById
    <2> HIDE DEF row
    <2>3. r.op = "register" /\ r.row = {row}
      BY IdleType DEF Request
    <2> HIDE DEF r
    <2>4. Named(r)
      BY <2>2, <2>3 DEF Named
    <2> QED BY <1>1, <2>1, <2>4, NamedTo
  <1> QED BY <1>2, <1>3

\* The primary key refuses a second row with the device for its id.
LEMMA NamedInsert ==
  ASSUME UInv, NEW t \in Threads, DeviceInsert(t)
  PROVE  UInv'
  <1> DEFINE r == thread[t]
  <1>1. IInv /\ IInv' /\ r.op = "register" /\ r.pc = "insert"
    BY DeviceInsertStep DEF DeviceInsert, UInv, Named
  <1>2. PICK new \in r.row :
              IF \E h \in hdcs : h.id = new.id
              THEN Become(t, Answer(r.op, "exception", 0)) /\ UNCHANGED hdcs
              ELSE Become(t, Answer(r.op, "OK", new.token)) /\ hdcs' = hdcs \cup {new}
    BY DEF DeviceInsert
  <1>3. new.token \in Nat /\ new.id = ById(new.device)
    BY <1>1 DEF IInv, Safe, HdcRow, UInv, Named
  <1>4. CASE \E h \in hdcs : h.id = new.id
    BY <1>1, <1>2, <1>4, NamedAnswer, NamedTo DEF Answers
  <1>5. CASE ~\E h \in hdcs : h.id = new.id
    <2> DEFINE a == Answer("register", "OK", new.token)
    <2>1. Become(t, a) /\ hdcs' = hdcs \cup {new}
      BY <1>1, <1>2, <1>5
    <2>2. Named(a)
      BY <1>3, NamedAnswer DEF Answers
    <2> HIDE DEF a
    <2>3. \A s \in Threads : Named(thread'[s])
      BY <1>1, <2>1, <2>2 DEF Become, UInv, IInv, TypeOK
    <2>4. \A h \in hdcs' : h.id = ById(h.device)
      BY <1>3, <2>1 DEF UInv
    <2>5. DevicesUnique'
      BY <1>3, <1>5, <2>1 DEF UInv, DevicesUnique
    <2> QED BY <1>1, <2>3, <2>4, <2>5 DEF UInv
  <1> QED BY <1>4, <1>5

\* A request other than register and active holds no device to insert.
LEMMA NamedOp ==
  ASSUME NEW r, r.op \notin {"register", "active"}
  PROVE  Named(r)
  BY DEF Named

\* The other requests that begin insert no device.
LEMMA NamedBegin ==
  ASSUME UInv, "active" \notin Ops, NEW t \in Threads,
         Begin(t) \/ \E d \in Devices, token \in 0..minted : Login(t, d, token)
  PROVE  UInv'
  <1>0. IInv'
    BY ThreadStep DEF BoxBegin, UInv
  <1>1. hdcs' = hdcs
    BY DEF Begin, Active, Bind, Cancel, Update, Login, tables, Accept
  <1>2. ASSUME NEW d \in Devices, NEW u \in Users, Bind(t, d, u) PROVE UInv'
    <2> DEFINE n == [Idle EXCEPT !.pc = "device", !.op = "bind", !.device = {d}, !.user = {u}]
    <2>1. Become(t, n) /\ n.op = "bind"
      BY <1>2, IdleType DEF Bind, Request
    <2> HIDE DEF n
    <2> QED BY <1>0, <1>1, <2>1, NamedOp, NamedTo
  <1>3. ASSUME NEW d \in Devices, NEW u \in Users, Cancel(t, d, u) PROVE UInv'
    <2>1. CASE Become(t, Answer("cancel", "DEVICE_ERROR", 0))
      BY <1>0, <1>1, <2>1, NamedAnswer, NamedTo DEF Answers
    <2>2. ASSUME NEW b, Become(t, [Idle EXCEPT !.pc = "delete", !.op = "cancel", !.row = {b}])
          PROVE  UInv'
      <3> DEFINE n == [Idle EXCEPT !.pc = "delete", !.op = "cancel", !.row = {b}]
      <3>1. n.op = "cancel" /\ Become(t, n)
        BY <2>2, IdleType DEF Request
      <3> HIDE DEF n
      <3> QED BY <1>0, <1>1, <3>1, NamedOp, NamedTo
    <2> QED BY <1>3, <2>1, <2>2 DEF Cancel
  <1>4. ASSUME NEW d \in Devices, NEW u \in Users, NEW s, NEW token, Update(t, d, token, u, s)
        PROVE  UInv'
    <2>1. CASE Become(t, Answer("update", "DEVICE_ERROR", 0))
      BY <1>0, <1>1, <2>1, NamedAnswer, NamedTo DEF Answers
    <2> DEFINE n == [Idle EXCEPT !.pc = "probe", !.op = "update", !.device = {d},
                         !.user = {u}, !.status = s]
    <2>2. CASE Become(t, n)
      <3>1. n.op = "update"
        BY IdleType DEF Request
      <3> HIDE DEF n
      <3> QED BY <1>0, <1>1, <2>2, <3>1, NamedOp, NamedTo
    <2> QED BY <1>4, <2>1, <2>2 DEF Update
  <1>5. ASSUME NEW d \in Devices, NEW token, Login(t, d, token) PROVE UInv'
    <2>1. PICK answer \in {"OK", "AUTH_ERROR"} : Become(t, Answer("login", answer, 0))
      BY <1>5 DEF Login
    <2> QED BY <1>0, <1>1, <2>1, NamedAnswer, NamedTo DEF Answers
  <1> QED BY <1>2, <1>3, <1>4, <1>5 DEF Begin, Active, Accept

\* Nor do those that go on, are sent or fail.
LEMMA NamedGoOn ==
  ASSUME UInv, NEW t \in Threads,
         (Continue(t) /\ ~DeviceInsert(t)) \/ Send(t) \/ Abort(t)
  PROVE  UInv'
  <1> DEFINE r == thread[t]
  <1>0. IInv' /\ r \in Request /\ Named(r)
    BY ThreadStep DEF UInv, IInv, TypeOK
  <1>1. hdcs' = hdcs
    BY DEF Continue, BindDevice, BindProbe, BindInsert, CancelDelete, UpdateProbe, UpdateMerge,
       Send, Abort, Reads
  <1>2. CASE \E op \in {"register", "login", "bind", "cancel", "update"}, answer \in Answers :
               Become(t, Answer(op, answer, 0))
    BY <1>0, <1>1, <1>2, NamedAnswer, NamedTo
  <1>3. CASE BindDevice(t)
    <2>1. PICK status \in {"NOT_FOUND", "found"} :
               Become(t, [r EXCEPT !.pc = "probe", !.status = status])
      BY <1>3 DEF BindDevice
    <2> DEFINE n == [r EXCEPT !.pc = "probe", !.status = status]
    <2>2. n.op = "bind"
      BY <1>0, <1>3 DEF BindDevice, At, Request
    <2> HIDE DEF n
    <2> QED BY <1>0, <1>1, <2>1, <2>2, NamedOp, NamedTo DEF n
  <1>4. CASE BindProbe(t)
    <2> DEFINE n == [r EXCEPT !.pc = "insert"]
    <2>1. n.op = "bind"
      BY <1>0, <1>4 DEF BindProbe, At, Request
    <2>2. CASE Become(t, n)
      <3> HIDE DEF n
      <3> QED BY <1>0, <1>1, <2>1, <2>2, NamedOp, NamedTo
    <2>3. \/ Become(t, Answer("bind", "NOT_FOUND", 0)) \/ Become(t, Answer("bind", "NAME_DUP", 0))
          \/ Become(t, n)
      BY <1>4 DEF BindProbe
    <2> QED BY <1>2, <2>2, <2>3 DEF Answers
  <1>5. CASE UpdateProbe(t)
    <2>1. ASSUME NEW c, Become(t, [Idle EXCEPT !.pc = "merge", !.op = "update", !.row = {c}])
          PROVE  UInv'
      <3> DEFINE n == [Idle EXCEPT !.pc = "merge", !.op = "update", !.row = {c}]
      <3>1. n.op = "update" /\ Become(t, n)
        BY <2>1, IdleType DEF Request
      <3> HIDE DEF n
      <3> QED BY <1>0, <1>1, <3>1, NamedOp, NamedTo
    <2>2. CASE Become(t, Answer("update", "DEVICE_ERROR", 0))
      BY <1>2, <2>2 DEF Answers
    <2> QED BY <1>5, <2>1, <2>2 DEF UpdateProbe
  <1>6. CASE BindInsert(t) \/ CancelDelete(t) \/ UpdateMerge(t)
    BY <1>2, <1>6 DEF BindInsert, CancelDelete, UpdateMerge, Answers
  <1>7. CASE Send(t)
    <2>1. Become(t, Idle) /\ Idle.op = "none"
      BY <1>7, IdleType DEF Send
    <2> QED BY <1>0, <1>1, <2>1, NamedOp, NamedTo
  <1>8. CASE Abort(t)
    <2>1. r.op \in {"register", "login", "bind", "cancel", "update"}
      BY <1>0, <1>8 DEF Abort, UInv, IInv, Safe, Named, Request
    <2> QED BY <1>2, <1>8, <2>1 DEF Abort, Answers
  <1> QED BY <1>3, <1>4, <1>5, <1>6, <1>7, <1>8 DEF Continue

\* Every step preserves the invariant if active is not among the requests.
LEMMA UniqueNext == "active" \notin Ops /\ UInv /\ [Next]_vars => UInv'
  <1> SUFFICES ASSUME "active" \notin Ops, UInv, [Next]_vars PROVE UInv'
    OBVIOUS
  <1>1. CASE UNCHANGED vars
    BY <1>1, NextInv DEF vars, UInv, DevicesUnique
  <1>2. CASE Crash
    <2>1. IInv'
      BY <1>2, NextInv DEF UInv, Next
    <2>2. hdcs' = hdcs /\ thread' = [t \in Threads |-> Idle] /\ Idle.op = "none"
      BY <1>2, IdleType DEF Crash
    <2>3. \A t \in Threads : Named(thread'[t])
      BY <2>2, NamedOp
    <2> QED BY <2>1, <2>2, <2>3 DEF UInv, DevicesUnique
  <1>3. ASSUME NEW t \in Threads, Begin(t) \/ BoxBegin(t) \/ Continue(t) \/ Send(t) \/ Abort(t)
        PROVE  UInv'
    <2>1. CASE BoxBegin(t)
      BY <2>1, NamedRegister, NamedBegin DEF BoxBegin
    <2>2. CASE DeviceInsert(t)
      BY <2>2, NamedInsert
    <2> QED BY <1>3, <2>1, <2>2, NamedBegin, NamedGoOn
  <1> QED BY <1>1, <1>2, <1>3 DEF Next, Wait

\* As long as nobody calls active or heartbeat, a device has one row and one
\* token, however many requests register it at a time: the check before the
\* insert may be out of date, but the primary key is not.
THEOREM DevicesStayUnique ==
  ASSUME "active" \notin Ops
  PROVE  Spec => []DevicesUnique
  <1>1. Init => UInv
    <2> SUFFICES ASSUME Init PROVE UInv
      OBVIOUS
    <2>1. IInv /\ Idle.op = "none"
      BY InitInv, IdleType
    <2>2. \A t \in Threads : Named(thread[t])
      BY <2>1, NamedOp DEF Init
    <2> QED BY <2>1, <2>2 DEF Init, UInv, DevicesUnique
  <1>2. UInv => DevicesUnique
    BY DEF UInv
  <1>3. UInv /\ [Next]_vars => UInv'
    BY UniqueNext
  <1> QED BY <1>1, <1>2, <1>3, PTL DEF Spec

-----------------------------------------------------------------------------
(* One binding of a user and a device, while requests do not overlap.      *)

\* What a thread is about to write fits the table B of bindings.
Fits(r, B) ==
    /\ r.op = "bind" /\ r.pc # "answer" => \A u, v \in r.user : u = v
    /\ r.op = "bind" /\ r.pc = "insert" =>
          \A d \in r.device, u \in r.user, b \in B : b.user # u \/ b.device # d
    /\ r.op = "update" /\ r.pc = "merge" =>
          \A b \in r.row : \E c \in B : c.id = b.id /\ c.user = b.user /\ c.device = b.device

\* The inductive invariant: ids of bindings are unique and drawn already.
SoloInv ==
    /\ IInv /\ BindingsUnique
    /\ \A b, c \in bindings : b.id = c.id => b = c
    /\ \A b \in bindings : b.id <= minted
    /\ \A t \in Threads : Fits(thread[t], bindings)

\* Requests do not overlap: there is one thread.
OneThread == \A s, t \in Threads : s = t

\* A step of the thread that changes no binding, and holds what fits, preserves it.
LEMMA FitsTo ==
  ASSUME OneThread, SoloInv, IInv', NEW t \in Threads, NEW r, Become(t, r), Fits(r, bindings),
         bindings' = bindings, minted <= minted'
  PROVE  SoloInv'
  <1>1. thread \in [Threads -> Request] /\ minted \in Nat /\ minted' \in Nat
        /\ \A b \in bindings : b.id \in Nat
    BY DEF SoloInv, IInv, TypeOK, BindingRow
  <1>2. \A s \in Threads : Fits(thread'[s], bindings')
    BY <1>1 DEF Become, OneThread
  <1>3. \A b \in bindings' : b.id <= minted'
    BY <1>1 DEF SoloInv
  <1> QED BY <1>2, <1>3 DEF SoloInv, BindingsUnique

\* An answer holds nothing.
LEMMA FitsAnswer ==
  ASSUME NEW op \in {"register", "active", "login", "bind", "cancel", "update"},
         NEW answer \in Answers, NEW token \in Nat, NEW B
  PROVE  Fits(Answer(op, answer, token), B)
  <1> DEFINE r == Answer(op, answer, token)
  <1>1. r.pc = "answer"
    BY AnswerType
  <1> HIDE DEF r
  <1>2. Fits(r, B)
    BY <1>1 DEF Fits
  <1> QED BY <1>2 DEF r

\* Nor does any request but bind and update hold what could misfit.
LEMMA FitsOp ==
  ASSUME NEW r, NEW B, r.op \notin {"bind", "update"}
  PROVE  Fits(r, B)
  BY DEF Fits

\* register, active and login are such requests.
LEMMA FitsDevice ==
  ASSUME OneThread, SoloInv, NEW t \in Threads,
         BoxBegin(t) \/ (\E d \in Devices : Active(t, d)) \/ DeviceInsert(t)
  PROVE  SoloInv'
  <1>0. IInv' /\ minted \in Nat
    BY ThreadStep DEF Begin, Continue, SoloInv, IInv, TypeOK
  <1>1. ASSUME NEW op \in {"register", "active", "login"}, NEW answer \in Answers,
               NEW token \in Nat, Become(t, Answer(op, answer, token)),
               bindings' = bindings, minted <= minted'
        PROVE  SoloInv'
    BY <1>0, <1>1, FitsAnswer, FitsTo
  <1>2. ASSUME NEW op \in {"register", "active"}, NEW row, bindings' = bindings,
               minted <= minted',
               Become(t, [Idle EXCEPT !.pc = "insert", !.op = op, !.row = {row}])
        PROVE  SoloInv'
    <2> DEFINE n == [Idle EXCEPT !.pc = "insert", !.op = op, !.row = {row}]
    <2>1. n.op = op /\ Become(t, n)
      BY <1>2, IdleType DEF Request
    <2> HIDE DEF n
    <2> QED BY <1>0, <1>2, <2>1, FitsOp, FitsTo
  <1>3. ASSUME NEW d \in Devices, Register(t, d) PROVE SoloInv'
    <2>0. bindings' = bindings /\ (minted' = minted \/ minted' = minted + 1)
      BY <1>3 DEF Register
    <2>1. bindings' = bindings /\ minted <= minted'
      BY <1>0, <2>0
    <2>2. CASE RowsOf(d) # {}
      BY <1>1, <1>3, <2>1, <2>2 DEF Register, Answers
    <2>3. CASE RowsOf(d) = {}
      BY <1>2, <1>3, <2>1, <2>3 DEF Register
    <2> QED BY <2>2, <2>3
  <1>4. ASSUME NEW d \in Devices, Active(t, d) PROVE SoloInv'
    <2>0. bindings' = bindings /\ (minted' = minted \/ minted' = minted + 2)
      BY <1>4 DEF Active
    <2>1. bindings' = bindings /\ minted <= minted'
      BY <1>0, <2>0
    <2>2. CASE RowsOf(d) # {}
      <3>1. PICK h \in RowsOf(d) : Become(t, Answer("active", "OK", h.token))
        BY <1>4, <2>2 DEF Active
      <3>2. h.token \in Nat
        BY DEF RowsOf, SoloInv, IInv, TypeOK, HdcRow
      <3> QED BY <1>1, <2>1, <3>1, <3>2 DEF Answers
    <2>3. CASE RowsOf(d) = {}
      BY <1>2, <1>4, <2>1, <2>3 DEF Active
    <2> QED BY <2>2, <2>3
  <1>5. ASSUME NEW d \in Devices, NEW token \in 0..minted, Login(t, d, token) PROVE SoloInv'
    <2>1. bindings' = bindings /\ minted <= minted'
      BY <1>0, <1>5 DEF Login, tables
    <2>2. PICK answer \in {"OK", "AUTH_ERROR"} : Become(t, Answer("login", answer, 0))
      BY <1>5 DEF Login
    <2> QED BY <1>1, <2>1, <2>2 DEF Answers
  <1>6. CASE DeviceInsert(t)
    <2>1. thread[t].op \in {"register", "active"} /\ bindings' = bindings /\ minted <= minted'
      BY <1>0, <1>6 DEF DeviceInsert
    <2>2. PICK new \in thread[t].row :
                \/ Become(t, Answer(thread[t].op, "exception", 0))
                \/ Become(t, Answer(thread[t].op, "OK", new.token))
      BY <1>6 DEF DeviceInsert
    <2>3. new.token \in Nat
      BY <1>6 DEF DeviceInsert, SoloInv, IInv, Safe, HdcRow
    <2> QED BY <1>1, <2>1, <2>2, <2>3 DEF Answers
  <1> QED BY <1>3, <1>4, <1>5, <1>6 DEF BoxBegin

\* bind looks for a binding, finds none and inserts one, with nobody in between.
LEMMA FitsBind ==
  ASSUME OneThread, SoloInv, NEW t \in Threads,
         (\E d \in Devices, u \in Users : Bind(t, d, u)) \/ BindDevice(t) \/ BindProbe(t)
  PROVE  SoloInv'
  <1> DEFINE r == thread[t]
  <1>0. IInv' /\ minted \in Nat /\ r \in Request /\ Safe(r, hdcs) /\ Fits(r, bindings)
    BY ThreadStep DEF Begin, Continue, SoloInv, IInv, TypeOK
  <1>1. bindings' = bindings /\ minted <= minted'
    <2>1. bindings' = bindings /\ minted' = minted
      BY DEF Bind, BindDevice, BindProbe, Reads, tables
    <2> QED BY <1>0, <2>1
  <1>2. ASSUME NEW d \in Devices, NEW u \in Users, Bind(t, d, u) PROVE SoloInv'
    <2> DEFINE n == [Idle EXCEPT !.pc = "device", !.op = "bind", !.device = {d}, !.user = {u}]
    <2>1. n.op = "bind" /\ n.pc = "device" /\ n.user = {u} /\ Become(t, n)
      BY <1>2, IdleType DEF Bind, Request
    <2> HIDE DEF n
    <2>2. Fits(n, bindings)
      BY <2>1 DEF Fits
    <2> QED BY <1>0, <1>1, <2>1, <2>2, FitsTo
  <1>3. CASE BindDevice(t)
    <2>1. PICK status \in {"NOT_FOUND", "found"} :
               Become(t, [r EXCEPT !.pc = "probe", !.status = status])
      BY <1>3 DEF BindDevice
    <2> DEFINE n == [r EXCEPT !.pc = "probe", !.status = status]
    <2>2. r.op = "bind" /\ r.pc = "device" /\ n.op = "bind" /\ n.pc = "probe" /\ n.user = r.user
      BY <1>0, <1>3 DEF BindDevice, At, Request
    <2>3. Become(t, n)
      BY <2>1
    <2> HIDE DEF n
    <2>4. Fits(n, bindings)
      BY <1>0, <2>2 DEF Fits
    <2> QED BY <1>0, <1>1, <2>3, <2>4, FitsTo
  <1>4. CASE BindProbe(t)
    <2> DEFINE n == [r EXCEPT !.pc = "insert"]
    <2>1. /\ r.op = "bind" /\ r.pc = "probe" /\ n.op = "bind" /\ n.pc = "insert"
          /\ n.user = r.user /\ n.device = r.device
      BY <1>0, <1>4 DEF BindProbe, At, Request
    <2>2. PICK d \in r.device, u \in r.user :
              \/ Become(t, Answer("bind", "NOT_FOUND", 0))
              \/ Become(t, Answer("bind", "NAME_DUP", 0))
              \/ BindingsOf(u, d) = {} /\ Become(t, n)
      BY <1>4 DEF BindProbe
    <2>3. ASSUME BindingsOf(u, d) = {}, Become(t, n) PROVE SoloInv'
      <3> HIDE DEF n
      <3>1. Fits(n, bindings)
        BY <1>0, <2>1, <2>3 DEF Fits, Safe, BindingsOf
      <3> QED BY <1>0, <1>1, <2>3, <3>1, FitsTo
    <2> QED BY <1>0, <1>1, <2>2, <2>3, FitsAnswer, FitsTo DEF Answers
  <1> QED BY <1>2, <1>3, <1>4

\* A step that changes bindings ends with an answer.
LEMMA FitsWritten ==
  ASSUME OneThread, SoloInv, NEW t \in Threads, IInv',
         NEW op \in {"bind", "cancel", "update"}, NEW answer \in Answers,
         Become(t, Answer(op, answer, 0)), BindingsUnique',
         \A b, c \in bindings' : b.id = c.id => b = c,
         \A b \in bindings' : b.id <= minted'
  PROVE  SoloInv'
  <1>1. thread'[t] = Answer(op, answer, 0)
    BY DEF Become, SoloInv, IInv, TypeOK
  <1>2. \A s \in Threads : Fits(thread'[s], bindings')
    BY <1>1, FitsAnswer DEF OneThread
  <1> QED BY <1>2 DEF SoloInv

\* The binding that bind inserts is the only one.
LEMMA FitsBindInsert ==
  ASSUME OneThread, SoloInv, NEW t \in Threads, BindInsert(t)
  PROVE  SoloInv'
  <1> DEFINE r == thread[t]
  <1>0. /\ IInv' /\ minted \in Nat /\ minted' = minted + 1 /\ Fits(r, bindings)
        /\ r.op = "bind" /\ r.pc = "insert" /\ \A b \in bindings : b.id \in Nat /\ b.id <= minted
    BY ThreadStep DEF Continue, SoloInv, IInv, TypeOK, BindInsert, At, BindingRow
  <1>1. PICK d \in r.device, u \in r.user :
          bindings' = bindings \cup
                  {[id |-> minted + 1, device |-> d, user |-> u, status |-> "request"]}
    BY DEF BindInsert
  <1> DEFINE new == [id |-> minted + 1, device |-> d, user |-> u, status |-> "request"]
  <1>2. new.id = minted + 1 /\ new.device = d /\ new.user = u /\ bindings' = bindings \cup {new}
    BY <1>1
  <1> HIDE DEF new
  <1>3. \A b \in bindings : b.user # new.user \/ b.device # new.device
    BY <1>0, <1>2 DEF Fits
  <1>4. \A b \in bindings : b.id # new.id
    BY <1>0, <1>2
  <1>5. BindingsUnique'
    BY <1>2, <1>3 DEF SoloInv, BindingsUnique
  <1>6. \A b, c \in bindings' : b.id = c.id => b = c
    BY <1>2, <1>4 DEF SoloInv
  <1>7. \A b \in bindings' : b.id <= minted'
    BY <1>0, <1>2
  <1>8. Become(t, Answer("bind", "OK", 0))
    BY DEF BindInsert
  <1> QED BY <1>0, <1>5, <1>6, <1>7, <1>8, FitsWritten DEF Answers

\* A merge puts a row in the place of the one it was read from.
LEMMA FitsMerge ==
  ASSUME OneThread, SoloInv, NEW t \in Threads, UpdateMerge(t)
  PROVE  SoloInv'
  <1> DEFINE r == thread[t]
  <1>0. IInv' /\ minted' = minted /\ Fits(r, bindings) /\ r.op = "update" /\ r.pc = "merge"
    BY ThreadStep DEF Continue, SoloInv, UpdateMerge, At
  <1>1. PICK b \in r.row : bindings' = {c \in bindings : c.id # b.id} \cup {b}
    BY DEF UpdateMerge
  <1>2. PICK e \in bindings : e.id = b.id /\ e.user = b.user /\ e.device = b.device
    BY <1>0 DEF Fits
  <1>3. \A c \in bindings : c.id # b.id => c.user # b.user \/ c.device # b.device
    BY <1>2 DEF SoloInv, BindingsUnique
  <1>4. BindingsUnique'
    BY <1>1, <1>3 DEF SoloInv, BindingsUnique
  <1>5. \A c, d \in bindings' : c.id = d.id => c = d
    BY <1>1 DEF SoloInv
  <1>6. \A c \in bindings' : c.id <= minted'
    BY <1>0, <1>1, <1>2 DEF SoloInv
  <1>7. Become(t, Answer("update", "OK", 0))
    BY DEF UpdateMerge
  <1> QED BY <1>0, <1>4, <1>5, <1>6, <1>7, FitsWritten DEF Answers

\* Cancelling takes bindings away; updating holds the row it read.
LEMMA FitsCancelUpdate ==
  ASSUME OneThread, SoloInv, NEW t \in Threads,
         \/ \E d \in Devices, u \in Users : Cancel(t, d, u)
         \/ CancelDelete(t)
         \/ \E d \in Devices, u \in Users, s \in NewStatuses, token \in 1..minted :
               Update(t, d, token, u, s)
         \/ UpdateProbe(t)
  PROVE  SoloInv'
  <1> DEFINE r == thread[t]
  <1>0. IInv' /\ minted \in Nat
    BY ThreadStep DEF Begin, Continue, SoloInv, IInv, TypeOK
  <1>1. ASSUME NEW op \in {"cancel", "update"}, NEW answer \in Answers,
               Become(t, Answer(op, answer, 0)), UNCHANGED <<bindings, minted>>
        PROVE  SoloInv'
    BY <1>0, <1>1, FitsAnswer, FitsTo
  <1>2. ASSUME NEW d \in Devices, NEW u \in Users, Cancel(t, d, u) PROVE SoloInv'
    <2>1. UNCHANGED <<bindings, minted>>
      BY <1>2 DEF Cancel, tables
    <2>2. CASE Become(t, Answer("cancel", "DEVICE_ERROR", 0))
      BY <1>1, <2>1, <2>2 DEF Answers
    <2>3. ASSUME NEW b, Become(t, [Idle EXCEPT !.pc = "delete", !.op = "cancel", !.row = {b}])
          PROVE  SoloInv'
      <3> DEFINE n == [Idle EXCEPT !.pc = "delete", !.op = "cancel", !.row = {b}]
      <3>1. n.op = "cancel" /\ Become(t, n)
        BY <2>3, IdleType DEF Request
      <3> HIDE DEF n
      <3> QED BY <1>0, <2>1, <3>1, FitsOp, FitsTo
    <2> QED BY <1>2, <2>2, <2>3 DEF Cancel
  <1>3. CASE CancelDelete(t)
    <2>1. bindings' \subseteq bindings /\ minted' = minted
      BY <1>3 DEF CancelDelete
    <2>2. PICK answer \in {"exception", "OK"} : Become(t, Answer("cancel", answer, 0))
      BY <1>3 DEF CancelDelete
    <2>3. BindingsUnique'
      BY <2>1 DEF SoloInv, BindingsUnique
    <2> QED BY <1>0, <2>1, <2>2, <2>3, FitsWritten DEF Answers, SoloInv
  <1>4. ASSUME NEW d \in Devices, NEW u \in Users, NEW s, NEW token, Update(t, d, token, u, s)
        PROVE  SoloInv'
    <2>1. UNCHANGED <<bindings, minted>>
      BY <1>4 DEF Update, tables
    <2> DEFINE n == [Idle EXCEPT !.pc = "probe", !.op = "update", !.device = {d},
                         !.user = {u}, !.status = s]
    <2>2. CASE Become(t, Answer("update", "DEVICE_ERROR", 0))
      BY <1>1, <2>1, <2>2 DEF Answers
    <2>3. CASE Become(t, n)
      <3>1. n.op = "update" /\ n.pc = "probe"
        BY IdleType DEF Request
      <3> HIDE DEF n
      <3>2. Fits(n, bindings)
        BY <3>1 DEF Fits
      <3> QED BY <1>0, <2>1, <2>3, <3>2, FitsTo
    <2> QED BY <1>4, <2>2, <2>3 DEF Update
  <1>5. CASE UpdateProbe(t)
    <2>1. UNCHANGED <<bindings, minted>>
      BY <1>5 DEF UpdateProbe, Reads
    <2>2. CASE Become(t, Answer("update", "DEVICE_ERROR", 0))
      BY <1>1, <2>1, <2>2 DEF Answers
    <2>3. ASSUME NEW d, NEW u, NEW b \in BindingsOf(u, d),
                 Become(t, [Idle EXCEPT !.pc = "merge", !.op = "update",
                                !.row = {[b EXCEPT !.status = r.status]}])
          PROVE  SoloInv'
      <3> DEFINE c == [b EXCEPT !.status = r.status]
                 n == [Idle EXCEPT !.pc = "merge", !.op = "update", !.row = {c}]
      <3>1. b \in bindings /\ b \in BindingRow
        BY <2>3 DEF BindingsOf, SoloInv, IInv, TypeOK
      <3>2. c.id = b.id /\ c.user = b.user /\ c.device = b.device
        BY <3>1 DEF BindingRow
      <3>3. Become(t, n)
        BY <2>3
      <3> HIDE DEF c
      <3>4. n.op = "update" /\ n.pc = "merge" /\ n.row = {c}
        BY IdleType DEF Request
      <3> HIDE DEF n
      <3>5. Fits(n, bindings)
        BY <3>1, <3>2, <3>4 DEF Fits
      <3> QED BY <1>0, <2>1, <3>3, <3>5, FitsTo
    <2> QED BY <1>5, <2>2, <2>3 DEF UpdateProbe
  <1> QED BY <1>2, <1>3, <1>4, <1>5

\* Sending, failing and crashing leave the tables alone.
LEMMA FitsEnd ==
  ASSUME OneThread, SoloInv, NEW t \in Threads, Send(t) \/ Abort(t)
  PROVE  SoloInv'
  <1>0. IInv' /\ minted \in Nat /\ UNCHANGED <<bindings, minted>>
    BY ThreadStep DEF SoloInv, IInv, TypeOK, Send, Abort, Reads
  <1>1. CASE Send(t)
    <2>1. Become(t, Idle) /\ Idle.op = "none"
      BY <1>1, IdleType DEF Send
    <2> QED BY <1>0, <2>1, FitsOp, FitsTo
  <1>2. CASE Abort(t)
    <2>1. thread[t].op \in {"register", "active", "login", "bind", "cancel", "update"}
      BY <1>2 DEF Abort, SoloInv, IInv, TypeOK, Safe, Request
    <2>2. Become(t, Answer(thread[t].op, "exception", 0))
      BY <1>2 DEF Abort
    <2> QED BY <1>0, <2>1, <2>2, FitsAnswer, FitsTo DEF Answers
  <1> QED BY <1>1, <1>2

\* Every step preserves the invariant if requests do not overlap.
LEMMA AloneNext == OneThread /\ SoloInv /\ [Next]_vars => SoloInv'
  <1> SUFFICES ASSUME OneThread, SoloInv, [Next]_vars PROVE SoloInv'
    OBVIOUS
  <1>1. CASE UNCHANGED vars
    BY <1>1, NextInv DEF vars, SoloInv, BindingsUnique
  <1>2. CASE Crash
    <2>1. IInv'
      BY <1>2, NextInv DEF SoloInv, Next
    <2>2. /\ UNCHANGED <<bindings, minted>> /\ thread' = [t \in Threads |-> Idle]
          /\ Idle.op = "none"
      BY <1>2, IdleType DEF Crash
    <2>3. \A t \in Threads : Fits(thread'[t], bindings')
      BY <2>2, FitsOp
    <2> QED BY <2>1, <2>2, <2>3 DEF SoloInv, BindingsUnique
  <1>3. ASSUME NEW t \in Threads, Begin(t) \/ BoxBegin(t) \/ Continue(t) \/ Send(t) \/ Abort(t)
        PROVE  SoloInv'
    <2>1. CASE Begin(t)
      BY <2>1, FitsDevice, FitsBind, FitsCancelUpdate DEF Begin
    <2>2. CASE Continue(t)
      BY <2>2, FitsDevice, FitsBind, FitsBindInsert, FitsCancelUpdate, FitsMerge DEF Continue
    <2> QED BY <1>3, <2>1, <2>2, FitsDevice, FitsEnd
  <1> QED BY <1>1, <1>2, <1>3 DEF Next, Wait

\* As long as requests do not overlap, a user is bound to a device at most once,
\* whatever requests fail and wherever the server crashes.
THEOREM BindingsStayUnique ==
  ASSUME \A s, t \in Threads : s = t
  PROVE  Spec => []BindingsUnique
  <1>0. OneThread
    BY DEF OneThread
  <1>1. Init => SoloInv
    <2> SUFFICES ASSUME Init PROVE SoloInv
      OBVIOUS
    <2>1. IInv /\ Idle.op = "none"
      BY InitInv, IdleType
    <2>2. \A t \in Threads : Fits(thread[t], bindings)
      BY <2>1, FitsOp DEF Init
    <2> QED BY <2>1, <2>2 DEF Init, SoloInv, BindingsUnique
  <1>2. SoloInv => BindingsUnique
    BY DEF SoloInv
  <1>3. SoloInv /\ [Next]_vars => SoloInv'
    BY <1>0, AloneNext
  <1> QED BY <1>1, <1>2, <1>3, PTL DEF Spec

=============================================================================
