--------------------------- MODULE TVLogin_proofs ---------------------------
(***************************************************************************)
(* Proofs about TVLogin: what a box has saved is registered at the server, *)
(* for any number of boxes, activities, servlet threads and faults.        *)
(***************************************************************************)
EXTENDS TVLogin, HomeCenter_proofs, FiniteSetTheorems

\* Row h of the table H is of device d and has this token.
Has(H, d, token) == \E h \in H : h.device = d /\ h.token = token

\* The servlet thread r serves the request that a login at q, of device d,
\* waits for; what it is going to answer is registered.
Serves(q, d, r, H) ==
    /\ r.pc # "idle" /\ r.op \in {"register", "login"}
    /\ q.pc = "registering" =>
          /\ r.op = "register"
          /\ r.pc = "insert" => \A new \in r.row : new.device = d
          /\ r.token # 0 => Has(H, d, r.token)

\* The inductive invariant of the composition.
BInv ==
    /\ IInv /\ BoxTypeOK
    /\ \A d \in Devices : saved[d] # 0 => Has(hdcs, d, saved[d])
    /\ \A l \in Logins : login[l].token # 0 => Has(hdcs, l[1], login[l].token)
    /\ \A l \in Logins : \A t \in login[l].call : Serves(login[l], l[1], thread[t], hdcs)
    /\ \A l, m \in Logins : login[l].call \cap login[m].call # {} => l = m
    /\ \A l \in Logins : login[l].call # {} => login[l].pc \in {"registering", "logging"}

-----------------------------------------------------------------------------

\* A login that has not begun, and its parts.
LEMMA OffType ==
  /\ Off \in [pc : {"off", "start", "registering", "save", "write", "registered", "logging", "over"},
              token : Nat, call : SUBSET Threads, ok : BOOLEAN]
  /\ Off.pc = "off" /\ Off.token = 0 /\ Off.call = {}
  BY DEF Off

\* No step of the server removes a device.
LEMMA HdcsGrow ==
  ASSUME NEW t \in Threads, Begin(t) \/ BoxBegin(t) \/ Continue(t) \/ Send(t) \/ Abort(t)
  PROVE  hdcs \subseteq hdcs'
  <1>1. CASE Begin(t)
    BY <1>1 DEF Begin, Active, Bind, Cancel, Update, tables
  <1>2. CASE BoxBegin(t)
    BY <1>2 DEF BoxBegin, Register, Login, tables
  <1>3. CASE Continue(t)
    <2>1. CASE DeviceInsert(t)
      BY <2>1 DEF DeviceInsert
    <2>2. CASE ~DeviceInsert(t)
      BY <1>3, <2>2 DEF Continue, BindDevice, BindProbe, BindInsert, CancelDelete, UpdateProbe,
         UpdateMerge, Reads
    <2> QED BY <2>1, <2>2
  <1> QED BY <1>1, <1>2, <1>3 DEF Send, Reads, Abort

\* A step of one servlet thread is a step of no other.
LEMMA OthersStay ==
  ASSUME IInv, NEW t \in Threads, Begin(t) \/ BoxBegin(t) \/ Continue(t) \/ Send(t) \/ Abort(t)
  PROVE  \A s \in Threads \ {t} : thread'[s] = thread[s]
  <1> USE DEF Become
  <1>0. thread \in [Threads -> Request]
    BY DEF IInv, TypeOK
  <1>1. CASE Begin(t)
    BY <1>0, <1>1 DEF Begin, Active, Bind, Cancel, Update
  <1>2. CASE BoxBegin(t)
    BY <1>0, <1>2 DEF BoxBegin, Register, Login
  <1>3. CASE Continue(t)
    <2>1. CASE DeviceInsert(t)
      BY <1>0, <2>1 DEF DeviceInsert
    <2>2. CASE ~DeviceInsert(t)
      BY <1>0, <1>3, <2>2 DEF Continue, BindDevice, BindProbe, BindInsert, CancelDelete,
         UpdateProbe, UpdateMerge
    <2> QED BY <2>1, <2>2
  <1> QED BY <1>0, <1>1, <1>2, <1>3 DEF Send, Abort

\* A thread that serves a box goes on serving it until it has sent its answer.
LEMMA ServesOn ==
  ASSUME IInv, NEW t \in Threads, NEW q, NEW d, Serves(q, d, thread[t], hdcs),
         Begin(t) \/ Continue(t) \/ Abort(t)
  PROVE  Serves(q, d, thread'[t], hdcs')
  <1> DEFINE r == thread[t]
  <1>0. thread \in [Threads -> Request] /\ r \in Request
    BY DEF IInv, TypeOK
  <1>1. ~Begin(t)
    BY DEF Begin, Active, Bind, Cancel, Update, Accept, Serves
  <1>2. CASE Continue(t)
    <2>1. DeviceInsert(t) /\ r.op = "register" /\ r.pc = "insert"
      BY <1>2 DEF Continue, DeviceInsert, BindDevice, BindProbe, BindInsert, CancelDelete,
         UpdateProbe, UpdateMerge, At, Serves
    <2>2. PICK new \in r.row :
              IF \E h \in hdcs : h.id = new.id
              THEN Become(t, Answer(r.op, "exception", 0)) /\ UNCHANGED hdcs
              ELSE Become(t, Answer(r.op, "OK", new.token)) /\ hdcs' = hdcs \cup {new}
      BY <2>1 DEF DeviceInsert
    <2>3. new \in HdcRow /\ new.token \in Nat
      BY <2>1 DEF IInv, Safe, HdcRow
    <2>4. CASE Become(t, Answer("register", "exception", 0))
      <3> DEFINE n == Answer("register", "exception", 0)
      <3>1. thread'[t] = n
        BY <1>0, <2>4 DEF Become
      <3>2. n.pc = "answer" /\ n.op = "register" /\ n.token = 0
        BY AnswerType DEF Answers
      <3> QED BY <3>1, <3>2 DEF Serves
    <2>5. CASE Become(t, Answer("register", "OK", new.token)) /\ hdcs' = hdcs \cup {new}
      <3> DEFINE n == Answer("register", "OK", new.token)
      <3>1. thread'[t] = n
        BY <1>0, <2>5 DEF Become
      <3>2. n.pc = "answer" /\ n.op = "register" /\ n.token = new.token
        BY <2>3, AnswerType DEF Answers
      <3> HIDE DEF n
      <3>3. q.pc = "registering" => Has(hdcs', d, new.token)
        BY <2>1, <2>5 DEF Serves, Has
      <3> QED BY <3>1, <3>2, <3>3 DEF Serves
    <2> QED BY <2>1, <2>2, <2>4, <2>5
  <1>3. CASE Abort(t)
    <2> DEFINE n == Answer(r.op, "exception", 0)
    <2>1. r.op \in {"register", "login"} /\ thread'[t] = n /\ hdcs' = hdcs
      BY <1>0, <1>3 DEF Abort, Become, Serves
    <2>2. n.pc = "answer" /\ n.op = r.op /\ n.token = 0
      BY <2>1, AnswerType DEF Answers
    <2> HIDE DEF n
    <2> QED BY <2>1, <2>2 DEF Serves
  <1> QED BY <1>1, <1>2, <1>3

\* What is registered stays so while the table grows.
LEMMA HasStable ==
  ASSUME NEW H, NEW G, H \subseteq G
  PROVE  /\ \A d, token : Has(H, d, token) => Has(G, d, token)
         /\ \A q, d, r : Serves(q, d, r, H) => Serves(q, d, r, G)
  BY DEF Has, Serves

LoginType == [pc : {"off", "start", "registering", "save", "write", "registered", "logging", "over"},
              token : Nat, call : SUBSET Threads, ok : BOOLEAN]

\* What a step of one login has to establish to preserve the invariant.
LEMMA LoginTo ==
  ASSUME BInv, IInv', hdcs \subseteq hdcs', opened' \in Nat,
         NEW l \in Logins, NEW q \in LoginType, Goes(l, q),
         saved' \in [Devices -> Nat],
         \A d \in Devices : saved'[d] # 0 => Has(hdcs', d, saved'[d]),
         q.token # 0 => Has(hdcs', l[1], q.token),
         \A t \in q.call : Serves(q, l[1], thread'[t], hdcs'),
         q.call # {} => q.pc \in {"registering", "logging"},
         \A m \in Logins \ {l} : \A t \in login[m].call : t \notin q.call /\ thread'[t] = thread[t]
  PROVE  BInv'
  <1>1. login \in [Logins -> LoginType] /\ login' = [login EXCEPT ![l] = q]
    BY DEF BInv, BoxTypeOK, LoginType, Goes
  <1>2. BoxTypeOK'
    BY <1>1 DEF BoxTypeOK, LoginType
  <1>3. \A m \in Logins : login'[m] = IF m = l THEN q ELSE login[m]
    BY <1>1
  <1>4. \A m \in Logins : login'[m].token # 0 => Has(hdcs', m[1], login'[m].token)
    BY <1>3, HasStable DEF BInv
  <1>5. \A m \in Logins : \A t \in login'[m].call : Serves(login'[m], m[1], thread'[t], hdcs')
    BY <1>3, HasStable DEF BInv
  <1>6. \A m, n \in Logins : login'[m].call \cap login'[n].call # {} => m = n
    BY <1>3 DEF BInv
  <1>7. \A m \in Logins : login'[m].call # {} => login'[m].pc \in {"registering", "logging"}
    BY <1>3 DEF BInv
  <1> QED BY <1>2, <1>4, <1>5, <1>6, <1>7 DEF BInv

\* The same for a step that the server takes no part in.
LEMMA LoginOnly ==
  ASSUME BInv, IInv', hdcs' = hdcs, thread' = thread, opened' \in Nat,
         NEW l \in Logins, NEW q \in LoginType, Goes(l, q), q.call = {},
         saved' \in [Devices -> Nat],
         \A d \in Devices : saved'[d] # 0 => Has(hdcs, d, saved'[d]),
         q.token # 0 => Has(hdcs, l[1], q.token)
  PROVE  BInv'
  BY LoginTo

\* The parts of the state when a step begins.
LEMMA BoxTypes ==
  ASSUME BInv, NEW l \in Logins
  PROVE  /\ login \in [Logins -> LoginType] /\ login[l] \in LoginType /\ l[1] \in Devices
         /\ saved \in [Devices -> Nat] /\ opened \in Nat /\ IInv
         /\ \A d \in Devices : saved[d] # 0 => Has(hdcs, d, saved[d])
         /\ login[l].token # 0 => Has(hdcs, l[1], login[l].token)
  BY DEF BInv, BoxTypeOK, LoginType, Logins

\* A step of the boxes alone leaves the invariant of the server as it is.
LEMMA StillInv ==
  ASSUME IInv, UNCHANGED vars PROVE IInv'
  BY FaultStep DEF vars, IInv, TypeOK

\* A login that begins holds the token it has read, which is registered.
LEMMA OpenStep ==
  ASSUME BInv, NEW l \in Logins, Open(l)
  PROVE  BInv'
  <1> DEFINE q == [Off EXCEPT !.pc = "start", !.token = saved[l[1]]]
  <1>1. Goes(l, q) /\ UNCHANGED <<vars, saved>> /\ opened' = opened + 1 /\ IInv'
    BY BoxTypes, StillInv DEF Open
  <1>2. q \in LoginType /\ q.call = {} /\ q.token = saved[l[1]]
    BY BoxTypes, OffType DEF LoginType
  <1> HIDE DEF q
  <1> QED BY <1>1, <1>2, BoxTypes, LoginOnly DEF vars

\* A login that is closed holds nothing.
LEMMA CloseStep ==
  ASSUME BInv, NEW l \in Logins, Close(l)
  PROVE  BInv'
  <1>1. Goes(l, Off) /\ UNCHANGED <<vars, saved, opened>> /\ IInv'
    BY BoxTypes, StillInv DEF Close
  <1>2. Off \in LoginType /\ Off.call = {} /\ Off.token = 0
    BY OffType DEF LoginType
  <1> QED BY <1>1, <1>2, BoxTypes, LoginOnly DEF vars

\* A file that is opened for writing holds no token.
LEMMA TruncateStep ==
  ASSUME BInv, NEW l \in Logins, Truncate(l)
  PROVE  BInv'
  <1> DEFINE q == [login[l] EXCEPT !.pc = "write"]
  <1>1. /\ Goes(l, q) /\ UNCHANGED <<vars, opened>> /\ IInv'
        /\ saved' = [saved EXCEPT ![l[1]] = 0]
    BY BoxTypes, StillInv DEF Truncate
  <1>2. q \in LoginType /\ q.call = {} /\ q.token = login[l].token
    BY BoxTypes DEF LoginType, Truncate, BInv
  <1> HIDE DEF q
  <1>3. saved' \in [Devices -> Nat] /\ \A d \in Devices : saved'[d] # 0 => Has(hdcs, d, saved'[d])
    BY <1>1, BoxTypes
  <1> QED BY <1>1, <1>2, <1>3, BoxTypes, LoginOnly DEF vars

\* What a box is about to save is registered.
LEMMA SaveStep ==
  ASSUME BInv, NEW l \in Logins, Save(l)
  PROVE  BInv'
  <1> DEFINE q == [login[l] EXCEPT !.pc = IF login[l].token = 0 THEN "over" ELSE "registered"]
  <1>1. Goes(l, q) /\ UNCHANGED <<vars, opened>> /\ IInv'
        /\ saved' = [saved EXCEPT ![l[1]] = login[l].token]
    BY BoxTypes, StillInv DEF Save
  <1>2. q \in LoginType /\ q.call = {} /\ q.token = login[l].token
    BY BoxTypes DEF LoginType, Save, BInv
  <1> HIDE DEF q
  <1>3. saved' \in [Devices -> Nat]
    BY <1>1, BoxTypes DEF LoginType
  <1>4. \A d \in Devices : saved'[d] # 0 => Has(hdcs, d, saved'[d])
    BY <1>1, BoxTypes DEF LoginType
  <1> QED BY <1>1, <1>2, <1>3, <1>4, BoxTypes, LoginOnly DEF vars

\* A request of a box is taken by a thread that serves no other box.
LEMMA SendRegisterStep ==
  ASSUME BInv, NEW l \in Logins, SendRegister(l)
  PROVE  BInv'
  <1>1. PICK t \in Threads :
          Register(t, l[1]) /\ Goes(l, [login[l] EXCEPT !.pc = "registering", !.call = {t}])
    BY DEF SendRegister
  <1> DEFINE q == [login[l] EXCEPT !.pc = "registering", !.call = {t}]
  <1>2. /\ login[l].token = 0 /\ UNCHANGED <<saved, opened>>
        /\ BoxBegin(t) /\ thread[t].pc = "idle" /\ hdcs' = hdcs
    BY <1>1, BoxTypes DEF SendRegister, BoxBegin, Register, Accept
  <1>3. IInv' /\ \A s \in Threads \ {t} : thread'[s] = thread[s]
    BY <1>2, BoxTypes, ThreadStep, OthersStay
  <1>4. q \in LoginType /\ q.call = {t} /\ q.token = 0 /\ q.pc = "registering"
    BY <1>2, BoxTypes DEF LoginType
  <1>5. Serves(q, l[1], thread'[t], hdcs')
    <2>1. thread \in [Threads -> Request] /\ minted \in Nat
      BY BoxTypes DEF IInv, TypeOK
    <2>2. CASE RowsOf(l[1]) # {}
      <3> DEFINE n == Answer("register", "NAME_DUP", 0)
      <3>1. thread'[t] = n
        BY <1>1, <2>1, <2>2 DEF Register, Become
      <3>2. n.pc = "answer" /\ n.op = "register" /\ n.token = 0
        BY AnswerType DEF Answers
      <3> HIDE DEF n, q
      <3> QED BY <1>4, <3>1, <3>2 DEF Serves
    <2>3. CASE RowsOf(l[1]) = {}
      <3> DEFINE row == Hdc(ById(l[1]), l[1], minted + 1)
                 n == [Idle EXCEPT !.pc = "insert", !.op = "register", !.row = {row}]
      <3>1. thread'[t] = n
        BY <1>1, <2>1, <2>3 DEF Register, Become
      <3>2. row.device = l[1]
        BY DEF Hdc
      <3> HIDE DEF row
      <3>3. n.pc = "insert" /\ n.op = "register" /\ n.row = {row} /\ n.token = 0
        BY IdleType DEF Request
      <3> HIDE DEF n, q
      <3> QED BY <1>4, <3>1, <3>2, <3>3 DEF Serves
    <2> QED BY <2>2, <2>3
  <1>6. \A m \in Logins \ {l} : \A s \in login[m].call : s \notin q.call /\ thread'[s] = thread[s]
    <2>1. ASSUME NEW m \in Logins \ {l}, NEW s \in login[m].call PROVE s # t /\ s \in Threads
      BY <1>2, BoxTypes DEF BInv, Serves, LoginType
    <2> QED BY <1>3, <1>4, <2>1
  <1> HIDE DEF q
  <1> QED BY <1>1, <1>2, <1>3, <1>4, <1>5, <1>6, BoxTypes, LoginTo DEF q

\* The same for the request to log in.
LEMMA SendLoginStep ==
  ASSUME BInv, NEW l \in Logins, SendLogin(l)
  PROVE  BInv'
  <1>1. PICK t \in Threads :
          /\ Login(t, l[1], login[l].token)
          /\ Goes(l, [login[l] EXCEPT !.pc = "logging", !.call = {t}])
    BY DEF SendLogin
  <1> DEFINE q == [login[l] EXCEPT !.pc = "logging", !.call = {t}]
  <1>2. /\ UNCHANGED <<saved, opened>>
        /\ thread[t].pc = "idle" /\ hdcs' = hdcs
    BY <1>1, BoxTypes DEF SendLogin, Login, Accept, tables
  <1>3. IInv' /\ \A s \in Threads \ {t} : thread'[s] = thread[s]
    <2>1. IInv'
      BY <1>1, BoxTypes, LoginStep DEF LoginType
    <2>2. thread \in [Threads -> Request]
      BY BoxTypes DEF IInv, TypeOK
    <2> QED BY <1>1, <2>1, <2>2 DEF Login, Become
  <1>4. q \in LoginType /\ q.call = {t} /\ q.token = login[l].token /\ q.pc = "logging"
    BY BoxTypes DEF LoginType
  <1>5. Serves(q, l[1], thread'[t], hdcs')
    <2>1. thread \in [Threads -> Request]
      BY BoxTypes DEF IInv, TypeOK
    <2>2. PICK answer \in {"OK", "AUTH_ERROR"} : thread'[t] = Answer("login", answer, 0)
      BY <1>1, <2>1 DEF Login, Become
    <2> DEFINE n == Answer("login", answer, 0)
    <2>3. n.pc = "answer" /\ n.op = "login"
      BY AnswerType DEF Answers
    <2> HIDE DEF n, q
    <2> QED BY <1>4, <2>2, <2>3 DEF Serves, n
  <1>6. \A m \in Logins \ {l} : \A s \in login[m].call : s \notin q.call /\ thread'[s] = thread[s]
    <2>1. ASSUME NEW m \in Logins \ {l}, NEW s \in login[m].call PROVE s # t /\ s \in Threads
      BY <1>2, BoxTypes DEF BInv, Serves, LoginType
    <2> QED BY <1>3, <1>4, <2>1
  <1> HIDE DEF q
  <1> QED BY <1>1, <1>2, <1>3, <1>4, <1>5, <1>6, BoxTypes, LoginTo DEF q

\* The answer to register tells a token that is in the table; no other login
\* waits for it.
LEMMA ReceiveRegisterStep ==
  ASSUME BInv, NEW l \in Logins, ReceiveRegister(l)
  PROVE  BInv'
  <1>1. PICK t \in login[l].call :
          Send(t) /\ Goes(l, [Off EXCEPT !.pc = "save", !.token = thread[t].token])
    BY DEF ReceiveRegister
  <1> DEFINE q == [Off EXCEPT !.pc = "save", !.token = thread[t].token]
  <1>2. /\ t \in Threads /\ thread[t] \in Request /\ login[l].pc = "registering"
        /\ UNCHANGED <<saved, opened>> /\ hdcs' = hdcs
    BY <1>1, BoxTypes DEF ReceiveRegister, Send, Reads, LoginType, IInv, TypeOK
  <1>3. IInv' /\ \A s \in Threads \ {t} : thread'[s] = thread[s]
    BY <1>1, <1>2, BoxTypes, ThreadStep, OthersStay
  <1>4. q \in LoginType /\ q.call = {} /\ q.token = thread[t].token
    BY <1>2, OffType DEF LoginType, Request
  <1>5. q.token # 0 => Has(hdcs', l[1], q.token)
    BY <1>2, <1>4 DEF BInv, Serves
  <1>6. \A m \in Logins \ {l} : \A s \in login[m].call : s \notin q.call /\ thread'[s] = thread[s]
    <2>1. ASSUME NEW m \in Logins \ {l}, NEW s \in login[m].call PROVE s # t /\ s \in Threads
      BY BoxTypes DEF BInv, LoginType
    <2> QED BY <1>3, <1>4, <2>1
  <1> HIDE DEF q
  <1> QED BY <1>1, <1>2, <1>3, <1>4, <1>5, <1>6, BoxTypes, LoginTo DEF q

\* The answer to login changes no token.
LEMMA ReceiveLoginStep ==
  ASSUME BInv, NEW l \in Logins, ReceiveLogin(l)
  PROVE  BInv'
  <1>1. PICK t \in login[l].call :
          /\ Send(t)
          /\ Goes(l, [login[l] EXCEPT !.pc = "over", !.call = {},
                                      !.ok = thread[t].answer = "OK"])
    BY DEF ReceiveLogin
  <1> DEFINE ok == thread[t].answer = "OK"
             q == [login[l] EXCEPT !.pc = "over", !.call = {}, !.ok = ok]
  <1>2. t \in Threads /\ UNCHANGED <<saved, opened>> /\ hdcs' = hdcs /\ ok \in BOOLEAN
    BY <1>1, BoxTypes DEF ReceiveLogin, Send, Reads, LoginType
  <1>3. IInv' /\ \A s \in Threads \ {t} : thread'[s] = thread[s]
    BY <1>1, <1>2, BoxTypes, ThreadStep, OthersStay
  <1> HIDE DEF ok
  <1>4. q \in LoginType /\ q.call = {} /\ q.token = login[l].token
    BY <1>2, BoxTypes DEF LoginType
  <1>6. \A m \in Logins \ {l} : \A s \in login[m].call : s \notin q.call /\ thread'[s] = thread[s]
    <2>1. ASSUME NEW m \in Logins \ {l}, NEW s \in login[m].call PROVE s # t /\ s \in Threads
      BY BoxTypes DEF BInv, LoginType
    <2> QED BY <1>3, <1>4, <2>1
  <1>7. Goes(l, q)
    BY <1>1 DEF ok
  <1> HIDE DEF q
  <1> QED BY <1>2, <1>3, <1>4, <1>6, <1>7, BoxTypes, LoginTo

\* A failure counts; the invariant of the server does not depend on how many.
LEMMA FailsInv ==
  ASSUME IInv, Fails, UNCHANGED <<tables, thread, served>>
  PROVE  IInv'
  BY FaultStep DEF Fails, tables, IInv, TypeOK

\* A login that fails waits for nothing any more.
LEMMA LoseStep ==
  ASSUME BInv, NEW l \in Logins, Lose(l)
  PROVE  BInv'
  <1> DEFINE q == [login[l] EXCEPT !.pc = "over", !.call = {}]
  <1>1. Goes(l, q) /\ UNCHANGED <<hdcs, thread, saved, opened>> /\ IInv'
    BY BoxTypes, FailsInv DEF Lose, tables
  <1>2. q \in LoginType /\ q.call = {} /\ q.token = login[l].token
    BY BoxTypes DEF LoginType
  <1> HIDE DEF q
  <1> QED BY <1>1, <1>2, BoxTypes, LoginOnly

\* A login whose answer has vanished waits for nobody.
LEMMA VanishStep ==
  ASSUME BInv, NEW l \in Logins, Vanish(l)
  PROVE  BInv'
  <1> DEFINE q == [login[l] EXCEPT !.call = {}]
  <1>1. Goes(l, q) /\ UNCHANGED <<hdcs, thread, saved, opened>> /\ IInv'
    BY BoxTypes, FailsInv DEF Vanish, tables
  <1>2. q \in LoginType /\ q.call = {} /\ q.token = login[l].token
    BY BoxTypes DEF LoginType
  <1> HIDE DEF q
  <1> QED BY <1>1, <1>2, BoxTypes, LoginOnly

\* A file that cannot be written holds what it held.
LEMMA SaveFailsStep ==
  ASSUME BInv, NEW l \in Logins, SaveFails(l)
  PROVE  BInv'
  <1> DEFINE q == [login[l] EXCEPT !.pc = "over"]
  <1>1. Goes(l, q) /\ UNCHANGED <<hdcs, thread, saved, opened>> /\ IInv'
    BY BoxTypes, FailsInv DEF SaveFails, tables
  <1>2. q \in LoginType /\ q.call = {} /\ q.token = login[l].token
    BY BoxTypes DEF LoginType, SaveFails, BInv
  <1> HIDE DEF q
  <1> QED BY <1>1, <1>2, BoxTypes, LoginOnly

\* A step that leaves every login as it is or takes it out of its call preserves
\* the invariant, if those who serve a call still serve it.
LEMMA LoginsTo ==
  ASSUME BInv, IInv', hdcs \subseteq hdcs', UNCHANGED <<saved, opened>>,
         login' \in [Logins -> LoginType],
         \A l \in Logins : login'[l].token \in {0, login[l].token},
         \A l \in Logins : login'[l].call # {} => login'[l] = login[l],
         \A l \in Logins : \A t \in login'[l].call : Serves(login[l], l[1], thread'[t], hdcs')
  PROVE  BInv'
  <1>1. BoxTypeOK'
    BY DEF BInv, BoxTypeOK, LoginType
  <1>2. \A d \in Devices : saved'[d] # 0 => Has(hdcs', d, saved'[d])
    BY HasStable DEF BInv
  <1>3. \A l \in Logins : login'[l].token # 0 => Has(hdcs', l[1], login'[l].token)
    BY HasStable DEF BInv
  <1>4. \A l \in Logins : \A t \in login'[l].call : Serves(login'[l], l[1], thread'[t], hdcs')
    OBVIOUS
  <1>5. \A l, m \in Logins : login'[l].call \cap login'[m].call # {} => l = m
    BY DEF BInv
  <1>6. \A l \in Logins : login'[l].call # {} => login'[l].pc \in {"registering", "logging"}
    BY DEF BInv
  <1> QED BY <1>1, <1>2, <1>3, <1>4, <1>5, <1>6 DEF BInv

\* A box that is switched off forgets what its threads were doing.
LEMMA DieStep ==
  ASSUME BInv, NEW d \in Devices, Die(d)
  PROVE  BInv'
  <1>1. /\ login' = [l \in Logins |-> IF l[1] = d THEN Off ELSE login[l]]
        /\ UNCHANGED <<hdcs, thread, saved, opened>> /\ IInv'
    BY FailsInv DEF Die, tables, BInv
  <1>2. Off \in LoginType /\ Off.call = {} /\ Off.token = 0
    BY OffType DEF LoginType
  <1>3. \A l \in Logins : login[l] \in LoginType
    BY BoxTypes
  <1>4. \A l \in Logins : login'[l] = Off \/ login'[l] = login[l]
    BY <1>1
  <1> QED BY <1>1, <1>2, <1>3, <1>4, LoginsTo DEF BInv

\* After a crash of the server nobody is in a call.
LEMMA ServerCrashStep ==
  ASSUME BInv, ServerCrash
  PROVE  BInv'
  <1> DEFINE after(l) == IF login[l].call = {} THEN login[l]
                         ELSE [login[l] EXCEPT !.pc = "over", !.call = {}]
  <1>1. /\ login' = [l \in Logins |-> after(l)]
        /\ hdcs' = hdcs /\ UNCHANGED <<saved, opened>>
    BY DEF ServerCrash, Crash
  <1>2. IInv'
    <2>1. IInv
      BY DEF BInv
    <2>2. faults' \in Nat
      <3>1. faults \in Nat
        BY <2>1 DEF IInv, TypeOK
      <3>2. Crash
        BY DEF ServerCrash
      <3> QED BY <3>1, <3>2 DEF Crash
    <2> QED BY <2>1, <2>2, FaultStep DEF ServerCrash, Crash
  <1>3. ASSUME NEW l \in Logins
        PROVE  after(l) \in LoginType /\ after(l).call = {} /\ after(l).token = login[l].token
    BY BoxTypes DEF LoginType
  <1> HIDE DEF after
  <1> QED BY <1>1, <1>2, <1>3, LoginsTo

\* A step of the server keeps every thread that serves a box at its service: it
\* sends no answer that a box waits for.
LEMMA ServerStep ==
  ASSUME BInv, NEW t \in Threads, Server(t)
  PROVE  BInv'
  <1>1. /\ Begin(t) \/ Continue(t) \/ Abort(t) \/ (t \notin Called /\ Send(t))
        /\ UNCHANGED <<saved, login, opened>> /\ IInv
    BY DEF Server, boxVars, BInv
  <1>2. IInv' /\ hdcs \subseteq hdcs' /\ \A s \in Threads \ {t} : thread'[s] = thread[s]
    BY <1>1, ThreadStep, HdcsGrow, OthersStay
  <1>3. ASSUME NEW l \in Logins, NEW s \in login[l].call
        PROVE  Serves(login[l], l[1], thread'[s], hdcs')
    <2>1. Serves(login[l], l[1], thread[s], hdcs) /\ s \in Threads
      BY BoxTypes DEF BInv, LoginType
    <2>2. CASE s # t
      BY <1>2, <2>1, <2>2, HasStable
    <2>3. CASE s = t
      <3>1. ~(t \notin Called /\ Send(t))
        BY <2>3 DEF Called
      <3> QED BY <1>1, <2>1, <2>3, <3>1, ServesOn
    <2> QED BY <2>2, <2>3
  <1>4. login' \in [Logins -> LoginType]
    BY <1>1 DEF BInv, BoxTypeOK, LoginType
  <1> QED BY <1>1, <1>2, <1>3, <1>4, LoginsTo

-----------------------------------------------------------------------------

\* The composition starts in the invariant.
LEMMA BoxInitInv == BoxInit => BInv
  <1> SUFFICES ASSUME BoxInit PROVE BInv
    OBVIOUS
  <1>1. IInv
    BY InitInv DEF BoxInit
  <1>2. \A l \in Logins : login[l] = Off
    BY DEF BoxInit
  <1>3. BoxTypeOK
    BY OffType DEF BoxInit, BoxTypeOK
  <1> QED BY <1>1, <1>2, <1>3, OffType DEF BoxInit, BInv

\* Every step preserves it.
LEMMA BoxNextInv == BInv /\ [BoxNext]_allVars => BInv'
  <1> SUFFICES ASSUME BInv, [BoxNext]_allVars PROVE BInv'
    OBVIOUS
  <1>1. CASE UNCHANGED allVars
    <2>1. UNCHANGED <<hdcs, thread, saved, login, opened>> /\ IInv'
      BY <1>1, StillInv DEF allVars, boxVars, vars, BInv
    <2> QED BY <2>1 DEF BInv, BoxTypeOK
  <1>2. CASE \E t \in Threads : Server(t)
    BY <1>2, ServerStep
  <1>3. CASE \E l \in Logins : Open(l) \/ Box(l) \/ Close(l) \/ Lose(l) \/ Vanish(l) \/ SaveFails(l)
    BY <1>3, OpenStep, SendRegisterStep, ReceiveRegisterStep, TruncateStep, SaveStep, SendLoginStep,
       ReceiveLoginStep, CloseStep, LoseStep, VanishStep, SaveFailsStep DEF Box
  <1>4. CASE \E d \in Devices : Die(d)
    BY <1>4, DieStep
  <1>5. CASE ServerCrash
    BY <1>5, ServerCrashStep
  <1> QED BY <1>1, <1>2, <1>3, <1>4, <1>5 DEF BoxNext, Rest

\* The invariant of the server and the boxes together.
THEOREM BoxInvariance == BoxSpec => []BInv
  BY BoxInitInv, BoxNextInv, PTL DEF BoxSpec

\* The boxes keep their types.
THEOREM BoxTypeCorrect == BoxSpec => []BoxTypeOK
  <1>1. BInv => BoxTypeOK
    BY DEF BInv
  <1> QED BY <1>1, BoxInvariance, PTL

\* What a box has saved is in the server's table, for any number of boxes,
\* activities and servlet threads, whatever is lost or dies in between.
THEOREM SavedStaysRegistered == BoxSpec => []SavedTokenRegistered
  <1>1. BInv => SavedTokenRegistered
    BY DEF BInv, Has, SavedTokenRegistered, Registered, RowsOf
  <1> QED BY <1>1, BoxInvariance, PTL

-----------------------------------------------------------------------------
(* The token of a device is kept while nothing fails.                       *)

\* One activity per box, and nobody else activates devices: the conditions under
\* which the comment at TokenKept claims it.
Alone == (\E a : Activities = {a}) /\ "active" \notin Ops

\* A thread r that is about to register a device does so for a box that waits
\* for it in the logins L.
Asked(t, r, L) ==
    /\ r.op # "active"
    /\ r.op = "register" /\ r.pc = "insert" =>
          \E l \in Logins : t \in L[l].call /\ L[l].pc = "registering"

\* What a login at q knows of its device d, whose file holds x, while the
\* threads are T and the table Hdc is H: a device of the table has its token in
\* the file, or in the hands of the login, or of the thread that serves it.
Knows(q, x, d, T, H) ==
    /\ q.pc \in {"off", "over", "start"} /\ In(d, H) => x # 0
    /\ q.pc = "start" => q.token = x
    /\ q.pc \in {"save", "write"} /\ In(d, H) => q.token # 0
    /\ q.pc \in {"registered", "logging"} => x # 0
    /\ \A s, t \in q.call : s = t
    /\ q.pc = "registering" =>
          \A t \in q.call :
             /\ T[t].pc = "insert" => ~In(d, H) /\ \A new \in T[t].row : new.token # 0
             /\ T[t].pc = "answer" /\ In(d, H) => T[t].token # 0

\* Both, while nothing has failed.
Calm ==
    /\ \A t \in Threads : Asked(t, thread[t], login)
    /\ \A l \in Logins : Knows(login[l], saved[l[1]], l[1], thread, hdcs)

KInv == BInv /\ Alone /\ (faults = 0 => Calm)

\* Two logins are of different devices.
LEMMA OneLogin ==
  ASSUME Alone
  PROVE  /\ \A l, m \in Logins : l[1] = m[1] => l = m
         /\ \A d \in Devices : \E l \in Logins : l[1] = d
  <1>1. PICK a : Activities = {a}
    BY DEF Alone
  <1>2. \A l \in Logins : l = <<l[1], a>>
    BY <1>1 DEF Logins
  <1>3. \A d \in Devices : <<d, a>> \in Logins /\ <<d, a>>[1] = d
    BY <1>1 DEF Logins
  <1> QED BY <1>2, <1>3

\* What a login knows depends on the threads of its call only.
LEMMA KnowsStable ==
  ASSUME NEW q, NEW x, NEW d, NEW T, NEW S, NEW H, NEW G, Knows(q, x, d, T, H),
         In(d, G) <=> In(d, H), \A t \in q.call : S[t] = T[t]
  PROVE  Knows(q, x, d, S, G)
  BY DEF Knows

\* What a step of one login has to establish.
LEMMA CalmTo ==
  ASSUME BInv, Alone, Calm, NEW l \in Logins, NEW q, Goes(l, q), hdcs' = hdcs,
         \A d \in Devices \ {l[1]} : saved'[d] = saved[d],
         Knows(q, saved'[l[1]], l[1], thread', hdcs),
         \A m \in Logins \ {l} : \A t \in login[m].call : thread'[t] = thread[t],
         \A t \in Threads : \/ Asked(t, thread'[t], login')
                            \/ thread'[t] = thread[t]
                               /\ (t \in login[l].call => login[l].pc # "registering")
  PROVE  Calm'
  <1>1. login' = [login EXCEPT ![l] = q] /\ login \in [Logins -> LoginType] /\ l[1] \in Devices
    BY BoxTypes DEF Goes
  <1>2. \A m \in Logins : login'[m] = IF m = l THEN q ELSE login[m]
    BY <1>1
  <1>3. ASSUME NEW t \in Threads PROVE Asked(t, thread'[t], login')
    <2>1. Asked(t, thread[t], login)
      BY DEF Calm
    <2>2. CASE thread'[t] = thread[t] /\ (t \in login[l].call => login[l].pc # "registering")
      BY <1>2, <2>1, <2>2 DEF Asked
    <2> QED BY <2>2
  <1>4. ASSUME NEW m \in Logins PROVE Knows(login'[m], saved'[m[1]], m[1], thread', hdcs')
    <2>1. CASE m = l
      BY <1>2, <2>1
    <2>2. CASE m # l
      <3>1. m[1] # l[1] /\ m[1] \in Devices
        BY <2>2, OneLogin DEF Logins
      <3>2. Knows(login[m], saved[m[1]], m[1], thread, hdcs)
        BY DEF Calm
      <3>3. Knows(login[m], saved[m[1]], m[1], thread', hdcs)
        BY <2>2, <3>2, KnowsStable
      <3> QED BY <1>2, <2>2, <3>1, <3>3
    <2> QED BY <2>1, <2>2
  <1> QED BY <1>3, <1>4 DEF Calm

\* The same for a step the server takes no part in.
LEMMA CalmOnly ==
  ASSUME BInv, Alone, Calm, NEW l \in Logins, login[l].call = {}, NEW q, Goes(l, q),
         UNCHANGED <<hdcs, thread>>, \A d \in Devices \ {l[1]} : saved'[d] = saved[d],
         Knows(q, saved'[l[1]], l[1], thread, hdcs)
  PROVE  Calm'
  BY CalmTo

\* A login of the box that is not at work in a call: what it knows.
LEMMA OpenCalm ==
  ASSUME BInv, Alone, Calm, NEW l \in Logins, Open(l)
  PROVE  Calm'
  <1> DEFINE q == [Off EXCEPT !.pc = "start", !.token = saved[l[1]]]
  <1>1. Goes(l, q) /\ UNCHANGED <<hdcs, thread, saved>> /\ login[l].pc = "off" /\ login[l].call = {}
    BY DEF Open, vars, BInv
  <1>2. q.pc = "start" /\ q.token = saved[l[1]] /\ q.call = {}
    BY DEF Off
  <1> HIDE DEF q
  <1>3. Knows(q, saved[l[1]], l[1], thread, hdcs)
    BY <1>1, <1>2 DEF Calm, Knows
  <1> QED BY <1>1, <1>3, CalmOnly

LEMMA CloseCalm ==
  ASSUME BInv, Alone, Calm, NEW l \in Logins, Close(l)
  PROVE  Calm'
  <1>1. Goes(l, Off) /\ UNCHANGED <<hdcs, thread, saved>> /\ login[l].pc = "over" /\ login[l].call = {}
    BY DEF Close, vars, BInv
  <1>2. Knows(Off, saved[l[1]], l[1], thread, hdcs)
    BY <1>1, OffType DEF Calm, Knows
  <1> QED BY <1>1, <1>2, CalmOnly

LEMMA TruncateCalm ==
  ASSUME BInv, Alone, Calm, NEW l \in Logins, Truncate(l)
  PROVE  Calm'
  <1> DEFINE q == [login[l] EXCEPT !.pc = "write"]
  <1>1. /\ Goes(l, q) /\ UNCHANGED <<hdcs, thread>> /\ login[l].pc = "save" /\ login[l].call = {}
        /\ saved' = [saved EXCEPT ![l[1]] = 0]
    BY DEF Truncate, vars, BInv
  <1>2. q.pc = "write" /\ q.token = login[l].token /\ q.call = {}
    BY <1>1, BoxTypes DEF LoginType
  <1> HIDE DEF q
  <1>3. Knows(q, saved'[l[1]], l[1], thread, hdcs)
    BY <1>1, <1>2 DEF Calm, Knows
  <1>4. \A d \in Devices \ {l[1]} : saved'[d] = saved[d]
    BY <1>1, BoxTypes
  <1> QED BY <1>1, <1>3, <1>4, CalmOnly

LEMMA SaveCalm ==
  ASSUME BInv, Alone, Calm, NEW l \in Logins, Save(l)
  PROVE  Calm'
  <1> DEFINE pc == IF login[l].token = 0 THEN "over" ELSE "registered"
             q == [login[l] EXCEPT !.pc = pc]
  <1>1. /\ Goes(l, q) /\ UNCHANGED <<hdcs, thread>> /\ login[l].pc = "write" /\ login[l].call = {}
        /\ saved' = [saved EXCEPT ![l[1]] = login[l].token]
    BY DEF Save, vars, BInv
  <1>2. q.pc = pc /\ q.token = login[l].token /\ q.call = {}
    BY <1>1, BoxTypes DEF LoginType
  <1> HIDE DEF q
  <1>3. saved'[l[1]] = login[l].token /\ \A d \in Devices \ {l[1]} : saved'[d] = saved[d]
    BY <1>1, BoxTypes
  <1>4. Knows(q, saved'[l[1]], l[1], thread, hdcs)
    BY <1>1, <1>2, <1>3 DEF Calm, Knows
  <1> QED BY <1>1, <1>3, <1>4, CalmOnly

\* The threads that serve the other logins are not those of this one.
LEMMA NotOfOthers ==
  ASSUME BInv, NEW l \in Logins, NEW t, t \in login[l].call \/ thread[t].pc = "idle"
  PROVE  \A m \in Logins \ {l} : t \notin login[m].call
  BY DEF BInv, Serves

\* A box that registers has no token, so its device is not in the table.
LEMMA SendRegisterCalm ==
  ASSUME BInv, Alone, Calm, NEW l \in Logins, SendRegister(l)
  PROVE  Calm'
  <1>1. PICK t \in Threads :
          Register(t, l[1]) /\ Goes(l, [login[l] EXCEPT !.pc = "registering", !.call = {t}])
    BY DEF SendRegister
  <1> DEFINE q == [login[l] EXCEPT !.pc = "registering", !.call = {t}]
             new == Hdc(ById(l[1]), l[1], minted + 1)
             n == [Idle EXCEPT !.pc = "insert", !.op = "register", !.row = {new}]
  <1>2. /\ login[l].pc = "start" /\ login[l].token = 0 /\ saved' = saved /\ hdcs' = hdcs
        /\ thread[t].pc = "idle" /\ thread \in [Threads -> Request] /\ minted \in Nat
    BY <1>1, BoxTypes DEF SendRegister, Register, Accept, IInv, TypeOK
  <1>3. ~In(l[1], hdcs)
    BY <1>2 DEF Calm, Knows
  <1>4. thread' = [thread EXCEPT ![t] = n]
    BY <1>1, <1>3 DEF Register, RowsOf, In, Become
  <1>5. new.token # 0
    BY <1>2 DEF Hdc
  <1> HIDE DEF new
  <1>6. n.pc = "insert" /\ n.op = "register" /\ n.row = {new}
    BY IdleType DEF Request
  <1>7. q.pc = "registering" /\ q.call = {t}
    BY BoxTypes DEF LoginType
  <1> HIDE DEF n, q
  <1>8. thread'[t] = n /\ \A s \in Threads \ {t} : thread'[s] = thread[s]
    BY <1>2, <1>4
  <1>9. Knows(q, saved'[l[1]], l[1], thread', hdcs)
    BY <1>3, <1>5, <1>6, <1>7, <1>8 DEF Knows
  <1>10. \A m \in Logins \ {l} : \A s \in login[m].call : thread'[s] = thread[s]
    <2>1. \A m \in Logins : login[m].call \subseteq Threads
      BY BoxTypes DEF LoginType
    <2> QED BY <1>2, <1>8, <2>1, NotOfOthers
  <1>11. Goes(l, q)
    BY <1>1 DEF q
  <1>12. login'[l] = q
    BY <1>11, BoxTypes DEF Goes
  <1>13. Asked(t, thread'[t], login')
    BY <1>6, <1>7, <1>8, <1>12 DEF Asked
  <1> QED BY <1>2, <1>8, <1>9, <1>10, <1>11, <1>13, CalmTo

\* A box that logs in has the token it sends in its file.
LEMMA SendLoginCalm ==
  ASSUME BInv, Alone, Calm, NEW l \in Logins, SendLogin(l)
  PROVE  Calm'
  <1>1. PICK t \in Threads :
          /\ Login(t, l[1], login[l].token)
          /\ Goes(l, [login[l] EXCEPT !.pc = "logging", !.call = {t}])
    BY DEF SendLogin
  <1> DEFINE q == [login[l] EXCEPT !.pc = "logging", !.call = {t}]
  <1>2. /\ login[l].pc \in {"start", "registered"} /\ login[l].token # 0
        /\ saved' = saved /\ hdcs' = hdcs
        /\ thread[t].pc = "idle" /\ thread \in [Threads -> Request]
    BY <1>1, BoxTypes DEF SendLogin, Login, Accept, tables, IInv, TypeOK
  <1>3. PICK answer \in {"OK", "AUTH_ERROR"} : thread' = [thread EXCEPT ![t] = Answer("login", answer, 0)]
    BY <1>1 DEF Login, Become
  <1> DEFINE n == Answer("login", answer, 0)
  <1>4. n.op = "login"
    BY AnswerType DEF Answers
  <1>5. q.pc = "logging" /\ q.call = {t}
    BY BoxTypes DEF LoginType
  <1>6. Goes(l, q)
    BY <1>1
  <1> HIDE DEF n, q
  <1>7. thread'[t] = n /\ \A s \in Threads \ {t} : thread'[s] = thread[s]
    BY <1>2, <1>3 DEF n
  <1>8. Knows(q, saved'[l[1]], l[1], thread', hdcs)
    BY <1>2, <1>5 DEF Calm, Knows
  <1>9. \A m \in Logins \ {l} : \A s \in login[m].call : thread'[s] = thread[s]
    <2>1. \A m \in Logins : login[m].call \subseteq Threads
      BY BoxTypes DEF LoginType
    <2> QED BY <1>2, <1>7, <2>1, NotOfOthers
  <1>10. Asked(t, thread'[t], login')
    BY <1>4, <1>7 DEF Asked
  <1> QED BY <1>2, <1>6, <1>7, <1>8, <1>9, <1>10, CalmTo

\* A thread that has sent its answer is idle.
LEMMA SendIdles ==
  ASSUME BInv, NEW t \in Threads, Send(t)
  PROVE  /\ thread[t].pc = "answer" /\ thread'[t] = Idle /\ hdcs' = hdcs
         /\ \A s \in Threads \ {t} : thread'[s] = thread[s]
         /\ \A L : Asked(t, thread'[t], L)
  <1>1. thread \in [Threads -> Request]
    BY DEF BInv, IInv, TypeOK
  <1>2. thread' = [thread EXCEPT ![t] = Idle] /\ thread[t].pc = "answer" /\ hdcs' = hdcs
    BY DEF Send, Become, Reads
  <1> QED BY <1>1, <1>2, IdleType DEF Asked

\* The answer to register is the token of the device, if it is in the table.
LEMMA ReceiveRegisterCalm ==
  ASSUME BInv, Alone, Calm, NEW l \in Logins, ReceiveRegister(l)
  PROVE  Calm'
  <1>1. PICK t \in login[l].call :
          Send(t) /\ Goes(l, [Off EXCEPT !.pc = "save", !.token = thread[t].token])
    BY DEF ReceiveRegister
  <1> DEFINE token == thread[t].token
             q == [Off EXCEPT !.pc = "save", !.token = token]
  <1>2. t \in Threads /\ login[l].pc = "registering" /\ saved' = saved
    BY <1>1, BoxTypes DEF ReceiveRegister, LoginType
  <1>3. /\ thread[t].pc = "answer" /\ hdcs' = hdcs /\ Asked(t, thread'[t], login')
        /\ \A s \in Threads \ {t} : thread'[s] = thread[s]
    BY <1>1, <1>2, SendIdles
  <1>4. (In(l[1], hdcs) => token # 0) /\ \A s \in login[l].call : s = t
    BY <1>2, <1>3 DEF Calm, Knows
  <1>5. Goes(l, q)
    BY <1>1
  <1> HIDE DEF token
  <1>6. q.pc = "save" /\ q.token = token /\ q.call = {}
    BY DEF Off
  <1> HIDE DEF q
  <1>7. Knows(q, saved'[l[1]], l[1], thread', hdcs)
    BY <1>4, <1>6 DEF Knows
  <1>8. \A m \in Logins \ {l} : \A s \in login[m].call : thread'[s] = thread[s]
    <2>1. \A m \in Logins : login[m].call \subseteq Threads
      BY BoxTypes DEF LoginType
    <2> QED BY <1>3, <2>1, NotOfOthers
  <1> QED BY <1>2, <1>3, <1>4, <1>5, <1>7, <1>8, CalmTo

\* The answer to login changes nothing that is known.
LEMMA ReceiveLoginCalm ==
  ASSUME BInv, Alone, Calm, NEW l \in Logins, ReceiveLogin(l)
  PROVE  Calm'
  <1>1. PICK t \in login[l].call :
          /\ Send(t)
          /\ Goes(l, [login[l] EXCEPT !.pc = "over", !.call = {},
                                      !.ok = thread[t].answer = "OK"])
    BY DEF ReceiveLogin
  <1> DEFINE ok == thread[t].answer = "OK"
             q == [login[l] EXCEPT !.pc = "over", !.call = {}, !.ok = ok]
  <1>2. t \in Threads /\ login[l].pc = "logging" /\ saved' = saved /\ ok \in BOOLEAN
    BY <1>1, BoxTypes DEF ReceiveLogin, LoginType
  <1>3. /\ hdcs' = hdcs /\ Asked(t, thread'[t], login')
        /\ \A s \in Threads \ {t} : thread'[s] = thread[s]
    BY <1>1, <1>2, SendIdles
  <1>4. Goes(l, q)
    BY <1>1
  <1> HIDE DEF ok
  <1>5. q.pc = "over" /\ q.call = {}
    BY BoxTypes DEF LoginType
  <1> HIDE DEF q
  <1>6. Knows(q, saved'[l[1]], l[1], thread', hdcs)
    BY <1>2, <1>5 DEF Calm, Knows
  <1>7. \A m \in Logins \ {l} : \A s \in login[m].call : thread'[s] = thread[s]
    <2>1. \A m \in Logins : login[m].call \subseteq Threads
      BY BoxTypes DEF LoginType
    <2> QED BY <1>3, <2>1, NotOfOthers
  <1> QED BY <1>2, <1>3, <1>4, <1>6, <1>7, CalmTo

\* A request of another kind never turns into one that registers.
LEMMA OtherOps ==
  ASSUME BInv, "active" \notin Ops, NEW t \in Threads,
         Begin(t) \/ (Continue(t) /\ ~DeviceInsert(t))
  PROVE  /\ hdcs' = hdcs
         /\ thread[t].pc = "idle" \/ thread[t].op \notin {"register", "login"}
         /\ thread'[t].op \in {"bind", "cancel", "update"}
  <1>0. thread \in [Threads -> Request] /\ thread[t] \in Request
    BY DEF BInv, IInv, TypeOK
  <1>1. CASE Begin(t)
    <2>1. ASSUME NEW d \in Devices, Active(t, d) PROVE FALSE
      BY <2>1 DEF Active, Accept
    <2>2. ASSUME NEW d \in Devices, NEW u \in Users, Bind(t, d, u)
          PROVE  thread'[t].op = "bind"
      <3>1. thread'[t] = [Idle EXCEPT !.pc = "device", !.op = "bind", !.device = {d}, !.user = {u}]
        BY <1>0, <2>2 DEF Bind, Become
      <3> QED BY <3>1 DEF Idle
    <2>3. ASSUME NEW d \in Devices, NEW u \in Users, Cancel(t, d, u)
          PROVE  thread'[t].op = "cancel"
      <3>1. \/ thread'[t] = Answer("cancel", "DEVICE_ERROR", 0)
            \/ \E b \in BindingsOf(u, d) :
                  thread'[t] = [Idle EXCEPT !.pc = "delete", !.op = "cancel", !.row = {b}]
        BY <1>0, <2>3 DEF Cancel, Become
      <3> QED BY <3>1 DEF Answer, Idle
    <2>4. ASSUME NEW d \in Devices, NEW u \in Users, NEW s \in NewStatuses, NEW token \in 1 .. minted,
                 Update(t, d, token, u, s)
          PROVE  thread'[t].op = "update"
      <3>1. \/ thread'[t] = Answer("update", "DEVICE_ERROR", 0)
            \/ thread'[t] = [Idle EXCEPT !.pc = "probe", !.op = "update", !.device = {d},
                                         !.user = {u}, !.status = s]
        BY <1>0, <2>4 DEF Update, Become
      <3> QED BY <3>1 DEF Answer, Idle
    <2>5. thread[t].pc = "idle" /\ hdcs' = hdcs
      BY <1>1, <2>1 DEF Begin, Bind, Cancel, Update, Accept, tables
    <2> QED BY <1>1, <2>1, <2>2, <2>3, <2>4, <2>5 DEF Begin
  <1>2. CASE Continue(t) /\ ~DeviceInsert(t)
    <2>1. \/ BindDevice(t) \/ BindProbe(t) \/ BindInsert(t) \/ CancelDelete(t)
          \/ UpdateProbe(t) \/ UpdateMerge(t)
      BY <1>2 DEF Continue
    <2>2. hdcs' = hdcs /\ thread[t].op \in {"bind", "cancel", "update"}
      BY <2>1 DEF BindDevice, BindProbe, BindInsert, CancelDelete, UpdateProbe, UpdateMerge, At, Reads
    <2>3. CASE BindDevice(t)
      <3>1. \E s : thread'[t] = [thread[t] EXCEPT !.pc = "probe", !.status = s]
        BY <1>0, <2>3 DEF BindDevice, Become
      <3> QED BY <1>0, <2>2, <3>1 DEF Request
    <2>4. CASE BindProbe(t)
      <3>1. \/ \E answer : thread'[t] = Answer("bind", answer, 0)
            \/ thread'[t] = [thread[t] EXCEPT !.pc = "insert"]
        BY <1>0, <2>4 DEF BindProbe, Become
      <3> QED BY <1>0, <2>2, <3>1 DEF Request, Answer, Idle
    <2>5. CASE BindInsert(t)
      <3>1. thread'[t] = Answer("bind", "OK", 0)
        BY <1>0, <2>5 DEF BindInsert, Become
      <3> QED BY <2>2, <3>1 DEF Answer, Idle
    <2>6. CASE CancelDelete(t)
      <3>1. \E answer : thread'[t] = Answer("cancel", answer, 0)
        BY <1>0, <2>6 DEF CancelDelete, Become
      <3> QED BY <2>2, <3>1 DEF Answer, Idle
    <2>7. CASE UpdateProbe(t)
      <3>1. \/ thread'[t] = Answer("update", "DEVICE_ERROR", 0)
            \/ \E b : thread'[t] = [Idle EXCEPT !.pc = "merge", !.op = "update", !.row = {b}]
        BY <1>0, <2>7 DEF UpdateProbe, Become
      <3> QED BY <2>2, <3>1 DEF Answer, Idle
    <2>8. CASE UpdateMerge(t)
      <3>1. thread'[t] = Answer("update", "OK", 0)
        BY <1>0, <2>8 DEF UpdateMerge, Become
      <3> QED BY <2>2, <3>1 DEF Answer, Idle
    <2> QED BY <2>1, <2>2, <2>3, <2>4, <2>5, <2>6, <2>7, <2>8
  <1> QED BY <1>1, <1>2

\* A thread that registers a device puts it into the table, and has its token.
LEMMA InsertCalm ==
  ASSUME BInv, Alone, Calm, NEW t \in Threads, DeviceInsert(t), UNCHANGED <<saved, login>>
  PROVE  Calm'
  <1> DEFINE r == thread[t]
  <1>0. thread \in [Threads -> Request] /\ \A l \in Logins : login[l].call \subseteq Threads
    BY BoxTypes DEF LoginType, BInv, IInv, TypeOK
  <1>1. r.op = "register" /\ r.pc = "insert"
    BY DEF DeviceInsert, Calm, Asked
  <1>2. PICK l \in Logins : t \in login[l].call /\ login[l].pc = "registering"
    BY <1>1 DEF Calm, Asked
  <1>3. /\ ~In(l[1], hdcs) /\ \A new \in r.row : new.token # 0 /\ new.device = l[1]
        /\ \A s \in login[l].call : s = t
    BY <1>1, <1>2 DEF Calm, Knows, BInv, Serves
  <1>4. PICK new \in r.row :
          \/ Become(t, Answer("register", "exception", 0)) /\ hdcs' = hdcs
          \/ Become(t, Answer("register", "OK", new.token)) /\ hdcs' = hdcs \cup {new}
    BY <1>1 DEF DeviceInsert
  <1>5. new.token \in Nat
    BY <1>1 DEF BInv, IInv, Safe, HdcRow
  <1>6. /\ thread'[t].pc = "answer" /\ thread'[t].op = "register"
        /\ \A s \in Threads \ {t} : thread'[s] = thread[s]
        /\ hdcs' = hdcs \/ (hdcs' = hdcs \cup {new} /\ thread'[t].token = new.token)
    <2>1. CASE Become(t, Answer("register", "exception", 0)) /\ hdcs' = hdcs
      <3> DEFINE n == Answer("register", "exception", 0)
      <3>1. n.pc = "answer" /\ n.op = "register"
        BY AnswerType DEF Answers
      <3>2. thread' = [thread EXCEPT ![t] = n]
        BY <2>1 DEF Become
      <3> HIDE DEF n
      <3> QED BY <1>0, <2>1, <3>1, <3>2
    <2>2. CASE Become(t, Answer("register", "OK", new.token)) /\ hdcs' = hdcs \cup {new}
      <3> DEFINE n == Answer("register", "OK", new.token)
      <3>1. n.pc = "answer" /\ n.op = "register" /\ n.token = new.token
        BY <1>5, AnswerType DEF Answers
      <3>2. thread' = [thread EXCEPT ![t] = n]
        BY <2>2 DEF Become
      <3> HIDE DEF n
      <3> QED BY <1>0, <2>2, <3>1, <3>2
    <2> QED BY <1>4, <2>1, <2>2
  <1>7. ASSUME NEW s \in Threads PROVE Asked(s, thread'[s], login')
    BY <1>6 DEF Calm, Asked
  <1>8. ASSUME NEW m \in Logins PROVE Knows(login'[m], saved'[m[1]], m[1], thread', hdcs')
    <2>1. Knows(login[m], saved[m[1]], m[1], thread, hdcs)
      BY DEF Calm
    <2>2. CASE m = l
      <3>1. In(l[1], hdcs') => thread'[t].token # 0
        BY <1>3, <1>6 DEF In
      <3> QED BY <1>2, <1>3, <1>6, <2>1, <2>2, <3>1 DEF Knows
    <2>3. CASE m # l
      <3>1. new.device # m[1]
        BY <1>3, <2>3, OneLogin
      <3>2. In(m[1], hdcs') <=> In(m[1], hdcs)
        BY <1>6, <3>1 DEF In
      <3>3. \A s \in login[m].call : thread'[s] = thread[s]
        BY <1>0, <1>2, <1>6, <2>3, NotOfOthers
      <3> QED BY <2>1, <3>2, <3>3, KnowsStable
    <2> QED BY <2>2, <2>3
  <1> QED BY <1>7, <1>8 DEF Calm

\* The other steps of the server touch no thread that serves a box.
LEMMA ServerCalm ==
  ASSUME BInv, Alone, Calm, NEW t \in Threads, Server(t), faults' = faults
  PROVE  Calm'
  <1>0. UNCHANGED <<saved, login>> /\ \A l \in Logins : login[l].call \subseteq Threads
    BY BoxTypes DEF Server, boxVars, LoginType
  <1>1. CASE DeviceInsert(t)
    BY <1>0, <1>1, InsertCalm
  <1>2. CASE ~DeviceInsert(t)
    <2>1. ~Abort(t)
      BY DEF Abort, BInv, IInv, TypeOK
    <2>2. \A s \in Threads \ {t} : thread'[s] = thread[s]
      BY <2>1, OthersStay DEF Server, BInv
    <2>3. /\ hdcs' = hdcs /\ Asked(t, thread'[t], login)
          /\ \A l \in Logins : t \notin login[l].call
      <3>1. CASE t \notin Called /\ Send(t)
        BY <3>1, SendIdles DEF Called
      <3>2. CASE Begin(t) \/ Continue(t)
        <4>1. /\ hdcs' = hdcs /\ thread'[t].op \in {"bind", "cancel", "update"}
              /\ thread[t].pc = "idle" \/ thread[t].op \notin {"register", "login"}
          BY <1>2, <3>2, OtherOps DEF Alone
        <4>2. \A l \in Logins : t \notin login[l].call
          BY <4>1 DEF BInv, Serves
        <4> QED BY <4>1, <4>2 DEF Asked
      <3> QED BY <2>1, <3>1, <3>2 DEF Server
    <2>4. ASSUME NEW s \in Threads PROVE Asked(s, thread'[s], login')
      BY <1>0, <2>2, <2>3 DEF Calm
    <2>5. ASSUME NEW l \in Logins PROVE Knows(login'[l], saved'[l[1]], l[1], thread', hdcs')
      <3>1. \A s \in login[l].call : thread'[s] = thread[s]
        BY <1>0, <2>2, <2>3
      <3>2. Knows(login[l], saved[l[1]], l[1], thread, hdcs)
        BY DEF Calm
      <3> QED BY <1>0, <2>3, <3>1, <3>2, KnowsStable
    <2> QED BY <2>4, <2>5 DEF Calm
  <1> QED BY <1>1, <1>2

\* Nothing is known at first, and nothing is in the table.
LEMMA CalmInit == ASSUME BoxInit, Alone PROVE KInv
  <1>1. BInv /\ hdcs = {}
    BY BoxInitInv DEF BoxInit, Init
  <1>2. \A t \in Threads : thread[t] = Idle
    BY DEF BoxInit, Init
  <1>3. \A l \in Logins : login[l] = Off /\ saved[l[1]] = 0
    BY DEF BoxInit, Logins
  <1>4. \A t \in Threads : Asked(t, thread[t], login)
    BY <1>2, IdleType DEF Asked
  <1>5. ASSUME NEW l \in Logins PROVE Knows(login[l], saved[l[1]], l[1], thread, hdcs)
    BY <1>1, <1>3, OffType DEF Knows, In
  <1> QED BY <1>1, <1>4, <1>5 DEF KInv, Calm

\* No step unlearns it, but one that fails.
LEMMA CalmNext == ASSUME KInv, [BoxNext]_allVars PROVE KInv'
  <1>1. BInv /\ BInv' /\ Alone /\ faults \in Nat
    BY BoxNextInv DEF KInv, BInv, IInv, TypeOK
  <1>2. ASSUME faults' = 0 PROVE Calm'
    <2>1. CASE UNCHANGED allVars
      <3>1. UNCHANGED <<hdcs, thread, saved, login, faults>>
        BY <2>1 DEF allVars, boxVars, vars
      <3> QED BY <1>2, <3>1 DEF KInv, Calm
    <2>2. CASE \E t \in Threads : Server(t)
      <3>1. PICK t \in Threads : Server(t)
        BY <2>2
      <3>2. faults' = faults \/ faults' = faults + 1
        BY <3>1 DEF Server, Begin, Continue, Abort, Send, Active, Bind, Cancel, Update, Accept,
           DeviceInsert, BindDevice, BindProbe, BindInsert, CancelDelete, UpdateProbe, UpdateMerge,
           Reads
      <3>3. faults' = faults /\ Calm
        BY <1>1, <1>2, <3>2 DEF KInv
      <3> QED BY <1>1, <3>1, <3>3, ServerCalm
    <2>3. CASE \E l \in Logins : Open(l) \/ Box(l) \/ Close(l) \/ Lose(l) \/ Vanish(l) \/ SaveFails(l)
      <3>1. PICK l \in Logins : Open(l) \/ Box(l) \/ Close(l) \/ Lose(l) \/ Vanish(l) \/ SaveFails(l)
        BY <2>3
      <3>2. ~Lose(l) /\ ~Vanish(l) /\ ~SaveFails(l)
        BY <1>1, <1>2 DEF Lose, Vanish, SaveFails, Fails
      <3>3. faults' = faults
        BY <3>1, <3>2 DEF Box, Open, Close, SendRegister, ReceiveRegister, Truncate, Save, SendLogin,
           ReceiveLogin, vars, Register, Login, Accept, Send, Reads
      <3>4. Calm
        BY <1>2, <3>3 DEF KInv
      <3> QED BY <1>1, <3>1, <3>2, <3>4, OpenCalm, CloseCalm, SendRegisterCalm, ReceiveRegisterCalm,
              TruncateCalm, SaveCalm, SendLoginCalm, ReceiveLoginCalm DEF Box
    <2>4. CASE (\E d \in Devices : Die(d)) \/ ServerCrash
      <3>1. faults' = faults + 1
        BY <2>4 DEF Die, ServerCrash, Crash, Fails
      <3> QED BY <1>1, <1>2, <3>1
    <2> QED BY <2>1, <2>2, <2>3, <2>4 DEF BoxNext, Rest
  <1> QED BY <1>1, <1>2 DEF KInv

\* While nothing fails, a box that is alone keeps the token of its device once its
\* login is over: register has told it, and what it was told is written.
THEOREM TokenStaysKept == BoxSpec /\ Alone => []TokenKept
  <1>1. BoxInit /\ Alone => KInv
    BY CalmInit
  <1>2. KInv /\ [BoxNext]_allVars => KInv'
    BY CalmNext
  <1>3. KInv => TokenKept
    <2> SUFFICES ASSUME KInv, NEW d \in Devices, faults = 0, RowsOf(d) # {},
                        \A l \in Logins : l[1] = d => login[l].pc \in {"off", "over"}
                 PROVE  saved[d] # 0
      BY DEF TokenKept
    <2>1. PICK l \in Logins : l[1] = d
      BY OneLogin DEF KInv
    <2>2. Knows(login[l], saved[d], d, thread, hdcs) /\ In(d, hdcs)
      BY <2>1 DEF KInv, Calm, RowsOf, In
    <2> QED BY <2>1, <2>2 DEF Knows
  <1> QED BY <1>1, <1>2, <1>3, PTL DEF BoxSpec

-----------------------------------------------------------------------------
(* A box with a token is let in.                                           *)

\* The servlet thread r has answered the login of device d: it has let it in, or
\* the device has two rows in the table H.
LetIn(r, d, H) ==
    /\ r.pc = "answer"
    /\ r.answer = "OK" \/ \E h, k \in H : h # k /\ h.device = d /\ k.device = d

\* The invariant behind TokenOpens.
LInv ==
    /\ BInv /\ IsFiniteSet(hdcs)
    /\ \A l \in Logins : login[l].pc = "logging" =>
          \A t \in login[l].call : LetIn(thread[t], l[1], hdcs)

\* The server adds one row at a time.
LEMMA HdcsStayFinite ==
  ASSUME IsFiniteSet(hdcs), [BoxNext]_allVars
  PROVE  IsFiniteSet(hdcs')
  <1>1. CASE \E t \in Threads : DeviceInsert(t)
    <2>1. PICK t \in Threads : DeviceInsert(t)
      BY <1>1
    <2>2. PICK new \in thread[t].row : hdcs' = hdcs \/ hdcs' = hdcs \cup {new}
      BY <2>1 DEF DeviceInsert
    <2> QED BY <2>2, FS_AddElement
  <1>2. CASE ~\E t \in Threads : DeviceInsert(t)
    <2>1. CASE UNCHANGED allVars \/ Rest
      BY <2>1 DEF Rest, allVars, vars
    <2>2. CASE \E t \in Threads : Server(t)
      BY <1>2, <2>2 DEF Server, Begin, Continue, Abort, Send, Active, Bind, Cancel, Update,
         BindDevice, BindProbe, BindInsert, CancelDelete, UpdateProbe, UpdateMerge, Reads, tables
    <2>3. CASE \E l \in Logins : Open(l) \/ Box(l) \/ Close(l) \/ Lose(l) \/ Vanish(l) \/ SaveFails(l)
      <3>1. PICK l \in Logins : Open(l) \/ Box(l) \/ Close(l) \/ Lose(l) \/ Vanish(l) \/ SaveFails(l)
        BY <2>3
      <3>2. hdcs' = hdcs
        BY <3>1 DEF Open, Box, Close, Lose, Vanish, SaveFails, SendRegister, ReceiveRegister,
           Truncate, Save, SendLogin, ReceiveLogin, vars, tables, Register, Login, Send, Reads
      <3> QED BY <3>2
    <2>4. CASE (\E d \in Devices : Die(d)) \/ ServerCrash
      BY <2>4 DEF Die, ServerCrash, Crash, tables
    <2> QED BY <2>1, <2>2, <2>3, <2>4 DEF BoxNext
  <1> QED BY <1>1, <1>2

\* A thread that has answered a box does nothing but send the answer to it.
LEMMA AnsweredWaits ==
  ASSUME BInv, NEW t \in Threads, Server(t), NEW l \in Logins, t \in login[l].call,
         thread[t].pc = "answer"
  PROVE  FALSE
  <1>1. t \in Called
    BY DEF Called
  <1>2. Begin(t) \/ Continue(t) \/ Abort(t)
    BY <1>1 DEF Server
  <1> QED BY <1>2 DEF Begin, Continue, Abort, Active, Bind, Cancel, Update, Accept, At,
          DeviceInsert, BindDevice, BindProbe, BindInsert, CancelDelete, UpdateProbe, UpdateMerge

\* The server lets a box in that sends a token of the only row of its device.
LEMMA LoginLetsIn ==
  ASSUME BInv, NEW l \in Logins, NEW t \in Threads, Login(t, l[1], login[l].token),
         login[l].token # 0
  PROVE  LetIn(thread'[t], l[1], hdcs')
  <1>1. PICK h \in hdcs : h.device = l[1] /\ h.token = login[l].token
    BY DEF BInv, Has
  <1>2. hdcs' = hdcs /\ h \in RowsOf(l[1]) /\ thread \in [Threads -> Request]
    BY <1>1 DEF Login, tables, RowsOf, BInv, IInv, TypeOK
  <1>3. PICK k \in RowsOf(l[1]) :
          Become(t, Answer("login", IF k.token = login[l].token THEN "OK" ELSE "AUTH_ERROR", 0))
    BY <1>2 DEF Login
  <1> DEFINE answer == IF k.token = login[l].token THEN "OK" ELSE "AUTH_ERROR"
             n == Answer("login", answer, 0)
  <1>4. thread'[t] = n
    BY <1>2, <1>3 DEF Become
  <1>5. n.pc = "answer" /\ n.answer = answer
    BY DEF Answer, Idle
  <1> HIDE DEF n
  <1>6. answer = "OK" \/ h # k
    BY <1>1
  <1>7. k \in hdcs /\ k.device = l[1]
    BY DEF RowsOf
  <1> HIDE DEF answer
  <1> QED BY <1>1, <1>2, <1>4, <1>5, <1>6, <1>7 DEF LetIn

\* What a step of the boxes has to establish: a login enters its call let in.
LEMMA LoggedTo ==
  ASSUME LInv, BInv', IsFiniteSet(hdcs'), hdcs \subseteq hdcs',
         NEW M \in SUBSET Logins,
         \A l \in Logins \ M : login'[l] = login[l],
         \A l \in M : login'[l].pc = "logging" =>
            \A t \in login'[l].call : LetIn(thread'[t], l[1], hdcs'),
         \A l \in Logins \ M : login[l].pc = "logging" =>
            \A t \in login[l].call : thread'[t] = thread[t]
  PROVE  LInv'
  <1>1. ASSUME NEW l \in Logins, login'[l].pc = "logging", NEW t \in login'[l].call
        PROVE  LetIn(thread'[t], l[1], hdcs')
    <2>1. CASE l \in M
      BY <1>1, <2>1
    <2>2. CASE l \notin M
      <3>1. LetIn(thread[t], l[1], hdcs) /\ thread'[t] = thread[t]
        BY <1>1, <2>2 DEF LInv
      <3> QED BY <3>1 DEF LetIn
    <2> QED BY <2>1, <2>2
  <1> QED BY <1>1 DEF LInv

\* The same for a step of one login.
LEMMA LoggedOne ==
  ASSUME LInv, BInv', IsFiniteSet(hdcs'), hdcs \subseteq hdcs', NEW l \in Logins, NEW q, Goes(l, q),
         q.pc = "logging" => \A t \in q.call : LetIn(thread'[t], l[1], hdcs'),
         \A m \in Logins \ {l} : login[m].pc = "logging" =>
            \A t \in login[m].call : thread'[t] = thread[t]
  PROVE  LInv'
  <1>1. login \in [Logins -> LoginType]
    BY BoxTypes DEF LInv
  <1>2. /\ \A m \in Logins \ {l} : login'[m] = login[m]
        /\ \A m \in {l} : login'[m].pc = "logging" =>
              \A t \in login'[m].call : LetIn(thread'[t], m[1], hdcs')
    BY <1>1 DEF Goes
  <1>3. {l} \in SUBSET Logins
    OBVIOUS
  <1> QED BY <1>2, <1>3, LoggedTo

LEMMA LoginsLogged ==
  ASSUME LInv, BInv', IsFiniteSet(hdcs'), NEW l \in Logins,
         Open(l) \/ Box(l) \/ Close(l) \/ Lose(l) \/ Vanish(l) \/ SaveFails(l)
  PROVE  LInv'
  <1>0. /\ BInv /\ IInv /\ login[l] \in LoginType /\ thread \in [Threads -> Request]
        /\ \A m \in Logins : login[m].call \subseteq Threads
    BY BoxTypes DEF LInv, BInv, IInv, TypeOK, LoginType
  <1>1. ASSUME thread' = thread, hdcs' = hdcs, NEW q, Goes(l, q), q.pc # "logging" PROVE LInv'
    BY <1>1, LoggedOne
  <1>2. CASE Open(l)
    <2> DEFINE q == [Off EXCEPT !.pc = "start", !.token = saved[l[1]]]
    <2>1. q.pc = "start"
      BY DEF Off
    <2>2. thread' = thread /\ hdcs' = hdcs /\ Goes(l, q)
      BY <1>2 DEF Open, vars
    <2> HIDE DEF q
    <2> QED BY <1>1, <2>1, <2>2
  <1>3. CASE Close(l)
    <2>1. thread' = thread /\ hdcs' = hdcs /\ Goes(l, Off) /\ Off.pc = "off"
      BY <1>3 DEF Close, vars, Off
    <2> QED BY <1>1, <2>1
  <1>4. CASE Lose(l)
    <2> DEFINE q == [login[l] EXCEPT !.pc = "over", !.call = {}]
    <2>1. q.pc = "over"
      BY <1>0 DEF LoginType
    <2>2. thread' = thread /\ hdcs' = hdcs /\ Goes(l, q)
      BY <1>4 DEF Lose, tables
    <2> HIDE DEF q
    <2> QED BY <1>1, <2>1, <2>2
  <1>5. CASE SaveFails(l)
    <2> DEFINE q == [login[l] EXCEPT !.pc = "over"]
    <2>1. q.pc = "over"
      BY <1>0 DEF LoginType
    <2>2. thread' = thread /\ hdcs' = hdcs /\ Goes(l, q)
      BY <1>5 DEF SaveFails, tables
    <2> HIDE DEF q
    <2> QED BY <1>1, <2>1, <2>2
  <1>6. CASE Truncate(l)
    <2> DEFINE q == [login[l] EXCEPT !.pc = "write"]
    <2>1. q.pc = "write"
      BY <1>0 DEF LoginType
    <2>2. thread' = thread /\ hdcs' = hdcs /\ Goes(l, q)
      BY <1>6 DEF Truncate, vars
    <2> HIDE DEF q
    <2> QED BY <1>1, <2>1, <2>2
  <1>7. CASE Save(l)
    <2> DEFINE pc == IF login[l].token = 0 THEN "over" ELSE "registered"
               q == [login[l] EXCEPT !.pc = pc]
    <2>1. q.pc = pc /\ pc # "logging"
      BY <1>0 DEF LoginType
    <2>2. thread' = thread /\ hdcs' = hdcs /\ Goes(l, q)
      BY <1>7 DEF Save, vars
    <2> HIDE DEF q
    <2> QED BY <1>1, <2>1, <2>2
  <1>8. CASE SendRegister(l)
    <2>1. PICK t \in Threads :
            Register(t, l[1]) /\ Goes(l, [login[l] EXCEPT !.pc = "registering", !.call = {t}])
      BY <1>8 DEF SendRegister
    <2> DEFINE q == [login[l] EXCEPT !.pc = "registering", !.call = {t}]
    <2>2. q.pc = "registering"
      BY <1>0 DEF LoginType
    <2>3. hdcs' = hdcs /\ thread[t].pc = "idle" /\ \A s \in Threads \ {t} : thread'[s] = thread[s]
      BY <1>0, <2>1 DEF Register, Accept, Become
    <2>4. ASSUME NEW m \in Logins, login[m].pc = "logging", NEW s \in login[m].call
          PROVE  thread'[s] = thread[s]
      BY <1>0, <2>3, <2>4 DEF LInv, LetIn
    <2> HIDE DEF q
    <2> QED BY <2>1, <2>2, <2>3, <2>4, LoggedOne DEF q
  <1>9. CASE SendLogin(l)
    <2>1. /\ login[l].token # 0
          /\ \E t \in Threads :
                /\ Login(t, l[1], login[l].token)
                /\ Goes(l, [login[l] EXCEPT !.pc = "logging", !.call = {t}])
      BY <1>9 DEF SendLogin
    <2>2. PICK t \in Threads :
                /\ Login(t, l[1], login[l].token)
                /\ Goes(l, [login[l] EXCEPT !.pc = "logging", !.call = {t}])
      BY <2>1
    <2> DEFINE q == [login[l] EXCEPT !.pc = "logging", !.call = {t}]
    <2>3. q.call = {t}
      BY <1>0 DEF LoginType
    <2>4. LetIn(thread'[t], l[1], hdcs')
      BY <1>0, <2>1, <2>2, LoginLetsIn
    <2>5. hdcs' = hdcs /\ thread[t].pc = "idle" /\ \A s \in Threads \ {t} : thread'[s] = thread[s]
      BY <1>0, <2>2 DEF Login, Accept, Become, tables
    <2>6. ASSUME NEW m \in Logins, login[m].pc = "logging", NEW s \in login[m].call
          PROVE  thread'[s] = thread[s]
      BY <1>0, <2>5, <2>6 DEF LInv, LetIn
    <2> HIDE DEF q
    <2> QED BY <2>2, <2>3, <2>4, <2>5, <2>6, LoggedOne DEF q
  <1>10. CASE ReceiveRegister(l)
    <2>1. PICK t \in login[l].call :
            Send(t) /\ Goes(l, [Off EXCEPT !.pc = "save", !.token = thread[t].token])
      BY <1>10 DEF ReceiveRegister
    <2> DEFINE q == [Off EXCEPT !.pc = "save", !.token = thread[t].token]
    <2>2. q.pc = "save"
      BY DEF Off
    <2>3. hdcs' = hdcs /\ \A s \in Threads \ {t} : thread'[s] = thread[s]
      BY <1>0, <2>1 DEF Send, Become, Reads
    <2>4. ASSUME NEW m \in Logins \ {l}, NEW s \in login[m].call PROVE thread'[s] = thread[s]
      BY <1>0, <2>1, <2>3 DEF BInv
    <2> HIDE DEF q
    <2> QED BY <2>1, <2>2, <2>3, <2>4, LoggedOne DEF q
  <1>11. CASE ReceiveLogin(l)
    <2>1. PICK t \in login[l].call :
            /\ Send(t)
            /\ Goes(l, [login[l] EXCEPT !.pc = "over", !.call = {},
                                        !.ok = thread[t].answer = "OK"])
      BY <1>11 DEF ReceiveLogin
    <2> DEFINE ok == thread[t].answer = "OK"
               q == [login[l] EXCEPT !.pc = "over", !.call = {}, !.ok = ok]
    <2> HIDE DEF ok
    <2>2. q.pc = "over"
      BY <1>0 DEF LoginType
    <2>3. hdcs' = hdcs /\ \A s \in Threads \ {t} : thread'[s] = thread[s]
      BY <1>0, <2>1 DEF Send, Become, Reads
    <2>4. ASSUME NEW m \in Logins \ {l}, NEW s \in login[m].call PROVE thread'[s] = thread[s]
      BY <1>0, <2>1, <2>3 DEF BInv
    <2>5. Goes(l, q)
      BY <2>1 DEF ok
    <2> HIDE DEF q
    <2> QED BY <2>2, <2>3, <2>4, <2>5, LoggedOne
  <1>12. CASE Vanish(l)
    <2> DEFINE q == [login[l] EXCEPT !.call = {}]
    <2>1. q.call = {}
      BY <1>0 DEF LoginType
    <2>2. thread' = thread /\ hdcs' = hdcs /\ Goes(l, q)
      BY <1>12 DEF Vanish, tables
    <2> HIDE DEF q
    <2> QED BY <2>1, <2>2, LoggedOne
  <1> QED BY <1>2, <1>3, <1>4, <1>5, <1>6, <1>7, <1>8, <1>9, <1>10, <1>11, <1>12 DEF Box

LEMMA LoggedInit == BoxInit => LInv
  <1> SUFFICES ASSUME BoxInit PROVE LInv
    OBVIOUS
  <1>1. hdcs = {} /\ \A l \in Logins : login[l].pc = "off"
    BY OffType DEF BoxInit, Init
  <1> QED BY <1>1, BoxInitInv, FS_EmptySet DEF LInv

LEMMA LoggedNext == LInv /\ [BoxNext]_allVars => LInv'
  <1> SUFFICES ASSUME LInv, [BoxNext]_allVars PROVE LInv'
    OBVIOUS
  <1>1. BInv /\ BInv' /\ IsFiniteSet(hdcs')
    BY BoxNextInv, HdcsStayFinite DEF LInv
  <1>2. CASE UNCHANGED allVars \/ Rest
    <2>1. UNCHANGED <<hdcs, thread, login>>
      BY <1>2 DEF allVars, boxVars, vars, Rest
    <2> QED BY <1>1, <2>1 DEF LInv
  <1>3. CASE \E t \in Threads : Server(t)
    <2>1. PICK t \in Threads : Server(t)
      BY <1>3
    <2>2. /\ login' = login /\ hdcs \subseteq hdcs'
          /\ \A s \in Threads \ {t} : thread'[s] = thread[s]
      BY <1>1, <2>1, HdcsGrow, OthersStay DEF Server, boxVars, BInv
    <2>3. ASSUME NEW l \in Logins, login[l].pc = "logging", NEW s \in login[l].call
          PROVE  thread'[s] = thread[s]
      <3>1. s \in Threads /\ thread[s].pc = "answer"
        BY <1>1, <2>3, BoxTypes DEF LInv, LetIn, LoginType
      <3> QED BY <1>1, <2>1, <2>2, <2>3, <3>1, AnsweredWaits
    <2>4. {} \in SUBSET Logins
      OBVIOUS
    <2> QED BY <1>1, <2>2, <2>3, <2>4, LoggedTo
  <1>4. CASE \E l \in Logins : Open(l) \/ Box(l) \/ Close(l) \/ Lose(l) \/ Vanish(l) \/ SaveFails(l)
    BY <1>1, <1>4, LoginsLogged
  <1>5. CASE \E d \in Devices : Die(d)
    <2>1. PICK d \in Devices : Die(d)
      BY <1>5
    <2>2. UNCHANGED <<hdcs, thread>> /\ \A l \in Logins : login'[l] \in {login[l], Off}
      BY <2>1 DEF Die, tables
    <2>3. \A l \in Logins : login'[l].pc = "logging" => login'[l] = login[l]
      BY <2>2, OffType
    <2> QED BY <1>1, <2>2, <2>3 DEF LInv
  <1>6. CASE ServerCrash
    <2>1. ASSUME NEW l \in Logins PROVE login'[l].call = {}
      <3>1. CASE login[l].call = {}
        BY <1>6, <3>1 DEF ServerCrash
      <3>2. CASE login[l].call # {}
        <4> DEFINE q == [login[l] EXCEPT !.pc = "over", !.call = {}]
        <4>1. login'[l] = q
          BY <1>6, <3>2 DEF ServerCrash
        <4>2. q.call = {}
          BY <1>1, BoxTypes DEF LoginType
        <4> HIDE DEF q
        <4> QED BY <4>1, <4>2
      <3> QED BY <3>1, <3>2
    <2> QED BY <1>1, <2>1 DEF LInv
  <1> QED BY <1>2, <1>3, <1>4, <1>5, <1>6 DEF BoxNext

\* A login ends without a failure by an answer.
LEMMA EndsAnswered ==
  ASSUME BInv, [BoxNext]_allVars, faults' = faults, NEW l \in Logins,
         login[l].pc = "logging", login'[l].pc = "over"
  PROVE  ReceiveLogin(l)
  <1>0. /\ login \in [Logins -> LoginType] /\ faults \in Nat
        /\ login'[l] # login[l]
    BY BoxTypes DEF BInv, IInv, TypeOK
  <1>1. ~UNCHANGED allVars /\ ~Rest /\ ~\E t \in Threads : Server(t)
    BY <1>0 DEF allVars, boxVars, Rest, Server
  <1>2. ~(\E d \in Devices : Die(d)) /\ ~ServerCrash
    <2>1. ~(faults' = faults + 1)
      BY <1>0
    <2>2. ~\E d \in Devices : Die(d)
      BY <2>1 DEF Die, Fails
    <2>3. ~ServerCrash
      BY <2>1 DEF ServerCrash, Crash
    <2> QED BY <2>2, <2>3
  <1>3. PICK m \in Logins : Open(m) \/ Box(m) \/ Close(m) \/ Lose(m) \/ Vanish(m) \/ SaveFails(m)
    BY <1>1, <1>2 DEF BoxNext
  <1>4. ~Lose(m) /\ ~Vanish(m) /\ ~SaveFails(m)
    BY <1>0 DEF Lose, Vanish, SaveFails, Fails
  <1>5. m = l
    <2>1. \E q : Goes(m, q)
      BY <1>3, <1>4 DEF Open, Box, Close, SendRegister, ReceiveRegister, Truncate, Save, SendLogin,
         ReceiveLogin
    <2> QED BY <1>0, <2>1 DEF Goes
  <1> QED BY <1>3, <1>4, <1>5 DEF Open, Box, Close, SendRegister, ReceiveRegister, Truncate, Save,
          SendLogin

\* A box that sends its token is let in, unless the device has two rows: whatever
\* happens while the answer is on its way (DatacenterAuth, HdcManager.login).
THEOREM TokenAlwaysOpens == BoxSpec => TokenOpens
  <1> DEFINE Step == \A l \in Logins :
                        /\ login[l].pc = "logging" /\ login'[l].pc = "over" /\ faults' = faults
                        /\ Cardinality(RowsOf(l[1])) = 1
                        => login'[l].ok
  <1>1. LInv /\ [BoxNext]_allVars => [Step]_allVars
    <2> SUFFICES ASSUME LInv, [BoxNext]_allVars, NEW l \in Logins,
                        login[l].pc = "logging", login'[l].pc = "over", faults' = faults,
                        Cardinality(RowsOf(l[1])) = 1
                 PROVE  login'[l].ok
      OBVIOUS
    <2>1. BInv /\ login \in [Logins -> LoginType] /\ login[l] \in LoginType
      BY BoxTypes DEF LInv
    <2>2. PICK t \in login[l].call :
            Goes(l, [login[l] EXCEPT !.pc = "over", !.call = {}, !.ok = thread[t].answer = "OK"])
      BY <2>1, EndsAnswered DEF ReceiveLogin
    <2>3. ~\E h, k \in hdcs : h # k /\ h.device = l[1] /\ k.device = l[1]
      <3>1. RowsOf(l[1]) \in SUBSET hdcs /\ IsFiniteSet(hdcs)
        BY DEF RowsOf, LInv
      <3>2. IsFiniteSet(RowsOf(l[1]))
        BY <3>1, FS_Subset
      <3>3. PICK x : RowsOf(l[1]) = {x}
        BY <3>2, FS_Singleton
      <3>4. \A h \in hdcs : h.device = l[1] => h = x
        BY <3>3 DEF RowsOf
      <3> QED BY <3>4
    <2>4. thread[t].answer = "OK"
      BY <2>2, <2>3 DEF LInv, LetIn
    <2> DEFINE ok == thread[t].answer = "OK"
               q == [login[l] EXCEPT !.pc = "over", !.call = {}, !.ok = ok]
    <2>5. login'[l] = q
      BY <2>1, <2>2 DEF Goes
    <2>6. ok
      BY <2>4
    <2> HIDE DEF ok
    <2>7. q.ok = ok
      BY <2>1 DEF LoginType
    <2> HIDE DEF q
    <2> QED BY <2>5, <2>6, <2>7
  <1> QED BY <1>1, LoggedInit, LoggedNext, PTL DEF BoxSpec, TokenOpens

=============================================================================
