----------------------------- MODULE HomeCenter -----------------------------
(***************************************************************************)
(* The server side of the home data centres: the tables Hdc (a device and  *)
(* the token it logs in with) and HdcBinding (a user's tie to a device),   *)
(* and the servlet threads that serve HdcManager's operations.             *)
(*                                                                         *)
(* As in FileStore, one action is one transaction with the local           *)
(* computation around it.  The ids and tokens HashUtil.getRandomId draws   *)
(* are numbered in the order they are drawn.                               *)
(***************************************************************************)
EXTENDS Naturals, FiniteSets

CONSTANTS
    Devices,     \* home data centres
    Users,       \* users with a valid session
    Threads,     \* servlet threads
    Ops,         \* the kinds of request clients send
    NewStatuses, \* what clients pass as new_status
    MaxRequests, \* bound on the number of requests accepted
    MaxFaults    \* bound on the number of lost replies, deaths and crashes

ASSUME BoundAssumption == MaxRequests \in Nat /\ MaxFaults \in Nat

VARIABLES
    hdcs,     \* the table Hdc
    bindings, \* the table HdcBinding
    minted,   \* how many random ids have been drawn
    thread,   \* what each servlet thread is doing
    served,   \* requests accepted so far
    faults    \* faults so far

tables == <<hdcs, bindings, minted>>

vars == <<hdcs, bindings, minted, thread, served, faults>>

-----------------------------------------------------------------------------

\* A row that register inserts has the device for its id, one that active
\* inserts a random id.
ById(d) == [by |-> {d}, random |-> 0]
Random(n) == [by |-> {}, random |-> n]

Hdc(id, d, token) == [id |-> id, device |-> d, token |-> token]

HdcRow == [id : [by : SUBSET Devices, random : Nat], device : Devices, token : Nat]

BindingRow == [id : Nat, device : Devices, user : Users, status : NewStatuses \cup {"request"}]

Answers == {"OK", "NAME_DUP", "NOT_FOUND", "AUTH_ERROR", "DEVICE_ERROR", "exception"}

\* row is a set: empty, or the one row the thread holds.
Idle == [pc |-> "idle", op |-> "none", device |-> {}, user |-> {}, row |-> {},
         status |-> "none", answer |-> "none", token |-> 0]

Become(t, r) == thread' = [thread EXCEPT ![t] = r]

At(t, op, pc) == thread[t].op = op /\ thread[t].pc = pc

Accept(t, op) ==
    /\ op \in Ops
    /\ thread[t].pc = "idle"
    /\ served < MaxRequests
    /\ served' = served + 1
    /\ UNCHANGED faults

\* The request is over: its answer waits to be sent.
Answer(op, answer, token) == [Idle EXCEPT !.pc = "answer", !.op = op, !.answer = answer,
                                          !.token = token]

Reads == UNCHANGED <<hdcs, bindings, minted, served, faults>>

\* getHdc and getHdcBinding ask for one row, in no order
RowsOf(d) == {h \in hdcs : h.device = d}
BindingsOf(u, d) == {b \in bindings : b.user = u /\ b.device = d}

-----------------------------------------------------------------------------
(* register, active and login of a device                                  *)

\* Mutant of Register: the row gets a random id, as active's does.
RegisterRandomId(t, d) ==
    /\ Accept(t, "register")
    /\ IF RowsOf(d) # {}
       THEN Become(t, Answer("register", "NAME_DUP", 0)) /\ UNCHANGED minted
       ELSE /\ Become(t, [Idle EXCEPT !.pc = "insert", !.op = "register",
                              !.row = {Hdc(Random(minted + 1), d, minted + 2)}])
            /\ minted' = minted + 2
    /\ UNCHANGED <<hdcs, bindings>>

\* Looks the device up; the token is drawn before the insert.
Register(t, d) ==
    /\ Accept(t, "register")
    /\ IF RowsOf(d) # {}
       THEN Become(t, Answer("register", "NAME_DUP", 0)) /\ UNCHANGED minted
       ELSE /\ Become(t, [Idle EXCEPT !.pc = "insert", !.op = "register",
                              !.row = {Hdc(ById(d), d, minted + 1)}])
            /\ minted' = minted + 1
    /\ UNCHANGED <<hdcs, bindings>>

\* active and heartbeat: the same with a random id, and the token of a device
\* that is there is told to whoever asks.
Active(t, d) ==
    /\ Accept(t, "active")
    /\ IF RowsOf(d) # {}
       THEN /\ \E h \in RowsOf(d) : Become(t, Answer("active", "OK", h.token))
            /\ UNCHANGED minted
       ELSE /\ Become(t, [Idle EXCEPT !.pc = "insert", !.op = "active",
                              !.row = {Hdc(Random(minted + 1), d, minted + 2)}])
            /\ minted' = minted + 2
    /\ UNCHANGED <<hdcs, bindings>>

\* Mutant of DeviceInsert: register saves over the row another request inserted.
DeviceInsertOver(t) ==
    LET r == thread[t]
    IN  /\ r.op \in {"register", "active"} /\ r.pc = "insert"
        /\ \E new \in r.row :
              /\ hdcs' = {h \in hdcs : h.id # new.id} \cup {new}
              /\ Become(t, Answer(r.op, "OK", new.token))
        /\ UNCHANGED <<bindings, minted, served, faults>>

\* Mutant of DeviceInsert: an insert that is refused is tried again.
DeviceInsertRetry(t) ==
    LET r == thread[t]
    IN  /\ r.op \in {"register", "active"} /\ r.pc = "insert"
        /\ \E new \in r.row :
              IF \E h \in hdcs : h.id = new.id
              THEN UNCHANGED <<thread, hdcs>>
              ELSE Become(t, Answer(r.op, "OK", new.token)) /\ hdcs' = hdcs \cup {new}
        /\ UNCHANGED <<bindings, minted, served, faults>>

\* The primary key refuses a second row of one id: an exception nobody catches.
DeviceInsert(t) ==
    LET r == thread[t]
    IN  /\ r.op \in {"register", "active"} /\ r.pc = "insert"
        /\ \E new \in r.row :
              IF \E h \in hdcs : h.id = new.id
              THEN Become(t, Answer(r.op, "exception", 0)) /\ UNCHANGED hdcs
              ELSE Become(t, Answer(r.op, "OK", new.token)) /\ hdcs' = hdcs \cup {new}
        /\ UNCHANGED <<bindings, minted, served, faults>>

Login(t, d, token) ==
    /\ Accept(t, "login")
    /\ \/ /\ \E h \in RowsOf(d) :
                Become(t, Answer("login", IF h.token = token THEN "OK" ELSE "AUTH_ERROR", 0))
       \/ /\ RowsOf(d) = {}
          /\ Become(t, Answer("login", "AUTH_ERROR", 0))
    /\ UNCHANGED tables

-----------------------------------------------------------------------------
(* bind, cancel_binding and update_binding_status                          *)

\* The user, whose session is valid, is found; the device is looked for next.
Bind(t, d, u) ==
    /\ Accept(t, "bind")
    /\ Become(t, [Idle EXCEPT !.pc = "device", !.op = "bind", !.device = {d}, !.user = {u}])
    /\ UNCHANGED tables

BindDevice(t) ==
    LET r == thread[t]
    IN  /\ At(t, "bind", "device")
        /\ \E d \in r.device :
              Become(t, [r EXCEPT !.pc = "probe",
                             !.status = IF RowsOf(d) = {} THEN "NOT_FOUND" ELSE "found"])
        /\ Reads

\* Mutant of BindProbe: the device that was not found is bound all the same.
BindProbeBlind(t) ==
    LET r == thread[t]
    IN  /\ At(t, "bind", "probe")
        /\ \E d \in r.device, u \in r.user :
              \/ BindingsOf(u, d) # {} /\ Become(t, Answer("bind", "NAME_DUP", 0))
              \/ BindingsOf(u, d) = {} /\ Become(t, [r EXCEPT !.pc = "insert"])
        /\ Reads

\* Mutant of BindProbe: an existing binding is not noticed.
BindProbeAgain(t) ==
    LET r == thread[t]
    IN  /\ At(t, "bind", "probe")
        /\ \/ r.status = "NOT_FOUND" /\ Become(t, Answer("bind", "NOT_FOUND", 0))
           \/ r.status = "found" /\ Become(t, [r EXCEPT !.pc = "insert"])
        /\ Reads

\* A device that was not found is reported after the bindings are read.
BindProbe(t) ==
    LET r == thread[t]
    IN  /\ At(t, "bind", "probe")
        /\ \E d \in r.device, u \in r.user :
              \/ r.status = "NOT_FOUND" /\ Become(t, Answer("bind", "NOT_FOUND", 0))
              \/ /\ r.status = "found" /\ BindingsOf(u, d) # {}
                 /\ Become(t, Answer("bind", "NAME_DUP", 0))
              \/ /\ r.status = "found" /\ BindingsOf(u, d) = {}
                 /\ Become(t, [r EXCEPT !.pc = "insert"])
        /\ Reads

\* Mutant of BindInsert: the new binding is approved at once, under a status
\* that no reader knows.
BindInsertBound(t) ==
    LET r == thread[t]
    IN  /\ At(t, "bind", "insert")
        /\ minted' = minted + 1
        /\ \E d \in r.device, u \in r.user :
              bindings' = bindings \cup
                  {[id |-> minted + 1, device |-> d, user |-> u, status |-> "bound"]}
        /\ Become(t, Answer("bind", "OK", 0))
        /\ UNCHANGED <<hdcs, served, faults>>

BindInsert(t) ==
    LET r == thread[t]
    IN  /\ At(t, "bind", "insert")
        /\ minted' = minted + 1
        /\ \E d \in r.device, u \in r.user :
              bindings' = bindings \cup
                  {[id |-> minted + 1, device |-> d, user |-> u, status |-> "request"]}
        /\ Become(t, Answer("bind", "OK", 0))
        /\ UNCHANGED <<hdcs, served, faults>>

Cancel(t, d, u) ==
    /\ Accept(t, "cancel")
    /\ \/ /\ BindingsOf(u, d) = {}
          /\ Become(t, Answer("cancel", "DEVICE_ERROR", 0))
       \/ \E b \in BindingsOf(u, d) :
             Become(t, [Idle EXCEPT !.pc = "delete", !.op = "cancel", !.row = {b}])
    /\ UNCHANGED tables

\* Deleting a row that is gone is an exception in Hibernate.
CancelDelete(t) ==
    LET r == thread[t]
    IN  /\ At(t, "cancel", "delete")
        /\ \E b \in r.row :
              LET there == {c \in bindings : c.id = b.id}
              IN /\ bindings' = bindings \ there
                 /\ Become(t, Answer("cancel", IF there = {} THEN "exception" ELSE "OK", 0))
        /\ UNCHANGED <<hdcs, minted, served, faults>>

\* The device is looked up by its token, then the user's binding.
Update(t, d, token, u, s) ==
    /\ Accept(t, "update")
    /\ IF \E h \in RowsOf(d) : h.token = token
       THEN Become(t, [Idle EXCEPT !.pc = "probe", !.op = "update", !.device = {d},
                           !.user = {u}, !.status = s])
       ELSE Become(t, Answer("update", "DEVICE_ERROR", 0))
    /\ UNCHANGED tables

UpdateProbe(t) ==
    LET r == thread[t]
    IN  /\ At(t, "update", "probe")
        /\ \E d \in r.device, u \in r.user :
              \/ BindingsOf(u, d) = {} /\ Become(t, Answer("update", "DEVICE_ERROR", 0))
              \/ \E b \in BindingsOf(u, d) :
                    Become(t, [Idle EXCEPT !.pc = "merge", !.op = "update",
                                   !.row = {[b EXCEPT !.status = r.status]}])
        /\ Reads

\* merge writes the row, and inserts it again if it was deleted meanwhile.
UpdateMerge(t) ==
    LET r == thread[t]
    IN  /\ At(t, "update", "merge")
        /\ \E b \in r.row : bindings' = {c \in bindings : c.id # b.id} \cup {b}
        /\ Become(t, Answer("update", "OK", 0))
        /\ UNCHANGED <<hdcs, minted, served, faults>>

-----------------------------------------------------------------------------
\* The answer is sent; whether it arrives is another matter.
Send(t) ==
    /\ thread[t].pc = "answer"
    /\ Become(t, Idle)
    /\ Reads

\* A call of the database throws: the request ends with what it has committed.
Abort(t) ==
    /\ thread[t].pc \notin {"idle", "answer"}
    /\ Become(t, Answer(thread[t].op, "exception", 0))
    /\ faults < MaxFaults /\ faults' = faults + 1
    /\ UNCHANGED <<hdcs, bindings, minted, served>>

\* The server stops and is started again.
Crash ==
    /\ thread' = [t \in Threads |-> Idle]
    /\ faults < MaxFaults /\ faults' = faults + 1
    /\ UNCHANGED <<hdcs, bindings, minted, served>>

\* Requests from clients other than the boxes: what they send is not bounded by
\* what they know, tokens included.
Begin(t) ==
    \/ \E d \in Devices : Active(t, d)
    \/ \E d \in Devices, u \in Users : Bind(t, d, u) \/ Cancel(t, d, u)
    \/ \E d \in Devices, u \in Users, s \in NewStatuses, token \in 1..minted :
          Update(t, d, token, u, s)

\* Requests of the boxes
BoxBegin(t) == \E d \in Devices : Register(t, d) \/ \E token \in 0..minted : Login(t, d, token)

Continue(t) ==
    \/ DeviceInsert(t) \/ BindDevice(t) \/ BindProbe(t) \/ BindInsert(t)
    \/ CancelDelete(t) \/ UpdateProbe(t) \/ UpdateMerge(t)

Init ==
    /\ hdcs = {} /\ bindings = {} /\ minted = 0
    /\ thread = [t \in Threads |-> Idle]
    /\ served = 0 /\ faults = 0

Wait == (\A t \in Threads : thread[t].pc = "idle") /\ UNCHANGED vars

Next ==
    \/ \E t \in Threads : Begin(t) \/ BoxBegin(t) \/ Continue(t) \/ Send(t) \/ Abort(t)
    \/ Crash \/ Wait

Spec == Init /\ [][Next]_vars

-----------------------------------------------------------------------------
(* Properties.                                                             *)

Request == [pc : {"idle", "device", "probe", "insert", "delete", "merge", "answer"},
            op : {"none", "register", "active", "login", "bind", "cancel", "update"},
            device : SUBSET Devices, user : SUBSET Users, row : SUBSET (HdcRow \cup BindingRow),
            status : NewStatuses \cup {"none", "found", "NOT_FOUND"},
            answer : Answers \cup {"none"}, token : Nat]

\* Every variable has its type.
TypeOK ==
    /\ hdcs \subseteq HdcRow
    /\ bindings \subseteq BindingRow
    /\ minted \in Nat
    /\ thread \in [Threads -> Request]
    /\ served \in Nat
    /\ faults \in Nat

\* A binding names a device that is in the table, although bind reads the
\* device, and inserts, in different transactions.
BindingsNamed == \A b \in bindings : RowsOf(b.device) # {}

\* Whoever is told a token by register or active can find it in the table: of
\* two requests that both found the device missing, the one that lost is not
\* answered with the token it drew.
ToldTokensStored ==
    \A t \in Threads :
        thread[t].op \in {"register", "active"} /\ thread[t].answer = "OK" =>
            \E h \in hdcs : h.token = thread[t].token

\* A device has one row, hence one token, as long as it is only registered:
\* register looks and inserts in two transactions, but its rows have the device
\* for their id and the primary key refuses the second.  (Rows that active
\* inserts have random ids; nothing refuses those.)
DevicesUnique == \A h, k \in hdcs : h.device = k.device => h = k

\* HdcManager.java:203, Device.java:316: a user is bound to a device once; a
\* second bind is refused because "the device id has duplicated binding".
BindingsUnique ==
    \A b, c \in bindings : b.user = c.user /\ b.device = c.device => b = c

=============================================================================
