------------------------------- MODULE TVLogin -------------------------------
(***************************************************************************)
(* The login of the TV box to the server (DatacenterAuth, run by a thread  *)
(* that EchoiiTVMainActivity starts when it is created), composed with     *)
(* HomeCenter.  The box keeps the token of its device in a file.  With no  *)
(* token in the file it registers, saves the token it is answered, and     *)
(* logs in; with one it logs in.                                           *)
(*                                                                         *)
(* An activity can be created again while the thread of an earlier one is  *)
(* still at work: a login is named by its device and its activity.         *)
(***************************************************************************)
EXTENDS HomeCenter

CONSTANTS
    Activities, \* activities of one box that may be alive together
    MaxOpens    \* bound on the number of activities created

ASSUME OpensAssumption == MaxOpens \in Nat

VARIABLES
    saved,  \* for each box, the token in .echoii.dev (0: no file, or no token in it)
    login,  \* what each login thread is doing
    opened  \* activities created so far

boxVars == <<saved, login, opened>>

allVars == <<vars, boxVars>>

-----------------------------------------------------------------------------

Logins == Devices \X Activities

Off == [pc |-> "off", token |-> 0, call |-> {}, ok |-> FALSE]

Goes(l, r) == login' = [login EXCEPT ![l] = r]

\* The servlet threads that serve a request some login waits for
Called == UNION {login[l].call : l \in Logins}

Fails == faults < MaxFaults /\ faults' = faults + 1

\* EchoiiTVMainActivity.datacenterLogin reads the file
Open(l) ==
    /\ login[l].pc = "off" /\ opened < MaxOpens
    /\ opened' = opened + 1
    /\ Goes(l, [Off EXCEPT !.pc = "start", !.token = saved[l[1]]])
    /\ UNCHANGED <<vars, saved>>

\* Mutant of SendRegister: the box registers whenever it is started.
SendRegisterAlways(l) ==
    /\ login[l].pc = "start"
    /\ \E t \in Threads :
          Register(t, l[1]) /\ Goes(l, [login[l] EXCEPT !.pc = "registering", !.call = {t}])
    /\ UNCHANGED <<saved, opened>>

SendRegister(l) ==
    /\ login[l].pc = "start" /\ login[l].token = 0
    /\ \E t \in Threads :
          Register(t, l[1]) /\ Goes(l, [login[l] EXCEPT !.pc = "registering", !.call = {t}])
    /\ UNCHANGED <<saved, opened>>

SendLogin(l) ==
    /\ login[l].pc \in {"start", "registered"} /\ login[l].token # 0
    /\ \E t \in Threads :
          /\ Login(t, l[1], login[l].token)
          /\ Goes(l, [login[l] EXCEPT !.pc = "logging", !.call = {t}])
    /\ UNCHANGED <<saved, opened>>

\* The answer to register: a token, or none (the device is known already, or
\* the server failed).
ReceiveRegister(l) ==
    /\ login[l].pc = "registering"
    /\ \E t \in login[l].call :
          /\ Send(t)
          /\ Goes(l, [Off EXCEPT !.pc = "save", !.token = thread[t].token])
    /\ UNCHANGED <<saved, opened>>

\* httpRegister saves what it got, a token or none, over what the file held:
\* the file is opened, which empties it, ...
Truncate(l) ==
    /\ login[l].pc = "save"
    /\ saved' = [saved EXCEPT ![l[1]] = 0]
    /\ Goes(l, [login[l] EXCEPT !.pc = "write"])
    /\ UNCHANGED <<vars, opened>>

\* ... then written.  Without a token the thread ends.
Save(l) ==
    /\ login[l].pc = "write"
    /\ saved' = [saved EXCEPT ![l[1]] = login[l].token]
    /\ Goes(l, [login[l] EXCEPT !.pc = IF login[l].token = 0 THEN "over" ELSE "registered"])
    /\ UNCHANGED <<vars, opened>>

ReceiveLogin(l) ==
    /\ login[l].pc = "logging"
    /\ \E t \in login[l].call :
          /\ Send(t)
          /\ Goes(l, [login[l] EXCEPT !.pc = "over", !.call = {}, !.ok = thread[t].answer = "OK"])
    /\ UNCHANGED <<saved, opened>>

\* The activity is gone and its thread has ended.
Close(l) ==
    /\ login[l].pc = "over"
    /\ Goes(l, Off)
    /\ UNCHANGED <<vars, saved, opened>>

\* Mutant of Lose: the failure is kept as a state of its own.
LoseUnknown(l) ==
    /\ login[l].pc \in {"start", "registering", "registered", "logging"}
    /\ Goes(l, [login[l] EXCEPT !.pc = "failed", !.call = {}])
    /\ Fails
    /\ UNCHANGED <<tables, thread, served, saved, opened>>

\* A request that cannot be sent (the connect timeout included) and a connection
\* that is reset while the answer is awaited are exceptions: the thread ends.
Lose(l) ==
    /\ login[l].pc \in {"start", "registering", "registered", "logging"}
    /\ Goes(l, [login[l] EXCEPT !.pc = "over", !.call = {}])
    /\ Fails
    /\ UNCHANGED <<tables, thread, served, saved, opened>>

\* The answer never comes and nothing tells the box: HttpUtil sets a timeout for
\* connecting and none for reading, so the thread reads for ever.
Vanish(l) ==
    /\ login[l].call # {}
    /\ Goes(l, [login[l] EXCEPT !.call = {}])
    /\ Fails
    /\ UNCHANGED <<tables, thread, served, saved, opened>>

\* Opening the file or writing it fails: the thread ends.
SaveFails(l) ==
    /\ login[l].pc \in {"save", "write"}
    /\ Goes(l, [login[l] EXCEPT !.pc = "over"])
    /\ Fails
    /\ UNCHANGED <<tables, thread, served, saved, opened>>

\* The box is switched off.
Die(d) ==
    /\ \E l \in Logins : l[1] = d /\ login[l].pc # "off"
    /\ login' = [l \in Logins |-> IF l[1] = d THEN Off ELSE login[l]]
    /\ Fails
    /\ UNCHANGED <<tables, thread, served, saved, opened>>

\* The server stops: those who wait for an answer get an exception.
ServerCrash ==
    /\ Crash
    /\ login' = [l \in Logins |-> IF login[l].call = {} THEN login[l]
                                  ELSE [login[l] EXCEPT !.pc = "over", !.call = {}]]
    /\ UNCHANGED <<saved, opened>>

\* Steps of the server that no box takes part in; an answer nobody waits for is
\* sent into the void.
Server(t) ==
    /\ Begin(t) \/ Continue(t) \/ Abort(t) \/ (t \notin Called /\ Send(t))
    /\ UNCHANGED boxVars

Box(l) ==
    \/ SendRegister(l) \/ ReceiveRegister(l) \/ Truncate(l) \/ Save(l)
    \/ SendLogin(l) \/ ReceiveLogin(l)

BoxInit ==
    /\ Init
    /\ saved = [d \in Devices |-> 0]
    /\ login = [l \in Logins |-> Off]
    /\ opened = 0

\* Nobody waits for an answer that is on its way.
Rest == (\A l \in Logins : login[l].call = {}) /\ UNCHANGED allVars

BoxNext ==
    \/ \E t \in Threads : Server(t)
    \/ \E l \in Logins : Open(l) \/ Box(l) \/ Close(l) \/ Lose(l) \/ Vanish(l) \/ SaveFails(l)
    \/ \E d \in Devices : Die(d)
    \/ ServerCrash \/ Rest

BoxSpec == BoxInit /\ [][BoxNext]_allVars

\* The steps by which the server finishes what it has accepted
Serve(t) ==
    /\ Continue(t) \/ (t \notin Called /\ Send(t))
    /\ UNCHANGED boxVars

\* Servlet threads and the threads of the boxes are scheduled; a request that
\* finds the servlet threads busy waits in the queue of the container.
BoxFairness ==
    /\ \A t \in Threads : WF_allVars(Serve(t))
    /\ \A l \in Logins : SF_allVars(Box(l))

BoxFairSpec == BoxSpec /\ BoxFairness

-----------------------------------------------------------------------------
(* Properties.                                                             *)

\* Every variable of the box has its type.
BoxTypeOK ==
    /\ saved \in [Devices -> Nat]
    /\ login \in [Logins -> [pc : {"off", "start", "registering", "save", "write",
                                   "registered", "logging", "over"},
                             token : Nat, call : SUBSET Threads, ok : BOOLEAN]]
    /\ opened \in Nat

Registered(d, token) == \E h \in RowsOf(d) : h.token = token

\* A token in the box's file is one the server has stored for that device,
\* wherever either side was cut off: register answers after it has inserted, and
\* the box saves nothing but an answer.
SavedTokenRegistered == \A d \in Devices : saved[d] # 0 => Registered(d, saved[d])

\* A box with a token is let in: a login that is answered while the server has
\* one row for the device succeeds.
TokenOpens ==
    [][\A l \in Logins :
          /\ login[l].pc = "logging" /\ login'[l].pc = "over" /\ faults' = faults
          /\ Cardinality(RowsOf(l[1])) = 1
          => login'[l].ok]_allVars

\* The thread of l reads an answer that will not come.
Hangs(l) == login[l].pc \in {"registering", "logging"} /\ login[l].call = {}

\* A login that is started ends or hangs for the one reason that the network took
\* its answer (the box sets no read timeout, HttpUtil.java:34): neither the two
\* requests in a row, nor a repeated registration, nor a request that the server
\* fails or that finds its threads busy leaves a login waiting for the server.
LoginsEnd ==
    \A l \in Logins :
        login[l].pc = "start" ~> (login[l].pc \in {"over", "off"} \/ Hangs(l))

\* A registered device still has its token once its activity is closed: the
\* server never tells it again, so it would be locked out for good.  This holds
\* while nothing fails, activities do not overlap and nobody else calls active.
TokenKept ==
    \A d \in Devices :
        /\ faults = 0 /\ RowsOf(d) # {}
        /\ \A l \in Logins : l[1] = d => login[l].pc \in {"off", "over"}
        => saved[d] # 0

=============================================================================
