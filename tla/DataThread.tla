----------------------------- MODULE DataThread -----------------------------
(***************************************************************************)
(* CViewbackDataThread (client/viewback_data.cpp): the life of the data    *)
(* threads and of their connection.  The main thread calls Connect,        *)
(* Disconnect, Shutdown, GetData and SendConsoleCommand; Connect joins the *)
(* previous data thread, resets the drop boxes, connects the socket,       *)
(* creates a thread and only then sets s_bConnected.  The drop boxes are   *)
(* those of DropBox.tla; here their thread is started and stopped by the   *)
(* code that is supposed to keep one thread at a time.                     *)
(*                                                                         *)
(* pthread_create promises nothing of when the new thread first runs: it   *)
(* may end before the Connect that created it has returned (stillborn), or *)
(* be found not yet running by a later Connect, which then believes that   *)
(* there is no thread to wait for (overtaken).  Both are behaviours of the *)
(* model; the properties say what they cost.                               *)
(***************************************************************************)
EXTENDS Naturals, Sequences

CONSTANTS Threads, Commands, NoCommand, MaxBatch, MaxPackets, MaxCommands,
          NoThread       \* m_iThread before the first connection

ASSUME BoundsAssumption ==
  MaxBatch \in Nat /\ MaxPackets \in Nat /\ MaxCommands \in Nat

ASSUME ThreadsAssumption == NoThread \notin Threads

VARIABLES
  messages, dataDrop, dataDropReady, commandDrop, commandDropReady,
  dataPc, mainPc, temp, command,
  received, delivered, accepted, sent,    \* see DropBox
  running,       \* s_bRunning
  connected,     \* s_bConnected
  disconnect,    \* s_bDisconnect
  socket,        \* m_socket: "none", "open" or "closed"
  iThread,       \* m_iThread, the last thread created
  threadPc,      \* the life of each thread
  connectPc,     \* where the main thread stands in Connect or Shutdown
  stillborn,     \* history: the thread last created left its loop before
                 \* Connect had set s_bConnected
  overtaken      \* history: some Connect tested s_bRunning after a thread was
                 \* created and before that thread had set it

(* A packet is named for the connection, that is the thread, it came on.   *)
Drop == INSTANCE DropBox WITH Packets <- Threads

dropVars == <<messages, dataDrop, dataDropReady, commandDrop, commandDropReady,
              dataPc, mainPc, temp, command, received, delivered, accepted, sent>>
flagVars == <<running, connected, disconnect>>
history  == <<stillborn, overtaken>>
lifeVars == <<flagVars, socket, iThread, threadPc, connectPc, history>>
vars     == <<dropVars, lifeVars>>

ThreadPcs  == {"none", "created", "loop", "closing", "stopping", "gone", "joined"}
ConnectPcs == {"none", "assert", "join", "socket", "connect", "create", "created",
               "shutdownJoin", "lost"}

TypeOK ==
  /\ Drop!TypeOK
  /\ running \in BOOLEAN
  /\ connected \in BOOLEAN
  /\ disconnect \in BOOLEAN
  /\ socket \in {"none", "open", "closed"}
  /\ iThread \in Threads \cup {NoThread}
  /\ threadPc \in [Threads -> ThreadPcs]
  /\ connectPc \in ConnectPcs
  /\ stillborn \in BOOLEAN
  /\ overtaken \in BOOLEAN
  /\ \A t \in Threads : dataPc[t] # "off" <=> threadPc[t] = "loop"
  /\ iThread = NoThread => \A t \in Threads : threadPc[t] = "none"

Init ==
  /\ Drop!Init
  /\ running = FALSE
  /\ connected = FALSE
  /\ disconnect = FALSE
  /\ socket = "none"
  /\ iThread = NoThread
  /\ threadPc = [t \in Threads |-> "none"]
  /\ connectPc = "none"
  /\ stillborn = FALSE
  /\ overtaken = FALSE

ThreadGoto(t, from, to) ==
  /\ threadPc[t] = from
  /\ threadPc' = [threadPc EXCEPT ![t] = to]

ConnectGoto(from, to) == connectPc = from /\ connectPc' = to

(* The main thread is in none of the functions of the class. *)
MainIdle == mainPc = "idle" /\ connectPc = "none"

-----------------------------------------------------------------------------
(* Connect and Initialize, in the main thread. *)

Unused == {t \in Threads : threadPc[t] = "none"}

(* Faulty variant: the old thread is never waited for. *)
CallConnectNoJoin ==
  /\ MainIdle
  /\ connectPc' = "socket"
  /\ UNCHANGED <<dropVars, flagVars, socket, iThread, threadPc, history>>

(* if (s_bRunning), the test of Connect.  Bound: Connect is called while   *)
(* there are Threads left.                                                 *)
CallConnect ==
  /\ MainIdle /\ Unused # {}
  /\ connectPc' = IF running THEN "assert" ELSE "socket"
  /\ overtaken' = (overtaken \/ (~running /\ \E t \in Threads : threadPc[t] = "created"))
  /\ UNCHANGED <<dropVars, flagVars, socket, iThread, threadPc, stillborn>>

(* Faulty variant: the thread is joined without being told to end. *)
OrderDisconnectNot ==
  /\ ConnectGoto("assert", "join")
  /\ UNCHANGED <<dropVars, flagVars, socket, iThread, threadPc, history>>

(* VBAssert(!s_bConnected); s_bDisconnect = true *)
OrderDisconnect ==
  /\ ConnectGoto("assert", "join")
  /\ disconnect' = TRUE
  /\ UNCHANGED <<dropVars, running, connected, socket, iThread, threadPc, history>>

(* pthread_join, in Connect and in Shutdown: waits for the thread last     *)
(* created.                                                                *)
AfterJoin == IF connectPc = "join" THEN "socket" ELSE "none"

Join ==
  /\ connectPc \in {"join", "shutdownJoin"} /\ connectPc' = AfterJoin
  /\ iThread \in Threads /\ ThreadGoto(iThread, "gone", "joined")
  /\ UNCHANGED <<dropVars, flagVars, socket, iThread, history>>

(* m_iThread names a thread that was joined before, which only happens once *)
(* a thread was overtaken: undefined.  The call returns an error, or the    *)
(* main thread is never heard of again.                                     *)
JoinAgain ==
  /\ connectPc \in {"join", "shutdownJoin"} /\ connectPc' \in {AfterJoin, "lost"}
  /\ iThread \in Threads /\ threadPc[iThread] = "joined"
  /\ UNCHANGED <<dropVars, flagVars, socket, iThread, threadPc, history>>

(* socket() fails: the return value is stored in m_socket all the same. *)
SocketFails ==
  /\ ConnectGoto("socket", "none")
  /\ disconnect' = FALSE
  /\ socket' = "none"
  /\ UNCHANGED <<dropVars, running, connected, iThread, threadPc, history>>

(* A new socket; the drops are cleared and the flags set anew. *)
OpenSocket ==
  /\ ConnectGoto("socket", "connect")
  /\ disconnect' = FALSE
  /\ socket' = "open"
  /\ connected' = FALSE
  /\ Drop!Reset
  /\ UNCHANGED <<running, iThread, threadPc, history>>

(* connect() or pthread_create() fails: CCleanupSocket closes the socket. *)
ConnectFails ==
  /\ connectPc \in {"connect", "create"} /\ connectPc' = "none"
  /\ socket' = "closed"
  /\ UNCHANGED <<dropVars, flagVars, iThread, threadPc, history>>

ConnectSucceeds ==
  /\ ConnectGoto("connect", "create")
  /\ UNCHANGED <<dropVars, flagVars, socket, iThread, threadPc, history>>

(* pthread_create; from here the new thread may run, and end. *)
CreateThread(t) ==
  /\ ConnectGoto("create", "created")
  /\ ThreadGoto(t, "none", "created")
  /\ iThread' = t
  /\ stillborn' = FALSE
  /\ UNCHANGED <<dropVars, flagVars, socket, overtaken>>

(* s_bConnected = true; return true *)
SetConnected ==
  /\ ConnectGoto("created", "none")
  /\ connected' = TRUE
  /\ UNCHANGED <<dropVars, running, disconnect, socket, iThread, threadPc, history>>

Connect ==
  \/ CallConnect \/ OrderDisconnect \/ SocketFails \/ OpenSocket \/ ConnectFails \/ ConnectSucceeds
  \/ (\E t \in Threads : CreateThread(t)) \/ SetConnected

(* Disconnect *)
Disconnect ==
  /\ MainIdle
  /\ disconnect' = TRUE
  /\ UNCHANGED <<dropVars, running, connected, socket, iThread, threadPc, connectPc, history>>

(* if (s_bRunning) s_bDisconnect = true, then pthread_join. *)
CallShutdown ==
  /\ MainIdle /\ running
  /\ connectPc' = "shutdownJoin"
  /\ disconnect' = TRUE
  /\ UNCHANGED <<dropVars, running, connected, socket, iThread, threadPc, history>>

(* The second half of Shutdown is that of Connect: Join. *)

(* GetData and SendConsoleCommand, called when the main thread is in none  *)
(* of the functions above.                                                 *)
UseDrops ==
  /\ connectPc = "none"
  /\ Drop!GetDataStep \/ Drop!CommandStep
  /\ UNCHANGED lifeVars

-----------------------------------------------------------------------------
(* ThreadMain, in a data thread. *)

(* s_bRunning = true *)
EnterThread(t) ==
  /\ ThreadGoto(t, "created", "loop")
  /\ Drop!Start(t)
  /\ running' = TRUE
  /\ UNCHANGED <<connected, disconnect, socket, iThread, connectPc, history>>

(* while (s_bConnected && !s_bDisconnect) *)
LoopAgain(t) ==
  /\ threadPc[t] = "loop" /\ connected /\ ~disconnect
  /\ Drop!BeginPump(t)
  /\ UNCHANGED lifeVars

(* Faulty variants: the loop ignores s_bDisconnect; s_bRunning is cleared  *)
(* on leaving the loop, before the connection is closed.                   *)
LeaveLoopIfLost(t) ==
  /\ ~connected
  /\ ThreadGoto(t, "loop", "closing")
  /\ Drop!Exit(t)
  /\ UNCHANGED <<flagVars, socket, iThread, connectPc, history>>

LeaveLoopEarly(t) ==
  /\ ~(connected /\ ~disconnect)
  /\ ThreadGoto(t, "loop", "closing")
  /\ Drop!Exit(t)
  /\ running' = FALSE
  /\ UNCHANGED <<connected, disconnect, socket, iThread, connectPc, history>>

LeaveLoop(t) ==
  /\ ~(connected /\ ~disconnect)
  /\ ThreadGoto(t, "loop", "closing")
  /\ Drop!Exit(t)
  /\ stillborn' = (stillborn \/ (connectPc = "created" /\ t = iThread))
  /\ UNCHANGED <<flagVars, socket, iThread, connectPc, overtaken>>

(* Faulty variant: s_bConnected stays set when the thread ends. *)
CloseConnectionStaysConnected(t) ==
  /\ ThreadGoto(t, "closing", "stopping")
  /\ socket' = "closed"
  /\ UNCHANGED <<dropVars, flagVars, iThread, connectPc, history>>

(* s_bConnected = false; vb__socket_close *)
CloseConnection(t) ==
  /\ ThreadGoto(t, "closing", "stopping")
  /\ connected' = FALSE
  /\ socket' = "closed"
  /\ UNCHANGED <<dropVars, running, disconnect, iThread, connectPc, history>>

(* s_bRunning = false; the thread ends. *)
LeaveThread(t) ==
  /\ ThreadGoto(t, "stopping", "gone")
  /\ running' = FALSE
  /\ UNCHANGED <<dropVars, connected, disconnect, socket, iThread, connectPc, history>>

MaintainDrops(t) == Drop!PumpStep(t) /\ UNCHANGED lifeVars

(* recv found packets of the connection, or none. *)
Receive(t) ==
  /\ \E n \in 0 .. MaxBatch :
       /\ n > 0 => socket = "open"
       /\ Drop!Recv(t, [i \in 1 .. n |-> iThread])
  /\ UNCHANGED lifeVars

(* recv returned 0 or a real error: the socket is closed, here and once    *)
(* more in CloseConnection.                                                *)
LoseConnection(t) ==
  /\ Drop!Recv(t, << >>)
  /\ socket' = "closed"
  /\ connected' = FALSE
  /\ UNCHANGED <<running, disconnect, iThread, threadPc, connectPc, history>>

ThreadStep(t) ==
  \/ EnterThread(t) \/ LoopAgain(t) \/ LeaveLoop(t)
  \/ CloseConnection(t) \/ LeaveThread(t)
  \/ MaintainDrops(t) \/ Receive(t) \/ LoseConnection(t)

-----------------------------------------------------------------------------

MainStep == Connect \/ Disconnect \/ CallShutdown \/ Join \/ JoinAgain \/ UseDrops

Next == MainStep \/ \E t \in Threads : ThreadStep(t)

(* The threads of the process are scheduled: a data thread that can take a *)
(* step takes one, and the main thread finishes the call it is in.  No     *)
(* call is ever assumed to be made.                                        *)
Fairness ==
  /\ \A t \in Threads : WF_vars(ThreadStep(t))
  /\ WF_vars((~MainIdle) /\ MainStep)

Spec == Init /\ [][Next]_vars /\ Fairness

-----------------------------------------------------------------------------
(* The lifecycle keeps the contract of the drop boxes as long as no thread *)
(* is overtaken: every step up to then is one of DropBox, so no two data   *)
(* threads share the boxes and the drops are reset only while none runs.   *)
KeepsDropContract == Drop!Init /\ [][overtaken' \/ Drop!Next]_(Drop!vars)

(* IsConnected never answers true, once Connect has returned, for a        *)
(* connection that no thread serves, except when the connection's thread   *)
(* was done before Connect set s_bConnected, or one was overtaken.         *)
ConnectedIsServed ==
  connectPc = "none" /\ connected =>
    \/ \E t \in Threads : threadPc[t] \in {"created", "loop", "closing"}
    \/ stillborn
    \/ overtaken

(* No connection is leaked: when Connect is about to store a new socket in *)
(* m_socket, the old one has been closed, unless a thread was overtaken.   *)
SocketNotLeaked == connectPc = "socket" => socket # "open" \/ overtaken

(* viewback_data.h of s_bDisconnect: "While this flag is on, data thread   *)
(* is to remain disconnected".  Once Disconnect is called, however early,  *)
(* the connection ends unless the main thread connects anew.  A stillborn  *)
(* thread leaves s_bConnected set behind it, with no thread to clear it.   *)
DisconnectTakesEffect == disconnect ~> (~connected \/ ~disconnect \/ stillborn)

(* Connect and Shutdown return: the thread they join always ends.  After a *)
(* thread was overtaken m_iThread may name one that was joined before.     *)
ConnectReturns == connectPc # "none" ~> (connectPc = "none" \/ overtaken)

(* A command the data thread was given is sent, unless the connection ends *)
(* first or its thread was stillborn.                                      *)
CommandIsSent ==
  ~commandDropReady ~> (commandDropReady \/ ~connected \/ disconnect \/ stillborn)
=============================================================================
