-------------------------- MODULE DataThreadProofs --------------------------
(***************************************************************************)
(* Proofs about DataThread: for any number of connections and under every  *)
(* schedule of the threads, until a Connect overtakes a thread that has    *)
(* not started, Connect keeps one data thread at a time; up to then every  *)
(* behaviour of the life of the threads is a behaviour of the drop boxes   *)
(* of DropBox.tla, whose invariants therefore hold of it.                  *)
(***************************************************************************)
EXTENDS DataThread, TLAPS

(* The theorems of the drop boxes, for packets named by their connection.  *)
Box == INSTANCE DropBoxProofs WITH Packets <- Threads

(* A thread between pthread_create and its last statement, one that has    *)
(* set s_bRunning and not cleared it yet, and one that has not closed the  *)
(* connection yet.                                                         *)
Live(t)    == threadPc[t] \in {"created", "loop", "closing", "stopping"}
Running(t) == threadPc[t] \in {"loop", "closing", "stopping"}
Serving(t) == threadPc[t] \in {"created", "loop", "closing"}

(* Only the thread created last is alive, and none is while Connect        *)
(* prepares the next one.                                                  *)
OneLive ==
  /\ \A t \in Threads : Live(t) => t = iThread
  /\ connectPc \in {"socket", "connect", "create"} => \A t \in Threads : ~Live(t)
  /\ connectPc = "created" => iThread \in Threads

(* What the three flags and the socket say of the threads. *)
FlagsTell ==
  /\ running <=> \E t \in Threads : Running(t)
  /\ connected => stillborn \/ \E t \in Threads : Serving(t)
  /\ connectPc \in {"connect", "create", "created"} => ~connected
  /\ connectPc = "created" => stillborn \/ \E t \in Threads : threadPc[t] \in {"created", "loop"}
  /\ socket = "open" =>
       connectPc \in {"connect", "create"} \/ \E t \in Threads : Serving(t)
  /\ connectPc # "none" => mainPc = "idle"

(* The inductive invariant of the lifecycle, over that of the drop boxes:  *)
(* it holds until a thread is overtaken.                                   *)
Kept == TypeOK /\ OneLive /\ FlagsTell /\ Box!IInv
IInv == overtaken \/ Kept

(* A data thread at work in the drops is the one created last. *)
LEMMA OnlyLast ==
  ASSUME Kept, NEW t \in Threads, dataPc[t] # "off"
  PROVE  t = iThread /\ threadPc[t] = "loop" /\ \A u \in Threads \ {t} : dataPc[u] = "off"
BY DEF Kept, TypeOK, OneLive, Live

(* Every step of the lifecycle is a step of the drop boxes or leaves them  *)
(* alone: Start and Reset are taken while no thread runs.                  *)
LEMMA DropStep ==
  ASSUME Kept, [Next]_vars, ~overtaken'
  PROVE  [Drop!Next]_(Drop!vars)
<1>1. UNCHANGED dropVars => UNCHANGED Drop!vars
  BY DEF dropVars, Drop!vars
<1>2. ASSUME Connect PROVE [Drop!Next]_(Drop!vars)
  <2>1. CASE OpenSocket
    <3>1. Drop!AllOff /\ Drop!Reset
      BY <2>1 DEF OpenSocket, ConnectGoto, Kept, TypeOK, OneLive, Live, Drop!AllOff
    <3>2. QED
      BY <3>1 DEF Drop!Next
  <2>2. CASE ~OpenSocket
    BY <1>1, <1>2, <2>2 DEF Connect, CallConnect, OrderDisconnect, SocketFails,
         ConnectFails, ConnectSucceeds, CreateThread, SetConnected
  <2>3. QED
    BY <2>1, <2>2
<1>3. ASSUME Disconnect \/ CallShutdown \/ Join \/ JoinAgain PROVE [Drop!Next]_(Drop!vars)
  BY <1>1, <1>3 DEF Disconnect, CallShutdown, Join, JoinAgain
<1>4. ASSUME UseDrops PROVE [Drop!Next]_(Drop!vars)
  BY <1>4 DEF UseDrops, Drop!Next
<1>5. ASSUME NEW t \in Threads, EnterThread(t) PROVE [Drop!Next]_(Drop!vars)
  <2>1. Drop!AllOff /\ Drop!Start(t)
    BY <1>5 DEF EnterThread, ThreadGoto, Kept, TypeOK, OneLive, Live, Drop!AllOff
  <2>2. QED
    BY <2>1 DEF Drop!Next
<1>6. ASSUME NEW t \in Threads, LoopAgain(t) \/ LeaveLoop(t) \/ MaintainDrops(t)
      PROVE  [Drop!Next]_(Drop!vars)
  <2>1. Drop!BeginPump(t) \/ Drop!Exit(t) \/ Drop!PumpStep(t)
    BY <1>6 DEF LoopAgain, LeaveLoop, MaintainDrops
  <2>2. QED
    BY <2>1 DEF Drop!Next, Drop!DataThreadStep
<1>7. ASSUME NEW t \in Threads, CloseConnection(t) \/ LeaveThread(t)
      PROVE  [Drop!Next]_(Drop!vars)
  BY <1>1, <1>7 DEF CloseConnection, LeaveThread
<1>8. ASSUME NEW t \in Threads, Receive(t) PROVE [Drop!Next]_(Drop!vars)
  <2>1. PICK n \in 0 .. MaxBatch : Drop!Recv(t, [i \in 1 .. n |-> iThread])
    BY <1>8 DEF Receive
  <2>2. t = iThread
    BY <2>1, OnlyLast DEF Drop!Recv, Drop!At
  <2>3. [i \in 1 .. n |-> iThread] \in Drop!Batches
    BY <2>2 DEF Drop!Batches
  <2>4. QED
    BY <2>1, <2>3 DEF Drop!Next, Drop!DataThreadStep
<1>9. ASSUME NEW t \in Threads, LoseConnection(t) PROVE [Drop!Next]_(Drop!vars)
  <2>1. Drop!Recv(t, << >>)
    BY <1>9 DEF LoseConnection
  <2>2. << >> \in Drop!Batches
    <3>1. << >> \in [1 .. 0 -> Threads] /\ 0 \in 0 .. MaxBatch
      BY BoundsAssumption
    <3>2. QED
      BY <3>1 DEF Drop!Batches
  <2>3. QED
    BY <2>1, <2>2 DEF Drop!Next, Drop!DataThreadStep
<1>10. ASSUME UNCHANGED vars PROVE [Drop!Next]_(Drop!vars)
  BY <1>1, <1>10 DEF vars
<1>11. QED
  BY <1>2, <1>3, <1>4, <1>5, <1>6, <1>7, <1>8, <1>9, <1>10
     DEF Next, MainStep, ThreadStep
(* Box and Drop name the same definitions. *)
LEMMA SameStep == [Drop!Next]_(Drop!vars) <=> [Box!Next]_(Box!vars)
BY DEF
         Drop!vars, Drop!dataVars, Drop!commandVars, Drop!Next,
         Drop!DataThreadStep, Drop!PumpStep, Drop!GetDataStep,
         Drop!CommandStep, Drop!AllOff, Drop!Reset, Drop!Start,
         Drop!Exit, Drop!BeginPump, Drop!Recv, Drop!Batches,
         Drop!TestDataDrop, Drop!FillDataDrop, Drop!FlipDataDrop,
         Drop!ClearMessages, Drop!TestCommandDrop, Drop!TakeCommand,
         Drop!ReleaseCommandDrop, Drop!SendCommand, Drop!TestDataReady,
         Drop!CopyDataDrop, Drop!ClearDataDrop, Drop!GiveBackDataDrop,
         Drop!TestCommandReady, Drop!PutCommand, Drop!OfferCommand,
         Drop!At, Drop!DataGoto, Drop!MainGoto,
         Box!vars, Box!dataVars, Box!commandVars, Box!Next,
         Box!DataThreadStep, Box!PumpStep, Box!GetDataStep,
         Box!CommandStep, Box!AllOff, Box!Reset, Box!Start, Box!Exit,
         Box!BeginPump, Box!Recv, Box!Batches, Box!TestDataDrop,
         Box!FillDataDrop, Box!FlipDataDrop, Box!ClearMessages,
         Box!TestCommandDrop, Box!TakeCommand, Box!ReleaseCommandDrop,
         Box!SendCommand, Box!TestDataReady, Box!CopyDataDrop,
         Box!ClearDataDrop, Box!GiveBackDataDrop, Box!TestCommandReady,
         Box!PutCommand, Box!OfferCommand, Box!At, Box!DataGoto,
         Box!MainGoto

LEMMA SameInit == Drop!Init <=> Box!Init
BY DEF Drop!Init, Box!Init

LEMMA SameType == Drop!TypeOK <=> Box!TypeOK
BY DEF Drop!TypeOK, Box!TypeOK, Drop!DataPcs, Box!DataPcs, Drop!MainPcs, Box!MainPcs

LEMMA InitKept == Init => Kept
<1> SUFFICES ASSUME Init PROVE Kept
  OBVIOUS
<1>1. Box!IInv
  BY BoundsAssumption, SameInit, Box!InitIInv DEF Init
<1>2. TypeOK
  <2>1. Drop!TypeOK
    BY <1>1, SameType DEF Box!IInv
  <2>2. \A t \in Threads : dataPc[t] = "off" /\ threadPc[t] = "none"
    BY DEF Init, Drop!Init
  <2>3. QED
    BY <2>1, <2>2 DEF Init, TypeOK, ThreadPcs, ConnectPcs
<1>3. OneLive /\ FlagsTell
  BY DEF Init, Drop!Init, OneLive, FlagsTell, Live, Running, Serving
<1>4. QED
  BY <1>1, <1>2, <1>3 DEF Kept

(* Steps that leave the loop position of every data thread alone. *)
LEMMA DropInv ==
  ASSUME Kept, [Next]_vars, ~overtaken'
  PROVE  Box!IInv' /\ Drop!TypeOK'
<1>1. [Box!Next]_(Box!vars)
  BY DropStep, SameStep
<1>2. Box!IInv'
  BY BoundsAssumption, <1>1, Box!NextIInv DEF Kept
<1>3. Drop!TypeOK'
  BY <1>2 DEF Box!IInv, Drop!TypeOK, Box!TypeOK, Drop!DataPcs, Box!DataPcs, Drop!MainPcs, Box!MainPcs
<1>4. QED
  BY <1>2, <1>3

LEMMA NextKept ==
  ASSUME Kept, [Next]_vars, ~overtaken'
  PROVE  Kept'
<1>0. Box!IInv' /\ Drop!TypeOK'
  BY DropInv
<1> DEFINE Rest == /\ running' \in BOOLEAN /\ connected' \in BOOLEAN /\ disconnect' \in BOOLEAN
                   /\ socket' \in {"none", "open", "closed"}
                   /\ iThread' \in Threads \cup {NoThread}
                   /\ threadPc' \in [Threads -> ThreadPcs]
                   /\ connectPc' \in ConnectPcs
                   /\ stillborn' \in BOOLEAN /\ overtaken' \in BOOLEAN
                   /\ \A t \in Threads : dataPc'[t] # "off" <=> threadPc'[t] = "loop"
                   /\ iThread' = NoThread => \A t \in Threads : threadPc'[t] = "none"
                   /\ OneLive' /\ FlagsTell'
<1> SUFFICES Rest
  BY <1>0 DEF Kept, TypeOK
<1>a. Drop!TypeOK
  BY DEF Kept, TypeOK
<1> USE DEF TypeOK, ThreadPcs, ConnectPcs, OneLive, FlagsTell, Live, Running, Serving,
            ConnectGoto, ThreadGoto, dropVars, flagVars, lifeVars, history, MainIdle
<1>1. CASE CallConnect
  BY <1>1 DEF CallConnect, Kept
<1>2. CASE OrderDisconnect
  BY <1>2 DEF OrderDisconnect, Kept
<1>3. CASE JoinAgain
  BY <1>3 DEF JoinAgain, AfterJoin, Kept
<1>4. CASE SocketFails
  BY <1>4 DEF SocketFails, Kept
<1>5. CASE OpenSocket
  BY <1>5 DEF OpenSocket, Kept, Drop!Reset
<1>6. CASE ConnectFails
  BY <1>6 DEF ConnectFails, Kept
<1>7. CASE ConnectSucceeds
  BY <1>7 DEF ConnectSucceeds, Kept
<1>8. ASSUME NEW t \in Threads, CreateThread(t) PROVE Rest
  BY <1>8, ThreadsAssumption DEF CreateThread, Kept
<1>9. CASE SetConnected
  BY <1>9 DEF SetConnected, Kept
<1>10. CASE Disconnect
  BY <1>10 DEF Disconnect, Kept
<1>11. CASE CallShutdown
  BY <1>11 DEF CallShutdown, Kept
<1>12. CASE Join
  BY <1>12 DEF Join, AfterJoin, Kept
<1>13. CASE UseDrops
  <2>1. dataPc' = dataPc
    BY <1>13 DEF UseDrops, Drop!GetDataStep, Drop!CommandStep, Drop!TestDataReady,
         Drop!CopyDataDrop, Drop!ClearDataDrop, Drop!GiveBackDataDrop,
         Drop!TestCommandReady, Drop!PutCommand, Drop!OfferCommand
  <2>2. QED
    BY <1>13, <2>1 DEF UseDrops, Kept
<1>14. ASSUME NEW t \in Threads, EnterThread(t) PROVE Rest
  BY <1>a, <1>14 DEF EnterThread, Kept, Drop!Start, Drop!DataGoto, Drop!TypeOK
<1>15. ASSUME NEW t \in Threads,
              LoopAgain(t) \/ MaintainDrops(t) \/ Receive(t) \/ LoseConnection(t)
       PROVE  Rest
  <2>1. /\ \A u \in Threads : dataPc'[u] # "off" <=> dataPc[u] # "off"
        /\ mainPc' = mainPc
    BY <1>a, <1>15
       DEF LoopAgain, MaintainDrops, Receive, LoseConnection, Drop!BeginPump, Drop!PumpStep,
           Drop!Recv, Drop!TestDataDrop, Drop!FillDataDrop, Drop!FlipDataDrop,
           Drop!ClearMessages, Drop!TestCommandDrop, Drop!TakeCommand,
           Drop!ReleaseCommandDrop, Drop!SendCommand, Drop!At, Drop!DataGoto, Drop!TypeOK
  <2>2. CASE LoseConnection(t)
    BY <2>1, <2>2 DEF LoseConnection, Kept
  <2>3. CASE UNCHANGED lifeVars
    BY <2>1, <2>3 DEF Kept
  <2>4. QED
    BY <1>15, <2>2, <2>3 DEF LoopAgain, MaintainDrops, Receive
<1>16. ASSUME NEW t \in Threads, LeaveLoop(t) PROVE Rest
  BY <1>a, <1>16 DEF LeaveLoop, Kept, Drop!Exit, Drop!DataGoto, Drop!TypeOK
<1>17. ASSUME NEW t \in Threads, CloseConnection(t) PROVE Rest
  BY <1>17 DEF CloseConnection, Kept
<1>18. ASSUME NEW t \in Threads, LeaveThread(t) PROVE Rest
  BY <1>18 DEF LeaveThread, Kept
<1>19. CASE UNCHANGED vars
  BY <1>19 DEF vars, Kept
<1>20. QED
  BY <1>1, <1>2, <1>3, <1>4, <1>5, <1>6, <1>7, <1>8, <1>9, <1>10, <1>11, <1>12, <1>13,
     <1>14, <1>15, <1>16, <1>17, <1>18, <1>19
     DEF Next, MainStep, ThreadStep, Connect
LEMMA NextIInv == IInv /\ [Next]_vars => IInv'
<1>1. overtaken /\ [Next]_vars => overtaken'
  BY DEF Next, vars, lifeVars, history, MainStep, ThreadStep, Connect, CallConnect, OrderDisconnect,
         SocketFails, OpenSocket, ConnectFails, ConnectSucceeds, CreateThread, SetConnected,
         Disconnect, CallShutdown, Join, JoinAgain, UseDrops, EnterThread, LoopAgain, LeaveLoop,
         CloseConnection, LeaveThread, MaintainDrops, Receive, LoseConnection
<1>2. QED
  BY <1>1, NextKept DEF IInv

(* The invariant holds throughout. *)
THEOREM Invariance == Spec => []IInv
<1>1. Init => IInv
  BY InitKept DEF IInv
<1>2. IInv /\ [Next]_vars => IInv'
  BY NextIInv
<1>3. QED
  BY <1>1, <1>2, PTL DEF Spec

(* Type correctness, and that a thread is in its loop exactly while the    *)
(* drop boxes have a data thread, until a thread is overtaken.             *)
THEOREM TypeCorrectness == Spec => [](overtaken \/ TypeOK)
<1>1. IInv => overtaken \/ TypeOK
  BY DEF IInv, Kept
<1>2. QED
  BY Invariance, <1>1, PTL

(* IsConnected never answers true for a connection no thread serves, but   *)
(* for a stillborn or an overtaken thread, however the threads are         *)
(* scheduled.                                                              *)
THEOREM ConnectedIsServedHolds == Spec => []ConnectedIsServed
<1>1. IInv => ConnectedIsServed
  BY DEF IInv, Kept, FlagsTell, Serving, ConnectedIsServed
<1>2. QED
  BY Invariance, <1>1, PTL

(* Connect never overwrites m_socket while it holds an open socket, unless *)
(* a thread was overtaken.                                                 *)
THEOREM SocketNotLeakedHolds == Spec => []SocketNotLeaked
<1>1. IInv => SocketNotLeaked
  BY DEF IInv, Kept, OneLive, FlagsTell, Live, Serving, SocketNotLeaked
<1>2. QED
  BY Invariance, <1>1, PTL

(* The lifecycle implements the drop boxes up to the first overtaken       *)
(* thread: no two data threads share them and Initialize clears them only  *)
(* while none runs.                                                        *)
THEOREM KeepsDropContractHolds == Spec => KeepsDropContract
<1>1. Init => Drop!Init
  BY DEF Init
<1>2. IInv /\ [Next]_vars => [overtaken' \/ Drop!Next]_(Drop!vars)
  <2>1. overtaken /\ [Next]_vars => overtaken' \/ UNCHANGED Drop!vars
    BY DEF Next, vars, dropVars, Drop!vars, lifeVars, history, MainStep, ThreadStep, Connect,
         CallConnect, OrderDisconnect,
         SocketFails, OpenSocket, ConnectFails, ConnectSucceeds, CreateThread, SetConnected,
         Disconnect, CallShutdown, Join, JoinAgain, UseDrops, EnterThread, LoopAgain, LeaveLoop,
         CloseConnection, LeaveThread, MaintainDrops, Receive, LoseConnection
  <2>2. QED
    BY <2>1, DropStep DEF IInv
<1>3. QED
  BY Invariance, <1>1, <1>2, PTL DEF Spec, KeepsDropContract

(* Therefore, until a thread is overtaken, the boxes stay exclusive and    *)
(* the assertion of MaintainDrops on the data drop holds with the threads  *)
(* that Connect really creates, early and late ones included ...           *)
THEOREM BoxesAreExclusive == Spec => [](overtaken \/ (Drop!Ownership /\ Drop!DataDropAssert))
<1>1. Box!IInv => Drop!Ownership /\ Drop!DataDropAssert
  BY DEF Box!IInv, Box!TypeOK, Box!OneThread, Box!DataTurn, Box!CommandTurn, Drop!Ownership,
         Drop!DataDropOwnership, Drop!CommandDropOwnership, Drop!DataDropAssert, Drop!At
<1>2. IInv => overtaken \/ (Drop!Ownership /\ Drop!DataDropAssert)
  BY <1>1 DEF IInv, Kept
<1>3. QED
  BY Invariance, <1>2, PTL

(* ... and when none ever is, the packets of every connection and the      *)
(* commands given to it arrive once each and in order.                     *)
THEOREM BoxesAreInOrder == Spec /\ []~overtaken => Box!PacketsInOrder /\ Box!CommandsInOrder
<1>1. Init => Box!Init
  BY SameInit DEF Init
<1>2. IInv /\ ~overtaken /\ ~overtaken' /\ [Next]_vars => [Box!Next]_(Box!vars)
  BY DropStep, SameStep DEF IInv
<1>3. Spec /\ []~overtaken => Box!Spec
  BY Invariance, <1>1, <1>2, PTL DEF Spec, Box!Spec
<1>4. Box!Spec => Box!PacketsInOrder /\ Box!CommandsInOrder
  BY BoundsAssumption, Box!PacketsInOrderHolds, Box!CommandsInOrderHolds, PTL
<1>5. QED
  BY <1>3, <1>4, PTL
=============================================================================
