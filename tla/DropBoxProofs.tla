--------------------------- MODULE DropBoxProofs ---------------------------
(***************************************************************************)
(* Proofs about DropBox: with one data thread at a time the two flags of   *)
(* client/viewback_data.cpp keep the drop boxes exclusive, for any number  *)
(* of threads, packets and commands and for any bounds.                    *)
(***************************************************************************)
EXTENDS DropBox, SequenceTheorems, TLAPS

(* At most one data thread runs. *)
OneThread ==
  \A t, u \in Threads : dataPc[t] # "off" /\ dataPc[u] # "off" => t = u

(* Whose turn the data drop is, and what it then holds. *)
DataTurn ==
  /\ mainPc \in {"copy", "wipe", "giveBack"} => dataDropReady
  /\ \A t \in Threads : dataPc[t] \in {"fill", "flip"} => ~dataDropReady
  /\ \A t \in Threads : dataPc[t] = "flip" => dataDrop = messages
  /\ ~dataDropReady /\ (\A t \in Threads : dataPc[t] # "flip") => dataDrop = << >>
  /\ mainPc = "wipe" => temp = dataDrop
  /\ mainPc = "giveBack" => dataDrop = << >>
  /\ mainPc \notin {"wipe", "giveBack"} => temp = << >>

(* Whose turn the command drop is, and what it and its copy then hold. *)
CommandTurn ==
  /\ mainPc \in {"put", "offer"} => commandDropReady
  /\ \A t \in Threads : dataPc[t] \in {"take", "release"} => ~commandDropReady
  /\ \A t \in Threads : dataPc[t] = "release" => command[t] = commandDrop
  /\ \A t \in Threads : dataPc[t] = "send" => command[t] \in Commands
  /\ ~commandDropReady \/ mainPc = "offer" => commandDrop \in Commands

IInv == TypeOK /\ OneThread /\ DataTurn /\ CommandTurn

(* The invariant holds before the first connection. *)
LEMMA InitIInv == Init => IInv
<1> SUFFICES ASSUME Init PROVE IInv
  OBVIOUS
<1>1. TypeOK
  <2>1. << >> \in Seq(Packets) /\ << >> \in Seq(Commands)
    BY EmptySeq
  <2>2. dataPc \in [Threads -> DataPcs] /\ command \in [Threads -> Commands \cup {NoCommand}]
    BY DEF Init, DataPcs
  <2>3. QED
    BY <2>1, <2>2 DEF Init, TypeOK, MainPcs
<1>2. OneThread /\ DataTurn /\ CommandTurn
  BY DEF Init, OneThread, DataTurn, CommandTurn
<1>3. QED
  BY <1>1, <1>2 DEF IInv

(* A batch of packets is a sequence of packets. *)
LEMMA BatchType == \A batch \in Batches : batch \in Seq(Packets)
<1> SUFFICES ASSUME NEW n \in 0 .. MaxBatch, NEW batch \in [1 .. n -> Packets]
             PROVE  batch \in Seq(Packets)
  BY DEF Batches
<1>1. n \in Nat
  BY BoundsAssumption
<1>2. QED
  BY <1>1

(* Every step keeps the types: only Recv, Start and the copies change what *)
(* the variables hold.                                                     *)
LEMMA NextIInv == IInv /\ [Next]_vars => IInv'
<1> SUFFICES ASSUME IInv, [Next]_vars PROVE IInv'
  OBVIOUS
<1> USE DEF IInv, At, DataGoto, MainGoto, dataVars, commandVars, AllOff
<1>1. ASSUME NEW t \in Threads, BeginPump(t) PROVE IInv'
  BY <1>1 DEF BeginPump, TypeOK, DataPcs, MainPcs, OneThread, DataTurn, CommandTurn
<1>2. ASSUME NEW t \in Threads, TestDataDrop(t) PROVE IInv'
  BY <1>2 DEF TestDataDrop, TypeOK, DataPcs, MainPcs, OneThread, DataTurn, CommandTurn
<1>3. ASSUME NEW t \in Threads, FillDataDrop(t) PROVE IInv'
  <2>1. dataDrop = << >> /\ messages \in Seq(Packets)
    BY <1>3 DEF FillDataDrop, TypeOK, OneThread, DataTurn
  <2>2. dataDrop' = messages
    BY <1>3, <2>1 DEF FillDataDrop
  <2>3. QED
    BY <1>3, <2>2 DEF FillDataDrop, TypeOK, DataPcs, MainPcs, OneThread, DataTurn, CommandTurn
<1>4. ASSUME NEW t \in Threads, FlipDataDrop(t) PROVE IInv'
  BY <1>4 DEF FlipDataDrop, TypeOK, DataPcs, MainPcs, OneThread, DataTurn, CommandTurn
<1>5. ASSUME NEW t \in Threads, ClearMessages(t) PROVE IInv'
  <2>1. messages' \in Seq(Packets) /\ \A u \in Threads : dataPc[u] # "flip" /\ dataPc'[u] # "flip"
    BY <1>5, EmptySeq DEF ClearMessages, TypeOK, OneThread
  <2>2. QED
    BY <1>5, <2>1 DEF ClearMessages, TypeOK, DataPcs, MainPcs, OneThread, DataTurn, CommandTurn
<1>6. ASSUME NEW t \in Threads, TestCommandDrop(t) PROVE IInv'
  BY <1>6 DEF TestCommandDrop, TypeOK, DataPcs, MainPcs, OneThread, DataTurn, CommandTurn
<1>7. ASSUME NEW t \in Threads, TakeCommand(t) PROVE IInv'
  BY <1>7 DEF TakeCommand, TypeOK, DataPcs, MainPcs, OneThread, DataTurn, CommandTurn
<1>8. ASSUME NEW t \in Threads, ReleaseCommandDrop(t) PROVE IInv'
  BY <1>8 DEF ReleaseCommandDrop, TypeOK, DataPcs, MainPcs, OneThread, DataTurn, CommandTurn
<1>9. ASSUME NEW t \in Threads, SendCommand(t) PROVE IInv'
  BY <1>9 DEF SendCommand, TypeOK, DataPcs, MainPcs, OneThread, DataTurn, CommandTurn
<1>10. ASSUME NEW t \in Threads, NEW batch \in Batches, Recv(t, batch) PROVE IInv'
  <2>1. messages' \in Seq(Packets) /\ received' \in Seq(Packets)
    BY <1>10, BatchType, ConcatProperties DEF Recv, TypeOK
  <2>2. TypeOK'
    BY <1>10, <2>1 DEF Recv, TypeOK, DataPcs
  <2>3. \A u \in Threads : dataPc[u] # "flip" /\ dataPc'[u] # "flip"
    BY <1>10 DEF Recv, TypeOK, OneThread
  <2>4. QED
    BY <1>10, <2>2, <2>3 DEF Recv, TypeOK, OneThread, DataTurn, CommandTurn
<1>11. ASSUME NEW t \in Threads, AllOff, Start(t) PROVE IInv'
  BY <1>11 DEF Start, TypeOK, DataPcs, MainPcs, OneThread, DataTurn, CommandTurn
<1>12. ASSUME NEW t \in Threads, Exit(t) PROVE IInv'
  BY <1>12 DEF Exit, TypeOK, DataPcs, MainPcs, OneThread, DataTurn, CommandTurn
<1>13. ASSUME GetDataStep PROVE IInv'
  <2> USE DEF TypeOK, MainPcs, OneThread, DataTurn, CommandTurn
  <2>1. CASE TestDataReady
    BY <2>1 DEF TestDataReady
  <2>2. CASE CopyDataDrop
    BY <2>2 DEF CopyDataDrop
  <2>3. CASE ClearDataDrop
    BY <2>3, EmptySeq DEF ClearDataDrop
  <2>4. CASE GiveBackDataDrop
    <3>1. delivered' \in Seq(Packets) /\ temp' \in Seq(Packets)
      BY <2>4, ConcatProperties, EmptySeq DEF GiveBackDataDrop
    <3>2. QED
      BY <2>4, <3>1 DEF GiveBackDataDrop
  <2>5. QED
    BY <1>13, <2>1, <2>2, <2>3, <2>4 DEF GetDataStep
<1>14. ASSUME CommandStep PROVE IInv'
  <2> USE DEF TypeOK, MainPcs, OneThread, DataTurn, CommandTurn
  <2>1. CASE TestCommandReady
    BY <2>1 DEF TestCommandReady
  <2>2. ASSUME NEW c \in Commands, PutCommand(c) PROVE IInv'
    BY <2>2 DEF PutCommand
  <2>3. CASE OfferCommand
    <3>1. accepted' \in Seq(Commands)
      BY <2>3 DEF OfferCommand
    <3>2. QED
      BY <2>3, <3>1 DEF OfferCommand
  <2>4. QED
    BY <1>14, <2>1, <2>2, <2>3 DEF CommandStep
<1>15. ASSUME AllOff, Reset PROVE IInv'
  BY <1>15, EmptySeq DEF Reset, TypeOK, DataPcs, MainPcs, OneThread, DataTurn, CommandTurn
<1>16. ASSUME UNCHANGED vars PROVE IInv'
  BY <1>16 DEF vars, TypeOK, OneThread, DataTurn, CommandTurn
<1>17. QED
  BY <1>1, <1>2, <1>3, <1>4, <1>5, <1>6, <1>7, <1>8, <1>9, <1>10, <1>11, <1>12,
     <1>13, <1>14, <1>15, <1>16 DEF Next, DataThreadStep, PumpStep

(* The inductive invariant of the drop boxes. *)
THEOREM Invariance == Spec => []IInv
BY InitIInv, NextIInv, PTL DEF Spec

(* Type correctness: every variable of the handoff keeps its type, and     *)
(* only commands the user typed are ever sent to the server.               *)
THEOREM TypeCorrectness == Spec => []TypeOK
<1>1. IInv => TypeOK
  BY DEF IInv
<1>2. QED
  BY Invariance, <1>1, PTL

(* The two threads never touch a drop box at the same time, although no    *)
(* lock guards it.                                                         *)
THEOREM OwnershipHolds == Spec => []Ownership
<1>1. IInv => Ownership
  BY DEF IInv, DataTurn, CommandTurn, Ownership, DataDropOwnership, CommandDropOwnership
<1>2. QED
  BY Invariance, <1>1, PTL

(* VBAssert(!s_aDataDrop.size()) of MaintainDrops never fails. *)
THEOREM DataDropAssertHolds == Spec => []DataDropAssert
<1>1. IInv => DataDropAssert
  BY DEF IInv, TypeOK, OneThread, DataTurn, DataDropAssert, At
<1>2. QED
  BY Invariance, <1>1, PTL

(* VBAssert(s_sCommandDrop.length()) never fails, provided no command is   *)
(* the empty string.                                                       *)
THEOREM CommandDropAssertHolds ==
  ASSUME NoCommand \notin Commands
  PROVE  Spec => []CommandDropAssert
<1>1. IInv => CommandDropAssert
  BY DEF IInv, CommandTurn, CommandDropAssert, At
<1>2. QED
  BY Invariance, <1>1, PTL

-----------------------------------------------------------------------------
(* The handoff implements the two mailboxes. *)

(* Cutting a concatenation where it was joined gives back its two parts. *)
LEMMA SplitConcat ==
  ASSUME NEW S, NEW s \in Seq(S), NEW t \in Seq(S)
  PROVE  /\ SubSeq(s \o t, 1, Len(s)) = s
         /\ SubSeq(s \o t, Len(s) + 1, Len(s \o t)) = t
         /\ Len(s) \in Nat /\ Len(s \o t) = Len(s) + Len(t)
<1>1. /\ Len(s) \in Nat /\ Len(t) \in Nat /\ Len(s \o t) = Len(s) + Len(t)
      /\ s \o t \in Seq(S)
      /\ \A i \in 1 .. Len(s) + Len(t) :
           (s \o t)[i] = IF i <= Len(s) THEN s[i] ELSE t[i - Len(s)]
      /\ \A i \in 1 .. Len(s) : s[i] \in S
      /\ \A i \in 1 .. Len(t) : t[i] \in S
  BY ConcatProperties, LenProperties, ElementOfSeq
<1>2. SubSeq(s \o t, 1, Len(s)) = s
  <2>1. \A i \in 1 .. Len(s) : (s \o t)[i] = s[i] /\ (s \o t)[i] \in S
    BY <1>1
  <2>2. /\ SubSeq(s \o t, 1, Len(s)) \in Seq(S)
        /\ Len(SubSeq(s \o t, 1, Len(s))) = Len(s)
        /\ \A i \in 1 .. Len(s) : SubSeq(s \o t, 1, Len(s))[i] = (s \o t)[i]
    BY <1>1, <2>1, SubSeqProperties
  <2>3. QED
    BY <2>1, <2>2, SeqEqual
<1>3. SubSeq(s \o t, Len(s) + 1, Len(s \o t)) = t
  <2>1. \A i \in Len(s) + 1 .. Len(s) + Len(t) : (s \o t)[i] = t[i - Len(s)] /\ (s \o t)[i] \in S
    BY <1>1
  <2>2. /\ SubSeq(s \o t, Len(s) + 1, Len(s) + Len(t)) \in Seq(S)
        /\ Len(SubSeq(s \o t, Len(s) + 1, Len(s) + Len(t))) = Len(t)
        /\ \A i \in 1 .. Len(t) :
             SubSeq(s \o t, Len(s) + 1, Len(s) + Len(t))[i] = (s \o t)[Len(s) + i]
    BY <1>1, <2>1, SubSeqProperties
  <2>3. \A i \in 1 .. Len(t) : (s \o t)[Len(s) + i] = t[i]
    BY <1>1, <2>1
  <2>4. QED
    BY <1>1, <2>2, <2>3, SeqEqual
<1>4. QED
  BY <1>1, <1>2, <1>3

(* A mailbox step of each kind, from the sequences it joins and cuts.      *)
LEMMA PacketPut ==
  ASSUME NEW S, NEW batch \in Seq(S), batch # << >>,
         received \in Seq(S), PacketsInFlight \in Seq(S),
         received' = received \o batch,
         PacketsInFlight' = PacketsInFlight \o batch, delivered' = delivered
  PROVE  PacketMailbox!Put
<1>1. /\ Len(received') > Len(received)
      /\ SubSeq(received', Len(received) + 1, Len(received')) = batch
  BY SplitConcat, EmptySeq
<1>2. QED
  BY <1>1 DEF PacketMailbox!Put

LEMMA PacketTake ==
  ASSUME NEW S, NEW s \in Seq(S), NEW u \in Seq(S), s # << >>,
         PacketsInFlight = s \o u, PacketsInFlight' = u,
         delivered' = delivered \o s, received' = received
  PROVE  PacketMailbox!Take
<1>1. /\ Len(s) \in 1 .. Len(PacketsInFlight)
      /\ SubSeq(PacketsInFlight, 1, Len(s)) = s
      /\ SubSeq(PacketsInFlight, Len(s) + 1, Len(PacketsInFlight)) = u
  BY SplitConcat, EmptySeq
<1>2. QED
  BY <1>1 DEF PacketMailbox!Take

LEMMA PacketReopen ==
  ASSUME NEW S, NEW s \in Seq(S), NEW u \in Seq(S),
         PacketsInFlight = s \o u, PacketsInFlight' = u,
         delivered' = << >>, received' = u
  PROVE  PacketMailbox!Reopen
<1>1. /\ Len(s) \in 0 .. Len(PacketsInFlight)
      /\ SubSeq(PacketsInFlight, Len(s) + 1, Len(PacketsInFlight)) = u
  BY SplitConcat, EmptySeq
<1>2. QED
  BY <1>1 DEF PacketMailbox!Reopen

(* What is in flight is a sequence of packets, and outside the two steps   *)
(* that move packets across a boundary it does not change.                 *)
LEMMA InFlightType == IInv => InDrop \in Seq(Packets) /\ Unshared \in Seq(Packets)
BY EmptySeq DEF IInv, TypeOK, InDrop, Unshared

LEMMA PacketStep ==
  ASSUME IInv, IInv', [Next]_vars
  PROVE  [PacketMailbox!Next]_<<received, PacketsInFlight, delivered>>
<1> USE DEF At, DataGoto, MainGoto, dataVars, commandVars
<1> DEFINE Same == UNCHANGED <<received, PacketsInFlight, delivered>>
<1>0. /\ InDrop \in Seq(Packets) /\ Unshared \in Seq(Packets)
      /\ InDrop' \in Seq(Packets) /\ Unshared' \in Seq(Packets)
      /\ PacketsInFlight \in Seq(Packets) /\ messages \in Seq(Packets)
      /\ received \in Seq(Packets) /\ temp \in Seq(Packets)
  BY InFlightType, ConcatProperties DEF IInv, TypeOK, PacketsInFlight, InDrop, Unshared
<1>1. ASSUME NEW t \in Threads,
             BeginPump(t) \/ TestDataDrop(t) \/ FillDataDrop(t) \/ TestCommandDrop(t)
               \/ TakeCommand(t) \/ ReleaseCommandDrop(t) \/ SendCommand(t) \/ Start(t) \/ Exit(t)
      PROVE  Same
  <2>1. (\E u \in Threads : dataPc'[u] = "wipe") <=> (\E u \in Threads : dataPc[u] = "wipe")
    BY <1>1 DEF BeginPump, TestDataDrop, FillDataDrop, TestCommandDrop, TakeCommand,
                ReleaseCommandDrop, SendCommand, Start, Exit, IInv, TypeOK
  <2>2. Unshared' = Unshared
    BY <1>1, <2>1 DEF BeginPump, TestDataDrop, FillDataDrop, TestCommandDrop, TakeCommand,
                ReleaseCommandDrop, SendCommand, Start, Exit, Unshared
  <2>3. InDrop' = InDrop
    BY <1>1 DEF BeginPump, TestDataDrop, FillDataDrop, TestCommandDrop, TakeCommand,
                ReleaseCommandDrop, SendCommand, Start, Exit, InDrop, IInv, DataTurn
  <2>4. received' = received /\ delivered' = delivered
    BY <1>1 DEF BeginPump, TestDataDrop, FillDataDrop, TestCommandDrop, TakeCommand,
                ReleaseCommandDrop, SendCommand, Start, Exit
  <2>5. QED
    BY <2>2, <2>3, <2>4 DEF PacketsInFlight
<1>2. ASSUME NEW t \in Threads, FlipDataDrop(t) PROVE Same
  <2>1. InDrop = << >> /\ Unshared = messages
    BY <1>2 DEF FlipDataDrop, InDrop, Unshared, IInv, TypeOK, OneThread, DataTurn
  <2>2. InDrop' = messages /\ Unshared' = << >>
    BY <1>2 DEF FlipDataDrop, InDrop, Unshared, IInv, TypeOK, OneThread, DataTurn
  <2>3. PacketsInFlight' = PacketsInFlight
    BY <1>0, <2>1, <2>2, ConcatEmptySeq DEF PacketsInFlight
  <2>4. QED
    BY <1>2, <2>3 DEF FlipDataDrop
<1>3. ASSUME NEW t \in Threads, ClearMessages(t) PROVE Same
  <2>1. Unshared = << >> /\ Unshared' = << >>
    BY <1>3 DEF ClearMessages, Unshared
  <2>2. InDrop' = InDrop
    BY <1>3 DEF ClearMessages, InDrop
  <2>3. QED
    BY <1>3, <2>1, <2>2 DEF ClearMessages, PacketsInFlight
<1>4. ASSUME NEW t \in Threads, NEW batch \in Batches, Recv(t, batch)
      PROVE  Same \/ PacketMailbox!Put
  <2>1. batch \in Seq(Packets)
    BY BatchType
  <2>2. Unshared = messages /\ Unshared' = messages \o batch /\ InDrop' = InDrop
    <3>1. \A u \in Threads : dataPc[u] # "wipe" /\ dataPc'[u] # "wipe"
      BY <1>4 DEF Recv, IInv, TypeOK, OneThread
    <3>2. QED
      BY <1>4, <3>1 DEF Recv, Unshared, InDrop
  <2>3. PacketsInFlight' = PacketsInFlight \o batch
    <3>1. PacketsInFlight' = InDrop \o (messages \o batch)
      BY <2>2 DEF PacketsInFlight
    <3>2. PacketsInFlight = InDrop \o messages
      BY <2>2 DEF PacketsInFlight
    <3>3. InDrop \in Seq(Packets) /\ messages \in Seq(Packets)
      BY <1>0
    <3>4. PICK d \in Seq(Packets) : d = InDrop
      BY <3>3
    <3>5. (d \o messages) \o batch = d \o (messages \o batch)
      BY <2>1, <3>3, ConcatAssociative
    <3>6. QED
      BY <3>1, <3>2, <3>4, <3>5, Zenon
  <2>4. received' = received \o batch /\ delivered' = delivered
    BY <1>4 DEF Recv
  <2>5. CASE batch = << >>
    BY <1>0, <2>3, <2>4, <2>5, ConcatEmptySeq
  <2>6. CASE batch # << >>
    BY <1>0, <2>1, <2>3, <2>4, <2>6, PacketPut
  <2>7. QED
    BY <2>5, <2>6
<1>5. ASSUME TestDataReady \/ CopyDataDrop \/ ClearDataDrop PROVE Same
  <2>1. InDrop' = InDrop
    BY <1>5 DEF TestDataReady, CopyDataDrop, ClearDataDrop, InDrop, IInv, DataTurn
  <2>2. Unshared' = Unshared /\ received' = received /\ delivered' = delivered
    BY <1>5 DEF TestDataReady, CopyDataDrop, ClearDataDrop, Unshared
  <2>3. QED
    BY <2>1, <2>2 DEF PacketsInFlight
<1>6. ASSUME GiveBackDataDrop PROVE Same \/ PacketMailbox!Take
  <2>1. /\ InDrop = temp /\ InDrop' = << >> /\ Unshared' = Unshared
        /\ received' = received /\ delivered' = delivered \o temp
    BY <1>6 DEF GiveBackDataDrop, InDrop, Unshared
  <2>2. PacketsInFlight = temp \o Unshared /\ PacketsInFlight' = Unshared
    BY <1>0, <2>1, ConcatEmptySeq DEF PacketsInFlight
  <2>3. CASE temp = << >>
    <3>1. PacketsInFlight = Unshared /\ delivered' = delivered
      BY <1>0, <2>1, <2>2, <2>3, ConcatEmptySeq DEF IInv, TypeOK
    <3>2. QED
      BY <2>1, <2>2, <3>1
  <2>4. CASE temp # << >>
    BY <1>0, <2>1, <2>2, <2>4, PacketTake
  <2>5. QED
    BY <2>3, <2>4
<1>7. ASSUME CommandStep PROVE Same
  <2>1. InDrop' = InDrop /\ Unshared' = Unshared
    BY <1>7 DEF CommandStep, TestCommandReady, PutCommand, OfferCommand, InDrop, Unshared,
                IInv, DataTurn
  <2>2. received' = received /\ delivered' = delivered
    BY <1>7 DEF CommandStep, TestCommandReady, PutCommand, OfferCommand
  <2>3. QED
    BY <2>1, <2>2 DEF PacketsInFlight
<1>8. ASSUME AllOff, Reset PROVE PacketMailbox!Reopen
  <2>1. Unshared = messages /\ Unshared' = messages /\ InDrop' = << >>
    BY <1>8 DEF AllOff, Reset, Unshared, InDrop, IInv, TypeOK
  <2>2. PacketsInFlight = InDrop \o messages /\ PacketsInFlight' = messages
    BY <1>0, <2>1, ConcatEmptySeq DEF PacketsInFlight
  <2>3. QED
    BY <1>0, <1>8, <2>2, PacketReopen DEF Reset
<1>9. ASSUME UNCHANGED vars PROVE Same
  BY <1>9 DEF vars, PacketsInFlight, InDrop, Unshared
<1>10. QED
  BY <1>1, <1>2, <1>3, <1>4, <1>5, <1>6, <1>7, <1>8, <1>9
     DEF Next, DataThreadStep, PumpStep, GetDataStep, PacketMailbox!Next

(* The packets parsed on a connection reach the main thread once each and  *)
(* in order: the data drop implements a mailbox.                           *)
THEOREM PacketsInOrderHolds == Spec => PacketsInOrder
<1>1. Init => PacketMailbox!Init
  <2>1. Init => InDrop = << >> /\ Unshared = << >>
    BY DEF Init, InDrop, Unshared
  <2>2. << >> \o << >> = << >>
    BY EmptySeq, ConcatEmptySeq
  <2>3. QED
    BY <2>1, <2>2 DEF Init, PacketsInFlight, PacketMailbox!Init
<1>2. IInv /\ IInv' /\ [Next]_vars
        => [PacketMailbox!Next]_<<received, PacketsInFlight, delivered>>
  BY PacketStep
<1>3. QED
  BY Invariance, <1>1, <1>2, PTL DEF Spec, PacketsInOrder, PacketMailbox!Spec

-----------------------------------------------------------------------------
(* The same for commands. *)

LEMMA CommandTypes ==
  IInv => Sending \in Seq(Commands) /\ Waiting \in Seq(Commands)
<1> SUFFICES ASSUME IInv PROVE Sending \in Seq(Commands) /\ Waiting \in Seq(Commands)
  OBVIOUS
<1>1. Sending \in Seq(Commands)
  <2>1. CASE \E t \in Threads : At(t, "send")
    <3>1. PICK c \in Commands : c = command[CHOOSE t \in Threads : At(t, "send")]
      BY <2>1 DEF IInv, CommandTurn, At
    <3>2. QED
      BY <2>1, <3>1 DEF Sending
  <2>2. CASE ~ \E t \in Threads : At(t, "send")
    BY <2>2, EmptySeq DEF Sending
  <2>3. QED
    BY <2>1, <2>2
<1>2. Waiting \in Seq(Commands)
  <2>1. CASE commandDropReady
    BY <2>1, EmptySeq DEF Waiting
  <2>2. CASE ~commandDropReady
    BY <2>2 DEF Waiting, IInv, CommandTurn
  <2>3. QED
    BY <2>1, <2>2
<1>3. QED
  BY <1>1, <1>2

LEMMA CommandPut ==
  ASSUME NEW S, NEW w \in Seq(S), w # << >>, accepted \in Seq(S), accepted' = accepted \o w,
         CommandsInFlight \in Seq(S), CommandsInFlight' = CommandsInFlight \o w,
         sent' = sent
  PROVE  CommandMailbox!Put
<1>1. /\ Len(accepted') > Len(accepted)
      /\ SubSeq(accepted', Len(accepted) + 1, Len(accepted')) = w
  BY SplitConcat, EmptySeq
<1>2. QED
  BY <1>1 DEF CommandMailbox!Put

LEMMA CommandTake ==
  ASSUME NEW S, NEW w \in Seq(S), NEW u \in Seq(S), w # << >>,
         CommandsInFlight = w \o u, CommandsInFlight' = u,
         sent' = sent \o w, accepted' = accepted
  PROVE  CommandMailbox!Take
<1>1. /\ Len(w) \in 1 .. Len(CommandsInFlight)
      /\ SubSeq(CommandsInFlight, 1, Len(w)) = w
      /\ SubSeq(CommandsInFlight, Len(w) + 1, Len(CommandsInFlight)) = u
  BY SplitConcat, EmptySeq
<1>2. QED
  BY <1>1 DEF CommandMailbox!Take

LEMMA CommandReopen ==
  ASSUME NEW S, NEW s \in Seq(S), CommandsInFlight = s, CommandsInFlight' = << >>,
         sent' = << >>, accepted' = << >>
  PROVE  CommandMailbox!Reopen
<1>1. /\ Len(s) \in 0 .. Len(CommandsInFlight)
      /\ SubSeq(CommandsInFlight, Len(s) + 1, Len(CommandsInFlight)) = << >>
  BY LenProperties, SubSeqEmpty
<1>2. QED
  BY <1>1 DEF CommandMailbox!Reopen

LEMMA CommandMailboxStep ==
  ASSUME IInv, IInv', [Next]_vars
  PROVE  [CommandMailbox!Next]_<<accepted, CommandsInFlight, sent>>
<1> USE DEF At, DataGoto, MainGoto, dataVars, commandVars
<1> DEFINE Same == UNCHANGED <<accepted, CommandsInFlight, sent>>
<1>0. /\ Sending \in Seq(Commands) /\ Waiting \in Seq(Commands)
      /\ CommandsInFlight \in Seq(Commands)
      /\ accepted \in Seq(Commands) /\ sent \in Seq(Commands)
  BY CommandTypes, ConcatProperties DEF IInv, TypeOK, CommandsInFlight
<1>1. ASSUME NEW t \in Threads, NEW batch,
             BeginPump(t) \/ TestDataDrop(t) \/ FillDataDrop(t) \/ FlipDataDrop(t)
               \/ ClearMessages(t) \/ TestCommandDrop(t) \/ TakeCommand(t)
               \/ Recv(t, batch) \/ Start(t) \/ Exit(t)
      PROVE  Same
  <2>1. \A u \in Threads : dataPc[u] # "send" /\ dataPc'[u] # "send"
    BY <1>1 DEF BeginPump, TestDataDrop, FillDataDrop, FlipDataDrop, ClearMessages,
                TestCommandDrop, TakeCommand, Recv, Start, Exit, IInv, TypeOK, OneThread
  <2>2. Sending = << >> /\ Sending' = << >>
    BY <2>1 DEF Sending
  <2>3. Waiting' = Waiting /\ accepted' = accepted /\ sent' = sent
    BY <1>1 DEF BeginPump, TestDataDrop, FillDataDrop, FlipDataDrop, ClearMessages,
                TestCommandDrop, TakeCommand, Recv, Start, Exit, Waiting
  <2>4. QED
    BY <2>2, <2>3 DEF CommandsInFlight
<1>2. ASSUME NEW t \in Threads, ReleaseCommandDrop(t) PROVE Same
  <2>1. \A u \in Threads : dataPc[u] # "send" /\ (dataPc'[u] = "send" => u = t)
    BY <1>2 DEF ReleaseCommandDrop, IInv, TypeOK, OneThread
  <2>2. dataPc'[t] = "send" /\ (CHOOSE u \in Threads : dataPc'[u] = "send") = t
    BY <1>2, <2>1 DEF ReleaseCommandDrop, IInv, TypeOK
  <2>3. Sending = << >> /\ Sending' = <<command[t]>>
    BY <1>2, <2>1, <2>2 DEF ReleaseCommandDrop, Sending
  <2>4. Waiting = <<command[t]>> /\ Waiting' = << >>
    BY <1>2 DEF ReleaseCommandDrop, Waiting, IInv, CommandTurn
  <2>5. CommandsInFlight' = CommandsInFlight
    BY <1>0, <2>3, <2>4, ConcatEmptySeq DEF CommandsInFlight
  <2>6. QED
    BY <1>2, <2>5 DEF ReleaseCommandDrop
<1>3. ASSUME NEW t \in Threads, SendCommand(t) PROVE CommandMailbox!Take
  <2>1. \A u \in Threads : dataPc'[u] # "send" /\ (dataPc[u] = "send" => u = t)
    BY <1>3 DEF SendCommand, IInv, TypeOK, OneThread
  <2>2. dataPc[t] = "send" /\ (CHOOSE u \in Threads : dataPc[u] = "send") = t
    BY <1>3, <2>1 DEF SendCommand
  <2>3. Sending = <<command[t]>> /\ Sending' = << >>
    BY <2>1, <2>2 DEF Sending
  <2>4. Waiting' = Waiting
    BY <1>3 DEF SendCommand, Waiting
  <2>5. CommandsInFlight = <<command[t]>> \o Waiting /\ CommandsInFlight' = Waiting
    BY <1>0, <2>3, <2>4, ConcatEmptySeq DEF CommandsInFlight
  <2>6. command[t] \in Commands
    BY <2>2 DEF IInv, CommandTurn
  <2>7. /\ <<command[t]>> \in Seq(Commands) /\ <<command[t]>> # << >>
        /\ Append(sent, command[t]) = sent \o <<command[t]>>
    BY <1>0, <2>6
  <2>8. sent' = sent \o <<command[t]>> /\ accepted' = accepted
    BY <1>3, <2>7 DEF SendCommand
  <2>9. QED
    BY <1>0, <2>5, <2>7, <2>8, CommandTake
<1>4. ASSUME GetDataStep PROVE Same
  <2>1. UNCHANGED commandVars /\ dataPc' = dataPc
    BY <1>4 DEF GetDataStep, TestDataReady, CopyDataDrop, ClearDataDrop, GiveBackDataDrop
  <2>2. Waiting' = Waiting /\ Sending' = Sending
    BY <2>1 DEF Sending, Waiting
  <2>3. QED
    BY <2>1, <2>2 DEF CommandsInFlight
<1>5. ASSUME TestCommandReady \/ \E c \in Commands : PutCommand(c) PROVE Same
  <2>1. Waiting' = Waiting /\ Sending' = Sending
    BY <1>5 DEF TestCommandReady, PutCommand, Waiting, Sending, IInv, CommandTurn
  <2>2. QED
    BY <1>5, <2>1 DEF TestCommandReady, PutCommand, CommandsInFlight
<1>6. ASSUME OfferCommand PROVE CommandMailbox!Put
  <2>1. Waiting = << >> /\ Waiting' = <<commandDrop>> /\ Sending' = Sending
    BY <1>6 DEF OfferCommand, Waiting, Sending, IInv, CommandTurn
  <2>2. CommandsInFlight' = CommandsInFlight \o <<commandDrop>>
    BY <1>0, <2>1, ConcatEmptySeq DEF CommandsInFlight
  <2>3. commandDrop \in Commands
    BY <1>6 DEF OfferCommand, IInv, CommandTurn
  <2>4. /\ <<commandDrop>> \in Seq(Commands) /\ <<commandDrop>> # << >>
        /\ Append(accepted, commandDrop) = accepted \o <<commandDrop>>
    BY <1>0, <2>3
  <2>5. accepted' = accepted \o <<commandDrop>> /\ sent' = sent
    BY <1>6, <2>4 DEF OfferCommand
  <2>6. QED
    BY <1>0, <2>2, <2>4, <2>5, CommandPut
<1>7. ASSUME AllOff, Reset PROVE CommandMailbox!Reopen
  <2>1. Sending = << >> /\ Sending' = << >> /\ Waiting' = << >>
    BY <1>7 DEF AllOff, Reset, Sending, Waiting
  <2>2. CommandsInFlight = Waiting /\ CommandsInFlight' = << >>
    BY <1>0, <2>1, ConcatEmptySeq, EmptySeq DEF CommandsInFlight
  <2>3. QED
    BY <1>0, <1>7, <2>2, CommandReopen DEF Reset
<1>8. ASSUME UNCHANGED vars PROVE Same
  BY <1>8 DEF vars, CommandsInFlight, Sending, Waiting
<1>9. QED
  BY <1>1, <1>2, <1>3, <1>4, <1>5, <1>6, <1>7, <1>8
     DEF Next, DataThreadStep, PumpStep, CommandStep, CommandMailbox!Next

(* The commands accepted on a connection are sent once each and in order:  *)
(* the command drop implements a mailbox.                                  *)
THEOREM CommandsInOrderHolds == Spec => CommandsInOrder
<1>1. Init => CommandMailbox!Init
  <2>1. Init => Sending = << >> /\ Waiting = << >>
    BY DEF Init, Sending, Waiting, At
  <2>2. << >> \o << >> = << >>
    BY EmptySeq, ConcatEmptySeq
  <2>3. QED
    BY <2>1, <2>2 DEF Init, CommandsInFlight, CommandMailbox!Init
<1>2. IInv /\ IInv' /\ [Next]_vars
        => [CommandMailbox!Next]_<<accepted, CommandsInFlight, sent>>
  BY CommandMailboxStep
<1>3. QED
  BY Invariance, <1>1, <1>2, PTL DEF Spec, CommandsInOrder, CommandMailbox!Spec
=============================================================================
