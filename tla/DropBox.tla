------------------------------ MODULE DropBox ------------------------------
(***************************************************************************)
(* The two drop boxes through which the main thread and the data thread of *)
(* the client exchange data (client/viewback_data.cpp).  Parsed packets go *)
(* from the data thread to the main thread in s_aDataDrop, one console     *)
(* command at a time goes the other way in s_sCommandDrop, and each box is *)
(* guarded by one atomic flag that says whose turn it is; there is no      *)
(* lock.  Every load of a flag, every access to a box and every store of a *)
(* flag is a step of its own, so that the two threads interleave as the    *)
(* statements of the code do.                                              *)
(*                                                                         *)
(* The module assumes the contract of CViewbackDataThread::Connect: a data *)
(* thread starts, and the boxes are reset, only while no data thread runs. *)
(* DataThread.tla models the calls that are meant to establish it.         *)
(***************************************************************************)
EXTENDS Naturals, Sequences

CONSTANTS
  Threads,      \* data threads, one for every connection
  Packets,      \* packets a server can send
  Commands,     \* console commands the user can type
  NoCommand,    \* the empty string
  MaxBatch,     \* bound: packets parsed from one recv
  MaxPackets,   \* bound: packets received on one connection
  MaxCommands   \* bound: commands accepted on one connection

ASSUME BoundsAssumption ==
  MaxBatch \in Nat /\ MaxPackets \in Nat /\ MaxCommands \in Nat

VARIABLES
  messages,          \* m_aMessages: parsed, not yet in the drop
  dataDrop,          \* s_aDataDrop
  dataDropReady,     \* s_bDataDropReady: the data drop is the main thread's
  commandDrop,       \* s_sCommandDrop
  commandDropReady,  \* s_bCommandDropReady: the command drop is the main thread's
  dataPc,            \* where each data thread stands in its loop
  mainPc,            \* where the main thread stands in GetData or SendConsoleCommand
  temp,              \* temp, the copy GetData returns
  command,           \* sCommand, the copy MaintainDrops sends
  received,          \* history: packets parsed for this connection
  delivered,         \* history: packets GetData returned on this connection
  accepted,          \* history: commands accepted on this connection
  sent               \* history: commands given to send() on this connection

vars == <<messages, dataDrop, dataDropReady, commandDrop, commandDropReady,
          dataPc, mainPc, temp, command, received, delivered, accepted, sent>>

dataVars    == <<messages, dataDrop, dataDropReady, temp, received, delivered>>
commandVars == <<commandDrop, commandDropReady, command, accepted, sent>>

DataPcs == {"off", "loop", "maintain", "fill", "flip", "wipe",
            "command", "take", "release", "send", "recv"}
MainPcs == {"idle", "copy", "wipe", "giveBack", "put", "offer"}

Batches == UNION {[1 .. n -> Packets] : n \in 0 .. MaxBatch}

TypeOK ==
  /\ messages \in Seq(Packets)
  /\ dataDrop \in Seq(Packets)
  /\ dataDropReady \in BOOLEAN
  /\ commandDrop \in Commands \cup {NoCommand}
  /\ commandDropReady \in BOOLEAN
  /\ dataPc \in [Threads -> DataPcs]
  /\ mainPc \in MainPcs
  /\ temp \in Seq(Packets)
  /\ command \in [Threads -> Commands \cup {NoCommand}]
  /\ received \in Seq(Packets)
  /\ delivered \in Seq(Packets)
  /\ accepted \in Seq(Commands)
  /\ sent \in Seq(Commands)

AllOff == \A t \in Threads : dataPc[t] = "off"

At(t, pc) == dataPc[t] = pc
DataGoto(t, pc) == dataPc' = [dataPc EXCEPT ![t] = pc]
MainGoto(from, to) == mainPc = from /\ mainPc' = to

Init ==
  /\ messages = << >>
  /\ dataDrop = << >>
  /\ dataDropReady = FALSE
  /\ commandDrop = NoCommand
  /\ commandDropReady = TRUE
  /\ dataPc = [t \in Threads |-> "off"]
  /\ mainPc = "idle"
  /\ temp = << >>
  /\ command = [t \in Threads |-> NoCommand]
  /\ received = << >>
  /\ delivered = << >>
  /\ accepted = << >>
  /\ sent = << >>

-----------------------------------------------------------------------------
(* What has been put into each direction and has not come out of it.       *)

(* Packets of the drop that GetData has not returned yet. *)
InDrop == IF mainPc = "giveBack" THEN temp
          ELSE IF dataDropReady THEN dataDrop ELSE << >>

(* Parsed packets that are not yet the main thread's.  Between the flip of *)
(* the flag and m_aMessages.clear() the vector holds packets already given.*)
Unshared == IF \E t \in Threads : At(t, "wipe") THEN << >> ELSE messages

PacketsInFlight == InDrop \o Unshared

(* The command copied out of the drop and not yet given to send(), and the *)
(* one waiting in the drop.                                                *)
Sending == IF \E t \in Threads : At(t, "send")
           THEN <<command[CHOOSE t \in Threads : At(t, "send")]>> ELSE << >>

Waiting == IF commandDropReady THEN << >> ELSE <<commandDrop>>

CommandsInFlight == Sending \o Waiting

-----------------------------------------------------------------------------
(* The data thread: MaintainDrops, then recv, then the loop test. *)

(* The loop test of ThreadMain succeeded: enter Pump. *)
BeginPump(t) ==
  /\ At(t, "loop")
  /\ DataGoto(t, "maintain")
  /\ UNCHANGED <<dataVars, commandVars, mainPc>>

(* Faulty variant: the flag is not tested before the drop is filled. *)
TestDataDropUnguarded(t) ==
  /\ At(t, "maintain")
  /\ DataGoto(t, IF messages # << >> THEN "fill" ELSE "command")
  /\ UNCHANGED <<dataVars, commandVars, mainPc>>

(* if (!s_bDataDropReady && m_aMessages.size()) *)
TestDataDrop(t) ==
  /\ At(t, "maintain")
  /\ DataGoto(t, IF ~dataDropReady /\ messages # << >> THEN "fill" ELSE "command")
  /\ UNCHANGED <<dataVars, commandVars, mainPc>>

FillDataDrop(t) ==
  /\ At(t, "fill")
  /\ dataDrop' = dataDrop \o messages
  /\ DataGoto(t, "flip")
  /\ UNCHANGED <<messages, dataDropReady, temp, received, delivered, commandVars, mainPc>>

FlipDataDrop(t) ==
  /\ At(t, "flip")
  /\ dataDropReady' = TRUE
  /\ DataGoto(t, "wipe")
  /\ UNCHANGED <<messages, dataDrop, temp, received, delivered, commandVars, mainPc>>

(* Faulty variant: the packets shared are kept and shared again. *)
ClearMessagesNot(t) ==
  /\ At(t, "wipe")
  /\ DataGoto(t, "command")
  /\ UNCHANGED <<dataVars, commandVars, mainPc>>

ClearMessages(t) ==
  /\ At(t, "wipe")
  /\ messages' = << >>
  /\ DataGoto(t, "command")
  /\ UNCHANGED <<dataDrop, dataDropReady, temp, received, delivered, commandVars, mainPc>>

(* Faulty variant: the flag is read in the wrong sense. *)
TestCommandDropInverted(t) ==
  /\ At(t, "command")
  /\ DataGoto(t, IF commandDropReady THEN "take" ELSE "recv")
  /\ UNCHANGED <<dataVars, commandVars, mainPc>>

(* if (!s_bCommandDropReady) *)
TestCommandDrop(t) ==
  /\ At(t, "command")
  /\ DataGoto(t, IF commandDropReady THEN "recv" ELSE "take")
  /\ UNCHANGED <<dataVars, commandVars, mainPc>>

TakeCommand(t) ==
  /\ At(t, "take")
  /\ command' = [command EXCEPT ![t] = commandDrop]
  /\ DataGoto(t, "release")
  /\ UNCHANGED <<dataVars, commandDrop, commandDropReady, accepted, sent, mainPc>>

(* The drop is handed back before the copy is sent. *)
ReleaseCommandDrop(t) ==
  /\ At(t, "release")
  /\ commandDropReady' = TRUE
  /\ DataGoto(t, "send")
  /\ UNCHANGED <<dataVars, commandDrop, command, accepted, sent, mainPc>>

(* Faulty variant: what is sent is the drop, not the copy of it. *)
SendCommandFromDrop(t) ==
  /\ At(t, "send")
  /\ sent' = Append(sent, commandDrop)
  /\ DataGoto(t, "recv")
  /\ UNCHANGED <<dataVars, commandDrop, commandDropReady, command, accepted, mainPc>>

SendCommand(t) ==
  /\ At(t, "send")
  /\ sent' = Append(sent, command[t])
  /\ DataGoto(t, "recv")
  /\ UNCHANGED <<dataVars, commandDrop, commandDropReady, command, accepted, mainPc>>

(* recv returned bytes that complete the packets of batch, none when it    *)
(* would have blocked, failed, or ended inside a packet.                   *)
Recv(t, batch) ==
  /\ At(t, "recv")
  /\ Len(received) + Len(batch) <= MaxPackets
  /\ messages' = messages \o batch
  /\ received' = received \o batch
  /\ DataGoto(t, "loop")
  /\ UNCHANGED <<dataDrop, dataDropReady, temp, delivered, commandVars, mainPc>>

(* The beginning and the end of ThreadMain. *)
Start(t) ==
  /\ At(t, "off")
  /\ DataGoto(t, "loop")
  /\ UNCHANGED <<dataVars, commandVars, mainPc>>

Exit(t) ==
  /\ At(t, "loop")
  /\ DataGoto(t, "off")
  /\ UNCHANGED <<dataVars, commandVars, mainPc>>

-----------------------------------------------------------------------------
(* The main thread. *)

(* GetData: if (s_bDataDropReady); without it GetData returns no packets.  *)
TestDataReady ==
  /\ MainGoto("idle", "copy")
  /\ dataDropReady
  /\ UNCHANGED <<dataVars, commandVars, dataPc>>

CopyDataDrop ==
  /\ MainGoto("copy", "wipe")
  /\ temp' = dataDrop
  /\ UNCHANGED <<messages, dataDrop, dataDropReady, received, delivered, commandVars, dataPc>>

(* Faulty variant: the drop is given back with its packets still in it. *)
ClearDataDropNot ==
  /\ MainGoto("wipe", "giveBack")
  /\ UNCHANGED <<dataVars, commandVars, dataPc>>

ClearDataDrop ==
  /\ MainGoto("wipe", "giveBack")
  /\ dataDrop' = << >>
  /\ UNCHANGED <<messages, dataDropReady, temp, received, delivered, commandVars, dataPc>>

(* s_bDataDropReady = false, then temp is returned. *)
GiveBackDataDrop ==
  /\ MainGoto("giveBack", "idle")
  /\ dataDropReady' = FALSE
  /\ delivered' = delivered \o temp
  /\ temp' = << >>
  /\ UNCHANGED <<messages, dataDrop, received, commandVars, dataPc>>

(* SendConsoleCommand: if (s_bCommandDropReady); else the command is refused. *)
TestCommandReady ==
  /\ MainGoto("idle", "put")
  /\ commandDropReady
  /\ Len(accepted) < MaxCommands
  /\ UNCHANGED <<dataVars, commandVars, dataPc>>

PutCommand(c) ==
  /\ MainGoto("put", "offer")
  /\ commandDrop' = c
  /\ UNCHANGED <<dataVars, commandDropReady, command, accepted, sent, dataPc>>

OfferCommand ==
  /\ MainGoto("offer", "idle")
  /\ commandDropReady' = FALSE
  /\ accepted' = Append(accepted, commandDrop)
  /\ UNCHANGED <<dataVars, commandDrop, command, sent, dataPc>>

(* Initialize clears the drops for a new connection; m_aMessages survives. *)
Reset ==
  /\ mainPc = "idle"
  /\ dataDrop' = << >>
  /\ commandDrop' = NoCommand
  /\ dataDropReady' = FALSE
  /\ commandDropReady' = TRUE
  /\ received' = messages
  /\ delivered' = << >>
  /\ accepted' = << >>
  /\ sent' = << >>
  /\ UNCHANGED <<messages, temp, command, dataPc, mainPc>>

-----------------------------------------------------------------------------

PumpStep(t) ==
  \/ TestDataDrop(t) \/ FillDataDrop(t) \/ FlipDataDrop(t) \/ ClearMessages(t)
  \/ TestCommandDrop(t) \/ TakeCommand(t) \/ ReleaseCommandDrop(t) \/ SendCommand(t)

GetDataStep == TestDataReady \/ CopyDataDrop \/ ClearDataDrop \/ GiveBackDataDrop

CommandStep == TestCommandReady \/ (\E c \in Commands : PutCommand(c)) \/ OfferCommand

DataThreadStep(t) ==
  \/ BeginPump(t)
  \/ PumpStep(t)
  \/ \E batch \in Batches : Recv(t, batch)
  \/ Exit(t)

Next ==
  \/ \E t \in Threads : DataThreadStep(t)
  \/ \E t \in Threads : AllOff /\ Start(t)
  \/ GetDataStep
  \/ CommandStep
  \/ AllOff /\ Reset

Spec == Init /\ [][Next]_vars

-----------------------------------------------------------------------------
(* Each box has one owner: no moment when one thread fills, copies or      *)
(* clears s_aDataDrop, or writes or reads s_sCommandDrop, while the other  *)
(* thread is between its test of the flag and its own store of the flag.   *)
(* Without it the two threads race on a vector or a string.                *)
DataDropOwnership ==
  mainPc \in {"copy", "wipe", "giveBack"} =>
    \A t \in Threads : dataPc[t] \notin {"fill", "flip"}

CommandDropOwnership ==
  mainPc \in {"put", "offer"} =>
    \A t \in Threads : dataPc[t] \notin {"take", "release"}

Ownership == DataDropOwnership /\ CommandDropOwnership

(* VBAssert(!s_aDataDrop.size()) of MaintainDrops never fails: the data    *)
(* thread only fills a drop the main thread has emptied.                   *)
DataDropAssert == \A t \in Threads : At(t, "fill") => dataDrop = << >>

(* VBAssert(s_sCommandDrop.length()) of MaintainDrops: a command that was  *)
(* offered is not empty.                                                   *)
CommandDropAssert == \A t \in Threads : At(t, "take") => commandDrop # NoCommand

(* Every packet parsed is returned by GetData once and in order, and every *)
(* command accepted is sent once and in order, however the two threads     *)
(* interleave (what viewback_data.h promises for the two flags).           *)
PacketMailbox == INSTANCE Mailbox
  WITH given <- received, queue <- PacketsInFlight, taken <- delivered
CommandMailbox == INSTANCE Mailbox
  WITH given <- accepted, queue <- CommandsInFlight, taken <- sent

PacketsInOrder == PacketMailbox!Spec
CommandsInOrder == CommandMailbox!Spec
=============================================================================
