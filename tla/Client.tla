------------------------------- MODULE Client -------------------------------
(***************************************************************************)
(* CViewbackClient (client/viewback_client.cpp): what the monitor keeps of *)
(* a server, and the commands it sends.  The monitor calls Update again    *)
(* and again; Update takes the packets its data thread has (DropBox.tla    *)
(* shows that they come in order), installs the last registrations among   *)
(* them, handles the packets that follow, and passes on commands.          *)
(*                                                                         *)
(* The server is reduced to what the client can tell of it: how many       *)
(* channels and which controls are registered, this client's mask, and     *)
(* what it obeys: of the commands that one read gives it, the first; the   *)
(* others are lost.  Every server has one group, of its first channel.     *)
(* Console output, status and slider values are alike here: texts.         *)
(* DataStream.tla has the values.                                          *)
(*                                                                         *)
(* What the data thread still holds when the monitor connects anew, whole  *)
(* packets and the first part of one, is not thrown away.  The packets     *)
(* come first, as if they were of the new connection.  The part makes      *)
(* every packet behind it begin at the wrong byte, as does a packet of     *)
(* which the server's send takes only a part (Framing.tla): what is parsed *)
(* then can be anything.                                                   *)
(***************************************************************************)
EXTENDS Integers, Sequences, SequencesExt

CONSTANTS
  Servers,          \* what a server may have registered: records as Registered below
  MaxChannels,      \* bound: channels of a server
  MaxConnections,   \* bound: connections
  MaxCommands,      \* bound: commands of the monitor for one connection
  MaxSends          \* bound: texts, data and new channels of the servers

VARIABLES
  connected,    \* CViewbackDataThread::IsConnected
  inbox,        \* packets of this connection, on their way or in the data drop
  old,          \* m_aMessages, left over from earlier connections
  cut,          \* history: bytes of this connection are parsed from the wrong place
  drop,         \* s_sCommandDrop, empty while s_bCommandDropReady
  pipe,         \* commands on their way to the server
  server,       \* the connection's server: its channels and controls
  mask,         \* the server's mask for this client
  channels,     \* m_aDataChannels.size()
  active,       \* the channels whose m_bActive is set
  controls,     \* m_aDataControls, as numbers of the server's controls
  unhandled,    \* m_aUnhandledMessages
  outgoing,     \* m_sOutgoingCommands
  connection,   \* history: the number of the connection
  table,        \* history: the connection whose registrations the client has
  renewed,      \* history: this server has sent registrations more than once
  told, shown,  \* history: texts sent and texts shown, on this connection
  stray,        \* history: StashData was given a handle that is not registered
  spoiled,      \* history: so it was, by a packet that is old or parsed wrong
  received,     \* history: commands the server has received, obeyed or not
  lost,         \* history: of these, some were not obeyed
  sends         \* what MaxSends bounds

linkVars   == <<connected, inbox, old, cut, drop, pipe, connection>>
serverVars == <<server, mask, renewed, told, received, lost, sends>>
clientVars == <<channels, active, controls, unhandled, outgoing, table, shown, stray, spoiled>>
vars       == <<linkVars, serverVars, clientVars>>

(* What is registered.  A control of a type the client does not recognise, *)
(* being older than the server, is not installed.                          *)
ControlTypes == {"recognised", "unrecognised"}
Registered   == [channels : 0 .. MaxChannels, controls : Seq(ControlTypes)]

ASSUME ClientAssumption ==
  /\ MaxChannels \in Nat /\ MaxConnections \in Nat
  /\ MaxCommands \in Nat /\ MaxSends \in Nat
  /\ Servers \subseteq Registered

Packet(kind, what) == [kind |-> kind, what |-> what]
Registration(s) == [kind |-> "registration", channels |-> s.channels, controls |-> s.controls]

(* A command holds the number the client wrote into it and, for the        *)
(* history, the connection whose tables it was written by.                 *)
Command(op, arg) == [op |-> op, arg |-> arg, for |-> table]
Sent == received \o pipe \o drop \o outgoing

(* What comes of bytes that are parsed from the wrong place: nothing that  *)
(* means anything or, at worst, data of no channel.                        *)
Junk == {<< >>, <<Packet("data", MaxChannels)>>}

(* Nothing undefined has happened, and packets are parsed as they were     *)
(* sent; what is handled is of this connection.                            *)
Sane  == ~cut /\ ~spoiled
Fresh == Sane /\ old = << >>

TypeOK ==
  /\ {connected, cut, renewed, stray, spoiled, lost} \subseteq BOOLEAN
  /\ server \in Registered
  /\ mask \subseteq 0 .. server.channels - 1
  /\ channels \in 0 .. MaxChannels
  /\ active \subseteq 0 .. channels - 1
  /\ controls \in Seq(Nat \ {0})
  /\ connection \in 0 .. MaxConnections /\ table \in 0 .. connection
  /\ Len(drop) <= 1
  /\ \A i \in 1 .. Len(Sent) :
       Sent[i].op \in {"activate", "deactivate", "group", "control", "console"}

Init ==
  /\ connected = FALSE /\ connection = 0 /\ table = 0
  /\ inbox = << >> /\ old = << >> /\ cut = FALSE /\ drop = << >> /\ pipe = << >>
  /\ server = [channels |-> 0, controls |-> << >>] /\ mask = {}
  /\ channels = 0 /\ active = {} /\ controls = << >>
  /\ unhandled = << >> /\ outgoing = << >>
  /\ renewed = FALSE /\ stray = FALSE /\ spoiled = FALSE /\ lost = FALSE
  /\ told = << >> /\ shown = << >> /\ received = << >>
  /\ sends = 0

-----------------------------------------------------------------------------
(* Update. *)

(* The elements of s at the places in keep.  (SelectSeq would do, but the  *)
(* provers cannot expand it.)                                              *)
Kept(s, keep) ==
  LET kept[n \in 0 .. Len(s)] ==
        IF n = 0 THEN << >>
        ELSE IF n \in keep THEN Append(kept[n - 1], s[n]) ELSE kept[n - 1]
  IN  kept[Len(s)]

Texts(packets) == Kept(packets, {i \in 1 .. Len(packets) : packets[i].kind = "text"})

(* The controls installed from a registration packet, by their numbers. *)
Installed(kinds) ==
  Kept([j \in 1 .. Len(kinds) |-> j], {j \in 1 .. Len(kinds) : kinds[j] = "recognised"})

(* The place of the last registration packet, 0 if there is none. *)
LastRegistration(packets) ==
  SelectLastInSeq(packets, LAMBDA p : p.kind = "registration")

(* Faulty variant: commands are passed on while the drop is not free. *)
PumpWhenFull ==
  \E k \in 0 .. Len(outgoing) :
    /\ drop = << >> => k = 0
    /\ IF k = 0 THEN UNCHANGED <<drop, pipe, outgoing>>
       ELSE /\ pipe' = pipe \o drop \o SubSeq(outgoing, 1, k - 1)
            /\ drop' = <<outgoing[k]>>
            /\ outgoing' = SubSeq(outgoing, k + 1, Len(outgoing))

(* The first k commands are passed on, as far as the command drop is free  *)
(* or the data thread frees it in the meantime.                            *)
PumpCommands ==
  \E k \in 0 .. Len(outgoing) :
    /\ drop = << >> /\ outgoing # << >> => k > 0
    /\ IF k = 0 THEN UNCHANGED <<drop, pipe, outgoing>>
       ELSE /\ pipe' = pipe \o drop \o SubSeq(outgoing, 1, k - 1)
            /\ drop' = <<outgoing[k]>>
            /\ outgoing' = SubSeq(outgoing, k + 1, Len(outgoing))

(* Whose registrations are installed now. *)
TableNow == IF old = << >> THEN connection ELSE 0

(* Faulty variant: the first registration packet counts. *)
InstallOnce(packets, r) ==
  IF r = 0 \/ table = connection THEN UNCHANGED <<channels, active, controls, table>>
  ELSE /\ channels' = packets[r].channels
       /\ active' = {}
       /\ controls' = Installed(packets[r].controls)
       /\ table' = TableNow

(* The tables after the packets: those of the last registration packet, or *)
(* unchanged.                                                              *)
Install(packets, r) ==
  IF r = 0 THEN UNCHANGED <<channels, active, controls, table>>
  ELSE /\ channels' = packets[r].channels
       /\ active' = {}
       /\ controls' = Installed(packets[r].controls)
       /\ table' = TableNow

NothingInstalled == channels' = 0 /\ controls' = << >>

(* Nothing is registered: the packets are put aside, and that is all.      *)
Stash(packets, r) ==
  /\ NothingInstalled
  /\ unhandled' = (IF r = 0 THEN unhandled ELSE << >>) \o packets
  /\ UNCHANGED <<shown, stray, spoiled, drop, pipe, outgoing>>

(* The packets are handled; texts of an earlier connection are shown, but  *)
(* are none of this connection's.                                          *)
Take(rest) ==
  LET outside == \E i \in 1 .. Len(rest) : rest[i].kind = "data" /\ rest[i].what >= channels'
  IN  /\ shown' = IF old = << >> THEN shown \o Texts(rest) ELSE shown
      /\ stray' = (stray \/ (Fresh /\ outside))
      /\ spoiled' = (spoiled \/ (~Fresh /\ outside))

(* Faulty variant: the packet after the registration is passed over too.   *)
HandleLater(packets, r) ==
  /\ ~NothingInstalled
  /\ unhandled' = << >>
  /\ LET all == (IF r = 0 THEN unhandled ELSE << >>) \o packets
     IN  Take(SubSeq(all, r + 2, Len(all)))
  /\ PumpCommands

(* What was put aside goes to the front, the packets behind the            *)
(* registration are handled, and commands are passed on.                   *)
Handle(packets, r) ==
  /\ ~NothingInstalled
  /\ unhandled' = << >>
  /\ LET all == (IF r = 0 THEN unhandled ELSE << >>) \o packets
     IN  Take(SubSeq(all, r + 1, Len(all)))
  /\ PumpCommands

Process(packets) ==
  LET r == LastRegistration(packets)
  IN  Install(packets, r) /\ (Stash(packets, r) \/ Handle(packets, r))

(* Update with a connection.  The data drop holds the first n packets of   *)
(* this connection or, before all of these, what earlier ones left.        *)
Update ==
  /\ connected
  /\ \/ \E n \in 0 .. Len(inbox) :
          /\ n > 0 => old = << >>
          /\ inbox' = SubSeq(inbox, n + 1, Len(inbox))
          /\ Process(SubSeq(inbox, 1, n))
          /\ UNCHANGED old
     \/ /\ old # << >> /\ old' = << >>
        /\ Process(old)
        /\ UNCHANGED inbox
  /\ UNCHANGED <<connected, cut, connection, serverVars>>

(* Update without one: if there were channels, all is cleared. *)
UpdateDisconnected ==
  /\ ~connected
  /\ IF channels > 0 THEN channels' = 0 /\ active' = {} /\ controls' = << >>
     ELSE UNCHANGED <<channels, active, controls>>
  /\ UNCHANGED <<linkVars, serverVars, unhandled, outgoing, table, shown, stray, spoiled>>

-----------------------------------------------------------------------------
(* The calls of the monitor, which uses the tables it was shown.           *)

Issue(command) ==
  /\ Len(Sent) < MaxCommands
  /\ outgoing' = Append(outgoing, command)
  /\ UNCHANGED <<linkVars, serverVars, channels, controls, unhandled, table, shown, stray, spoiled>>

ActivateChannel == \E ch \in 0 .. channels - 1 :
  /\ Issue(Command("activate", ch))
  /\ active' = active \cup {ch}

DeactivateChannel == \E ch \in 0 .. channels - 1 :
  /\ Issue(Command("deactivate", ch))
  /\ active' = active \ {ch}

(* Faulty variant: the other channels keep their marks. *)
ActivateGroupToo ==
  /\ channels > 0
  /\ Issue(Command("group", 0))
  /\ active' = active \cup {0}

ActivateGroup ==
  /\ channels > 0
  /\ Issue(Command("group", 0))
  /\ active' = {0}

(* The server is told the control's place in m_aDataControls, or runs the  *)
(* command the monitor has put in place of a button's own.                 *)
ControlCallback == \E j \in 1 .. Len(controls) :
  /\ Issue(Command("control", j - 1)) \/ Issue(Command("console", 0))
  /\ UNCHANGED active

SendConsoleCommand == Issue(Command("console", 0)) /\ UNCHANGED active

(* Connect: the data thread clears its drops and keeps the rest: of the    *)
(* packets under way the first are in the data drop and cleared, the last  *)
(* not yet read.  The tables, the packets put aside and the commands in    *)
(* the list stay too.  The registrations come first, unless a part of a    *)
(* packet stands before them or the server's send takes only a part of     *)
(* them.                                                                   *)
Connect(s) ==
  /\ connection < MaxConnections
  /\ connection' = connection + 1
  /\ connected' = TRUE
  /\ LET all == old \o inbox IN
       \E i \in 1 .. Len(all) + 1, j \in 0 .. Len(all) : old' = SubSeq(all, i, j)
  /\ cut' \in BOOLEAN
  /\ inbox' = IF cut' THEN << >> ELSE <<Registration(s)>>
  /\ drop' = << >> /\ pipe' = << >>
  /\ server' = s /\ mask' = {} /\ renewed' = FALSE /\ lost' = FALSE
  /\ told' = << >> /\ shown' = << >> /\ received' = << >>
  /\ UNCHANGED <<channels, active, controls, unhandled, outgoing, table, stray, spoiled, sends>>

(* Disconnect, or the connection is lost. *)
Disconnect ==
  /\ connected
  /\ connected' = FALSE
  /\ UNCHANGED <<inbox, old, cut, drop, pipe, connection, serverVars, clientVars>>

Monitor ==
  \/ ActivateChannel \/ DeactivateChannel \/ ActivateGroup
  \/ ControlCallback \/ SendConsoleCommand
  \/ (\E s \in Servers : Connect(s)) \/ Disconnect

-----------------------------------------------------------------------------
(* The data thread sends the command. *)
SendCommand ==
  /\ connected /\ drop # << >>
  /\ pipe' = pipe \o drop
  /\ drop' = << >>
  /\ UNCHANGED <<connected, inbox, old, cut, connection, serverVars, clientVars>>

(* The server sends something of its own, all of it or only a part. *)
ServerSends(packet) ==
  /\ connected /\ sends < MaxSends
  /\ sends' = sends + 1
  /\ \/ ~cut /\ UNCHANGED cut /\ inbox' = Append(inbox, packet)
     \/ cut' = TRUE /\ \E junk \in Junk : inbox' = inbox \o junk
  /\ UNCHANGED <<connected, old, drop, pipe, connection, mask, received, lost, clientVars>>

Tell == LET text == Packet("text", sends) IN
  /\ ServerSends(text)
  /\ told' = Append(told, text)
  /\ UNCHANGED <<server, renewed>>

SendData == \E ch \in mask :
  /\ ServerSends(Packet("data", ch))
  /\ UNCHANGED <<server, renewed, told>>

(* The game sends to a channel it has not registered, which adds it and    *)
(* sends the registrations anew.                                           *)
Add(s) ==
  /\ s.channels <= MaxChannels
  /\ ServerSends(Registration(s))
  /\ server' = s /\ renewed' = TRUE
  /\ UNCHANGED told

AddChannel == Add([server EXCEPT !.channels = @ + 1])

(* Faulty variant: the server does not look whether it has the channel. *)
MaskUnchecked(c) ==
  CASE c.op = "activate"   -> mask \cup {c.arg}
    [] c.op = "deactivate" -> mask \ {c.arg}
    [] c.op = "group"      -> {0} \cap 0 .. server.channels - 1
    [] OTHER               -> mask

(* The mask when the server has obeyed c. *)
MaskAfter(c) ==
  CASE c.op = "activate"   -> mask \cup ({c.arg} \cap 0 .. server.channels - 1)
    [] c.op = "deactivate" -> mask \ {c.arg}
    [] c.op = "group"      -> {0} \cap 0 .. server.channels - 1
    [] OTHER               -> mask

(* One read gives the server the first n commands; it obeys the first. *)
Obey ==
  /\ connected
  /\ \E n \in 1 .. Len(pipe) :
       /\ mask' = MaskAfter(Head(pipe))
       /\ received' = received \o SubSeq(pipe, 1, n)
       /\ lost' = (lost \/ n > 1)
       /\ pipe' = SubSeq(pipe, n + 1, Len(pipe))
  /\ UNCHANGED <<connected, inbox, old, cut, drop, connection, server, renewed, told, sends,
                 clientVars>>

Server == Tell \/ SendData \/ AddChannel \/ Obey

-----------------------------------------------------------------------------

Next == Update \/ UpdateDisconnected \/ Monitor \/ SendCommand \/ Server

(* The monitor calls Update again and again, and the data thread runs.     *)
(* Nothing is assumed of the server.                                       *)
Fairness == WF_vars(Update) /\ WF_vars(SendCommand)

Spec == Init /\ [][Next]_vars /\ Fairness

-----------------------------------------------------------------------------
(* Nothing is under way; no command was written for another connection. *)
Settled == connected /\ inbox = << >> /\ outgoing = << >> /\ drop = << >> /\ pipe = << >>
Own == \A i \in 1 .. Len(Sent) : Sent[i].for = connection

(* Whatever is added, and however packets come together, the client ends   *)
(* up with the registrations of the server, although what earlier          *)
(* connections left comes first, unless packets were parsed wrong.         *)
RegistrationsCatchUp ==
  connected /\ Sane /\ inbox = << >> =>
    /\ table = connection /\ channels = server.channels
    /\ controls = Installed(server.controls)

(* StashData is never given a handle outside m_aData by a packet of this   *)
(* connection, not even when a command meant for another server activates  *)
(* a channel on this one.  (A packet of an earlier one may give it one.)   *)
NoStrayHandle == ~stray

(* Once all commands are through, the channels marked active are those the *)
(* server sends, provided registrations came once, no command was written  *)
(* for an earlier server and the server read commands one at a time.       *)
ActiveAgrees == Settled /\ Sane /\ ~renewed /\ ~lost /\ Own => active = mask

(* Every text reaches the monitor, in order, if anything was registered    *)
(* from the start and nothing was added later.                             *)
TextsShown ==
  connected /\ Sane /\ ~renewed /\ (server.channels > 0 \/ Installed(server.controls) # << >>)
    => told = shown \o Texts(inbox)

(* A command is passed to the data thread in the end, unless the           *)
(* connection ends, the server has nothing registered or a stray handle    *)
(* was followed.                                                           *)
CommandsLeave ==
  connected /\ outgoing # << >> ~>
    (~connected \/ outgoing = << >> \/ (channels = 0 /\ controls = << >>) \/ spoiled)
=============================================================================
