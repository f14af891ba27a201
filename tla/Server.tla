------------------------------- MODULE Server -------------------------------
(***************************************************************************)
(* The server core (server/viewback.c): vb_server_create, _update and      *)
(* _shutdown, and everything that sends to the connected clients.  The     *)
(* program is single-threaded, but clients connect, send, close and reset  *)
(* their connections between any two steps of vb_server_update, a send can *)
(* fail and free a slot in the middle of a loop, and descriptor numbers    *)
(* are used again.  A client here is one TCP connection.  A packet of      *)
(* which send() takes only a part counts as sent, as in the code; what     *)
(* becomes of its bytes is in Framing.                                     *)
(*                                                                         *)
(* Masks are sets of channels, which those of ChannelMask are for up to    *)
(* eight channels; DataStream has the values that are sent.                *)
(***************************************************************************)
EXTENDS Integers, Sequences, FiniteSets

CONSTANTS
  MaxConnections,   \* config.max_connections
  Clients, Channels,
  Fds,              \* descriptors the operating system can hand out
  Invalid,          \* VB_INVALID_SOCKET
  NoClient,         \* what a closed descriptor refers to
  Repertoire,       \* the commands the clients use
  FirstPort,        \* config.tcp_port
  BusyPorts,        \* ports that are taken, a finite set
  MaxSends,         \* bound: what the game sends of itself
  MaxCommands,      \* bound: commands of one client
  MaxRestarts       \* bound: calls of vb_server_shutdown

ASSUME ServerAssumption ==
  /\ MaxConnections \in Nat \ {0}
  /\ Invalid \notin Fds /\ "listen" \notin Fds /\ NoClient \notin Clients
  /\ Channels \cap {"registrations", "control", "text"} = {}
  /\ FirstPort \in Nat /\ BusyPorts \subseteq Nat
  /\ {MaxSends, MaxCommands, MaxRestarts} \subseteq Nat

VARIABLES
  active,     \* server_active
  port,       \* config.tcp_port, which vb_server_create advances
  socket,     \* connections[i].socket
  mask,       \* connections[i].active_channels, as a set
  mesg,       \* what the stack holds where vb_server_update receives
  pc,         \* where vb_server_update stands: outside, accepting, or at a slot
  readable,   \* read_fds after select, with "listen" for tcp_socket
  owner,      \* the connection a descriptor refers to
  backlog,    \* connections waiting for accept
  state,      \* the client's end of its connection
  commands,   \* commands under way to the server
  stream,     \* history: what was sent to the client, in order of the first time
  sent,       \* history: how many commands the client sent
  heard,      \* history: the client's commands that were obeyed
  stale,      \* history: a slot was left with the number of a closed descriptor
  sends, restarts   \* what MaxSends and MaxRestarts bound

serverVars == <<active, port, socket, mask, mesg, pc, readable>>
netVars    == <<owner, backlog, state, commands, stream, sent>>
gameVars   == <<heard, stale, sends, restarts>>
vars       == <<serverVars, netVars, gameVars>>

Slots == 0 .. MaxConnections - 1

(* Where vb_server_update stands: before it, at accept, at slot pc of the  *)
(* loop, or behind the loop.                                               *)
Outside   == -2
Accepting == -1
Polling   == MaxConnections

(* What a command asks for.  "control" stands for a slider, whose new      *)
(* value every other client is told; those with a callback are alike.      *)
Command(op, chs) == [op |-> op, channels |-> chs]
CommandSet ==
  [op : {"registrations", "console", "control"}, channels : {{}}]
    \cup [op : {"activate", "deactivate"}, channels : {{ch} : ch \in Channels}]
    \cup [op : {"group"}, channels : {Channels}]
Unused == Command("none", {})    \* stack contents that are no command

ASSUME RepertoireAssumption == Repertoire \subseteq CommandSet

Messages  == {"registrations", "control", "text"} \cup Channels

TypeOK ==
  /\ active \in BOOLEAN
  /\ port \in Nat
  /\ socket \in [Slots -> Fds \cup {Invalid}]
  /\ mask \in [Slots -> SUBSET Channels]
  /\ mesg \in CommandSet \cup {Unused}
  /\ pc \in Outside .. Polling
  /\ readable \subseteq Fds \cup {"listen"}
  /\ owner \in [Fds -> Clients \cup {NoClient}]
  /\ backlog \in Seq(Clients)
  /\ state \in [Clients -> {"new", "open", "closed", "reset"}]
  /\ commands \in [Clients -> Seq(CommandSet)]
  /\ stream \in [Clients -> Seq(Messages)]
  /\ sent \in [Clients -> Nat]
  /\ heard \in [Clients -> Seq(CommandSet)]
  /\ stale \in BOOLEAN
  /\ sends \in Nat /\ restarts \in Nat

Init ==
  /\ active = FALSE /\ port = FirstPort
  /\ socket = [i \in Slots |-> Invalid]
  /\ mask = [i \in Slots |-> {}]
  /\ mesg = Unused /\ pc = Outside /\ readable = {}
  /\ owner = [f \in Fds |-> NoClient]
  /\ backlog = << >>
  /\ state = [c \in Clients |-> "new"]
  /\ commands = [c \in Clients |-> << >>]
  /\ stream = [c \in Clients |-> << >>]
  /\ sent = [c \in Clients |-> 0]
  /\ heard = [c \in Clients |-> << >>]
  /\ stale = FALSE /\ sends = 0 /\ restarts = 0

Taken  == {i \in Slots : socket[i] # Invalid}
Free   == Slots \ Taken
Peer(i) == owner[socket[i]]
FirstFree == CHOOSE i \in Free : \A j \in Free : i <= j
Active(ch) == {i \in Taken : ch \in mask[i]}

(* A connection that still works at both ends, seen from a descriptor.     *)
Works(f) == owner[f] # NoClient /\ state[owner[f]] = "open"

-----------------------------------------------------------------------------
(* vb__socket_send to each of slots in turn.  A send to a closed           *)
(* descriptor fails; any other may, to a client that is gone or to one     *)
(* that does not read, for on Unix the sockets never block                 *)
(* (viewback_unix.h:39).  The descriptor is then closed and the slot       *)
(* freed, and the loop goes on.                                            *)
Sendable(slots) == {failed \in SUBSET slots :
  /\ \A i \in slots : Peer(i) = NoClient => i \in failed
  /\ \A i \in failed, j \in slots : i < j /\ socket[i] = socket[j] => j \in failed}

(* The history of client c, when m is sent to slots. *)
SentBefore(c, m) == \E k \in DOMAIN stream[c] : stream[c][k] = m

Receives(c, slots, m) ==
  IF (\E i \in slots : Peer(i) = c) /\ ~SentBefore(c, m) THEN Append(stream[c], m)
  ELSE stream[c]

(* Faulty variant: the descriptor is closed but the slot keeps its number. *)
SendToKeepsSlot(slots, m) == \E failed \in Sendable(slots) :
  /\ stream' = [c \in Clients |-> Receives(c, slots \ failed, m)]
  /\ owner' = [f \in Fds |-> IF \E i \in failed : socket[i] = f THEN NoClient ELSE owner[f]]
  /\ UNCHANGED socket

SendTo(slots, m) == \E failed \in Sendable(slots) :
  /\ stream' = [c \in Clients |-> Receives(c, slots \ failed, m)]
  /\ socket' = [i \in Slots |-> IF i \in failed THEN Invalid ELSE socket[i]]
  /\ owner' = [f \in Fds |-> IF \E i \in failed : socket[i] = f THEN NoClient ELSE owner[f]]

-----------------------------------------------------------------------------
(* vb_server_update, one step for each of its system calls. *)

(* Faulty variant: the test for room is reversed. *)
SelectWhenFull ==
  /\ active /\ pc = Outside /\ pc' = Accepting
  /\ LET fds   == {socket[i] : i \in Taken}
         given == fds \cup (IF Free = {} THEN {"listen"} ELSE {})
     IN  readable' = {f \in given : IF f = "listen" THEN backlog # << >>
                                    ELSE ~Works(f) \/ commands[owner[f]] # << >>}
  /\ UNCHANGED <<active, port, socket, mask, mesg, netVars, gameVars>>

(* FD_SET and select.  With a closed descriptor among them select fails,   *)
(* and leaves the set as it was given.                                     *)
Select ==
  /\ active /\ pc = Outside /\ pc' = Accepting
  /\ LET fds   == {socket[i] : i \in Taken}
         given == fds \cup (IF Free # {} THEN {"listen"} ELSE {})
     IN  readable' = IF \E f \in fds : owner[f] = NoClient THEN given
                     ELSE {f \in given : IF f = "listen" THEN backlog # << >>
                                         ELSE ~Works(f) \/ commands[owner[f]] # << >>}
  /\ UNCHANGED <<active, port, socket, mask, mesg, netVars, gameVars>>

(* No connection, or one that is gone again. *)
AcceptNothing ==
  /\ pc = Accepting /\ pc' = 0
  /\ "listen" \notin readable \/ backlog = << >>
  /\ UNCHANGED <<active, port, socket, mask, mesg, readable, netVars, gameVars>>

(* The descriptor of connection c goes into the first free slot, and m is  *)
(* sent to it, or that already fails.                                      *)
Greet(c, m) ==
  \/ \E f \in Fds :
       /\ owner[f] = NoClient
       /\ owner' = [owner EXCEPT ![f] = c]
       /\ socket' = [socket EXCEPT ![FirstFree] = f]
       /\ stream' = [stream EXCEPT ![c] = @ \o m]
  \/ UNCHANGED <<owner, socket, stream>>

(* Faulty variants: the mask is not cleared; no registrations are sent. *)
AcceptUncleared ==
  /\ pc = Accepting /\ "listen" \in readable /\ backlog # << >> /\ pc' = 0
  /\ backlog' = Tail(backlog)
  /\ Greet(Head(backlog), <<"registrations">>)
  /\ UNCHANGED <<active, port, mask, mesg, readable, state, commands, sent, gameVars>>

AcceptUnannounced ==
  /\ pc = Accepting /\ "listen" \in readable /\ backlog # << >> /\ pc' = 0
  /\ backlog' = Tail(backlog)
  /\ mask' = [mask EXCEPT ![FirstFree] = {}]
  /\ Greet(Head(backlog), << >>)
  /\ UNCHANGED <<active, port, mesg, readable, state, commands, sent, gameVars>>

(* The first waiting connection gets a slot, a cleared mask and the        *)
(* registrations.                                                          *)
Accept ==
  /\ pc = Accepting /\ "listen" \in readable /\ backlog # << >> /\ pc' = 0
  /\ backlog' = Tail(backlog)
  /\ mask' = [mask EXCEPT ![FirstFree] = {}]
  /\ Greet(Head(backlog), <<"registrations">>)
  /\ UNCHANGED <<active, port, mesg, readable, state, commands, sent, gameVars>>

(* vb__socket_set_blocking fails: the connection is closed, and the slot    *)
(* keeps its number and its old mask.                                       *)
AcceptFails ==
  /\ pc = Accepting /\ "listen" \in readable /\ backlog # << >> /\ pc' = 0
  /\ backlog' = Tail(backlog)
  /\ \E f \in Fds : owner[f] = NoClient /\ socket' = [socket EXCEPT ![FirstFree] = f]
  /\ stale' = TRUE
  /\ UNCHANGED <<active, port, mask, mesg, readable, owner, state, commands, stream, sent,
                 heard, sends, restarts>>

-----------------------------------------------------------------------------
(* The loop over the slots: recv, and what the message asks for. *)

Readable(i) == pc = i /\ i \in Taken /\ socket[i] \in readable

Advance(i) == pc' = i + 1

Skip(i) ==
  /\ pc = i /\ (i \notin Taken \/ socket[i] \notin readable)
  /\ Advance(i)
  /\ UNCHANGED <<active, port, socket, mask, mesg, readable, netVars, gameVars>>

(* Faulty variant: an orderly close is taken for an empty message. *)
HangUpIgnored(i) ==
  /\ Readable(i) /\ Peer(i) # NoClient
  /\ state[Peer(i)] = "closed" /\ commands[Peer(i)] = << >>
  /\ Advance(i)
  /\ UNCHANGED <<active, port, socket, mask, mesg, readable, netVars, gameVars>>

(* n == 0: the client closed the connection. *)
HangUp(i) ==
  /\ Readable(i) /\ Peer(i) # NoClient
  /\ state[Peer(i)] = "closed" /\ commands[Peer(i)] = << >>
  /\ Advance(i)
  /\ owner' = [owner EXCEPT ![socket[i]] = NoClient]
  /\ socket' = [socket EXCEPT ![i] = Invalid]
  /\ UNCHANGED <<active, port, mask, mesg, readable, backlog, state, commands, stream, sent,
                 gameVars>>

(* The channels a client has activated, after one more command. *)
Asked(chs, m) ==
  CASE m.op = "activate"   -> chs \cup m.channels
    [] m.op = "deactivate" -> chs \ m.channels
    [] m.op = "group"      -> m.channels
    [] OTHER               -> chs

(* Whom a command makes the server answer.  The game runs a console        *)
(* command at once, and its console answers through vb_console_append.     *)
Answer(i, m) ==
  CASE m.op = "registrations" -> SendTo({i}, "registrations")
    [] m.op = "control"       -> SendTo(Taken \ {i}, "control")
    [] m.op = "console"       -> SendTo(Taken, "text")
    [] OTHER                  -> UNCHANGED <<owner, socket, stream>>

(* What the command in the buffer does, whether client i sent it or not.   *)
Obey(i, m) ==
  /\ mask' = [mask EXCEPT ![i] = Asked(@, m)]
  /\ Answer(i, m)

(* n > 0: everything that has arrived comes in one read, and only what     *)
(* stands at its beginning is looked at.                                   *)
Receive(i) ==
  /\ Readable(i) /\ Peer(i) # NoClient
  /\ state[Peer(i)] # "reset"
  /\ LET c == Peer(i)
     IN  \E n \in 1 .. Len(commands[c]) :
           /\ commands' = [commands EXCEPT ![c] = SubSeq(@, n + 1, Len(@))]
           /\ mesg' = commands[c][1]
           /\ Obey(i, commands[c][1])
           /\ heard' = [heard EXCEPT ![c] = Append(@, commands[c][1])]
  /\ Advance(i)
  /\ UNCHANGED <<active, port, readable, backlog, state, sent, stale, sends, restarts>>

(* n < 0 is not tested for: the connection was reset, the descriptor is    *)
(* closed, or it was read dry through another slot.  The buffer, which is  *)
(* not initialised, is obeyed: it holds the last message, or other data    *)
(* that has used the stack since.                                          *)
ReceiveFails(i) ==
  /\ Readable(i)
  /\ Peer(i) # NoClient => \/ state[Peer(i)] = "reset"
                           \/ state[Peer(i)] = "open" /\ commands[Peer(i)] = << >>
  /\ state' = [c \in Clients |-> IF Peer(i) = c /\ state[c] = "reset" THEN "closed" ELSE state[c]]
  /\ \E m \in {mesg, Unused} : Obey(i, m)
  /\ Advance(i)
  /\ UNCHANGED <<active, port, mesg, readable, backlog, commands, sent, heard, stale, sends,
                 restarts>>

(* The end of the update: an address slider may have been changed by the   *)
(* game, and every client is told.                                         *)
Poll ==
  /\ pc = Polling /\ pc' = Outside /\ readable' = {}
  /\ \/ UNCHANGED <<owner, socket, stream, sends>>
     \/ sends < MaxSends /\ sends' = sends + 1 /\ SendTo(Taken, "control")
  /\ UNCHANGED <<active, port, mask, mesg, backlog, state, commands, sent, heard, stale,
                 restarts>>

Serve(i) == Skip(i) \/ HangUp(i) \/ Receive(i) \/ ReceiveFails(i)

Update == Select \/ AcceptNothing \/ Accept \/ AcceptFails \/ (\E i \in Slots : Serve(i)) \/ Poll

-----------------------------------------------------------------------------
(* The game's other calls. *)

Game == pc = Outside /\ active /\ sends < MaxSends /\ sends' = sends + 1

(* Faulty variant: the mask is not looked at. *)
SendDataToAll(ch) ==
  /\ Game /\ SendTo(Taken, ch)
  /\ UNCHANGED <<active, port, mask, mesg, pc, readable, backlog, state, commands, sent, heard, stale,
                 restarts>>

(* vb_data_send_int and its like, for a value that is not tossed. *)
SendData(ch) ==
  /\ Game /\ SendTo(Active(ch), ch)
  /\ UNCHANGED <<active, port, mask, mesg, pc, readable, backlog, state, commands, sent, heard, stale,
                 restarts>>

(* vb_console_append, vb_status_set, and a channel added on the run, whose *)
(* registrations go to everybody.                                          *)
SendToEverybody ==
  /\ Game /\ \E m \in {"text", "registrations"} : SendTo(Taken, m)
  /\ UNCHANGED <<active, port, mask, mesg, pc, readable, backlog, state, commands, sent, heard, stale,
                 restarts>>

(* vb_server_create tries five ports; where it fails it has used them up.  *)
Tries == 0 .. 4

Create ==
  /\ pc = Outside /\ ~active
  /\ \E k \in Tries :
       /\ port + k \notin BusyPorts
       /\ \A j \in 0 .. k - 1 : port + j \in BusyPorts
       /\ port' = port + k
  /\ active' = TRUE
  /\ UNCHANGED <<socket, mask, mesg, pc, readable, netVars, gameVars>>

CreateFails ==
  /\ pc = Outside /\ ~active
  /\ \A k \in Tries : port + k \in BusyPorts
  /\ port' = port + 5
  /\ UNCHANGED <<active, socket, mask, mesg, pc, readable, netVars, gameVars>>

(* vb_server_shutdown closes every descriptor and keeps the numbers.       *)
Shutdown ==
  /\ pc = Outside /\ active /\ restarts < MaxRestarts
  /\ active' = FALSE /\ restarts' = restarts + 1
  /\ owner' = [f \in Fds |-> IF \E i \in Slots : socket[i] = f THEN NoClient ELSE owner[f]]
  /\ backlog' = << >>
  /\ stale' = (stale \/ Taken # {})
  /\ UNCHANGED <<port, socket, mask, mesg, pc, readable, state, commands, stream, sent, heard,
                 sends>>

-----------------------------------------------------------------------------
(* The clients and the network. *)

Dial(c) ==
  /\ active /\ state[c] = "new"
  /\ state' = [state EXCEPT ![c] = "open"]
  /\ backlog' = Append(backlog, c)
  /\ UNCHANGED <<serverVars, owner, commands, stream, sent, gameVars>>

ClientSend(c) ==
  /\ state[c] = "open" /\ sent[c] < MaxCommands
  /\ \E m \in Repertoire : commands' = [commands EXCEPT ![c] = Append(@, m)]
  /\ sent' = [sent EXCEPT ![c] = @ + 1]
  /\ UNCHANGED <<serverVars, owner, backlog, state, stream, gameVars>>

Close(c) ==
  /\ state[c] = "open"
  /\ state' = [state EXCEPT ![c] = "closed"]
  /\ UNCHANGED <<serverVars, owner, backlog, commands, stream, sent, gameVars>>

(* A client that closes with unread data resets, and what it sent is gone. *)
Reset(c) ==
  /\ state[c] = "open"
  /\ state' = [state EXCEPT ![c] = "reset"]
  /\ commands' = [commands EXCEPT ![c] = << >>]
  /\ UNCHANGED <<serverVars, owner, backlog, stream, sent, gameVars>>

Client(c) == Dial(c) \/ ClientSend(c) \/ Close(c) \/ Reset(c)

Next ==
  \/ Update
  \/ \E ch \in Channels : SendData(ch)
  \/ SendToEverybody \/ Create \/ CreateFails \/ Shutdown
  \/ \E c \in Clients : Client(c)

(* The game calls vb_server_update every frame (viewback.h:399); nothing   *)
(* else has to happen.                                                     *)
Spec == Init /\ [][Next]_vars /\ WF_vars(Update)

-----------------------------------------------------------------------------
(* The channels a client has asked for and not left out of a later         *)
(* command, among its commands that were obeyed.                           *)
AsksFor(m, ch)  == ch \in m.channels /\ m.op # "deactivate"
LeavesOut(m, ch) == \/ m.op = "deactivate" /\ ch \in m.channels
                    \/ m.op = "group" /\ ch \notin m.channels
AskedBy(c) == {ch \in Channels : \E k \in DOMAIN heard[c] :
  /\ AsksFor(heard[c][k], ch)
  /\ \A l \in DOMAIN heard[c] : l > k => ~LeavesOut(heard[c][l], ch)}

(* No descriptor is held by two slots, and none is leaked: an open one     *)
(* belongs to a slot.  A failed accept or a shutdown leaves a slot with a  *)
(* number that is given out again; until then this holds.                  *)
OneSlotEach == ~stale =>
  /\ \A i, j \in Taken : socket[i] = socket[j] => i = j
  /\ \A f \in Fds : owner[f] # NoClient => \E i \in Taken : socket[i] = f

(* Whatever slots were used before, and whatever sends and reads failed:   *)
(* the mask of a connection that was not reset is what its own client      *)
(* asked for since it connected, in the commands that were obeyed.         *)
MaskIsAsked == ~stale =>
  \A i \in Taken : Works(socket[i]) => mask[i] = AskedBy(Peer(i))

(* "Before sending any data the server will automatically send a           *)
(* registration packet" (NetworkProtocol.md:19).                           *)
RegistrationsFirst ==
  \A c \in Clients : stream[c] # << >> => stream[c][1] = "registrations"

(* "all channels begin deactivated, and the client must request that a     *)
(* channel be activated" (NetworkProtocol.md:19): a client is never sent a *)
(* channel that none of its commands has asked for.  One that reset its    *)
(* connection may be: the read that fails obeys another client's command.  *)
OnlyAskedChannels == ~stale =>
  \A c \in Clients, ch \in Channels :
    state[c] = "open" /\ SentBefore(c, ch) =>
      \E k \in DOMAIN heard[c] : AsksFor(heard[c][k], ch)

(* A client that connects is accepted, unless the server is as full as     *)
(* max_connections allows (viewback.h:153) or slots were left with the     *)
(* numbers of closed descriptors, which stay taken.                        *)
Live == {c \in Clients : \E f \in Fds : owner[f] = c}
WaitingIsAccepted == \A c \in Clients :
  (\E k \in DOMAIN backlog : backlog[k] = c) ~>
    \/ stale
    \/ Cardinality(Live) >= MaxConnections
    \/ ~ \E k \in DOMAIN backlog : backlog[k] = c

(* A client that leaves gives its slot back.                               *)
LeftIsForgotten == \A c \in Clients :
  (state[c] # "open" /\ c \in Live) ~> (c \notin Live \/ ~active)
=============================================================================
