# Viewback: a TLA+ model

Viewback shows live values of a running game on another machine. A game links
the **server** (`src/server`, C), registers *channels*, *groups*, *labels* and
*controls*, and calls `vb_server_update` once per frame; a monitor links the
**client** (`src/client`, C++), which finds servers by multicast, connects by TCP,
activates channels and receives their data. This directory holds TLA+ modules
of that code, the TLC runs that check them and the TLAPS proofs about them.

## Inventory

| Component | State | Operations | Interacts with |
|---|---|---|---|
| Data thread, `client/viewback_data.cpp` | atomics `s_bRunning`, `s_bConnected`, `s_bDisconnect`, `s_bDataDropReady`, `s_bCommandDropReady`; `s_aDataDrop`, `s_sCommandDrop`, `m_aMessages`, `m_aLeftover`, `m_socket`, `m_iThread` | `Connect`, `Disconnect`, `Shutdown`, `GetData`, `SendConsoleCommand`; the thread's `Pump` and `MaintainDrops` | shared memory with the main thread; a TCP stream from the server |
| Client, `client/viewback_client.cpp` | channels, groups, controls, data and metadata, unhandled messages, outgoing commands, status | `Update`, `Connect`, `FindServer`, `Disconnect`, `ActivateChannel`, `DeactivateChannel`, `ActivateGroup`, `ControlCallback`, `SendConsoleCommand`; `StashData`, `PredictCurrentTime` | polls the data thread and the server list; callbacks into the monitor |
| Server list thread, `client/viewback_servers.cpp` | `m_aServers`, `s_servers_drop` under a mutex, shutdown flags | `Run`, `Shutdown`, `Pump`, `GetServers` | multicast datagrams |
| Server core, `server/viewback.c` | one memory block: configuration, registrations, connections with an activation mask each, sockets, time | configuration, registration, `vb_server_create`, `vb_server_update`, `vb_server_shutdown`, data, console and status sending | sockets; callbacks into the game |
| Channel activation (same file) | the masks at the end of the block | activate, deactivate, group, slot reuse, growth | server core |
| Data stream (same file, and `StashData`) | last value and maintain time of a channel | `vb_data_send_*`, `StashData` | server to client |
| Registry and controls (same file) | numbers of registered channels, groups, members, labels, controls; values | `vb_data_add_*`, `vb_data_set_control_*` | server core, configuration file |
| Configuration file, `server/viewback_config.h` | a file of control values | lexer, parser, `load`, `write` | controls |
| Utility layer, `server/viewback_util.cpp` | registrations to be replayed | `vb_util_*` | server core |
| Message encoding, `server/viewback.c` from line 1782 | none | size prediction, serialisation | framing in the data thread |
| Generated protobuf code, platform headers, samples | | | not modelled |

What is hard here: two client threads that share memory without a lock; a
thread that outlives the call that stopped it; a byte stream cut anywhere and
commands without any framing; sends that fail in the middle of a loop; slots and
descriptors that are reused; masks whose layout depends on how many channels
there are; a memory block that moves while clients are connected; registration
messages that reset the receiver; a file that is rewritten in place.

What makes each part correct: the handoff loses, repeats and reorders nothing
and one thread at a time owns a drop box (data thread); what is active is what
the client asked for (activation); a client hears of the registrations before
any data and a slot never serves two clients (server); what the client
reconstructs is what the game sent (data stream); a value saved is the value
loaded (configuration file); a message fits the buffer predicted for it
(encoding); the published list holds the servers that were heard of, and those
only (server list); a game gets the handles, labels and controls it asked for,
and its server starts (registry, utility layer).

## Plan

The order is that of importance; each module is one file. All of it is written and
checked, and proved where it says so below.

1. `DropBox`, `Mailbox`, `DataThread`, `DropBoxProofs`, `DataThreadProofs`: the client's threads.
2. `ChannelMask`, proved about in `ServerProofs`: activation.
3. `Server`, `ServerProofs`: connections, commands, failing sends, shutdown and restart.
4. `DataStream`, `DataStreamProofs`: compression on the server, reconstruction
   on the client.
5. `Framing`, `PacketProofs`: the byte stream of `Pump`.
6. `Client`, `ClientProofs`: `Update`, registrations, stashed messages, outgoing commands.
7. `ServerList`, `ServerListProofs`: discovery.
8. `PacketSize`, `PacketProofs`: predicted and written sizes of packets.
9. `Registry`: registrations, controls and their values, as operators on a block.
10. `ConfigFile`: writing and loading values, as operators on a block and a file.
11. `Util`, `UtilProofs`: the registrations replayed by `vb_util_server_create`, the file, the
    game and its clients. It composes `Registry` and `ConfigFile`.

`DropBox` implements `Mailbox` twice, once for each direction, and `DataThread` implements `DropBox`.

The number of runs is kept at twelve, so that checking everything stays a
matter of minutes.

Every safety invariant of the runs that pass is stated by a theorem. Still
worth proving: `SlidersRestored` of `Util`, an action property, and what remains true of `DataThread`
and `Server` after a thread was overtaken or a slot left stale.

## The modules

Every action stands for a whole handler or, where other threads or clients can
come in between, for one of its steps. "Faulty variant" marks an operator that is
not used by any specification: it is the operator that follows it, with one plausible mistake,
and shows that the property named for it in `PROJECT.json` notices.

### `DropBox` and `Mailbox`: the handoff between the client's threads

`DropBox` has one variable for each of `m_aMessages`, `s_aDataDrop`,
`s_bDataDropReady`, `s_sCommandDrop` and `s_bCommandDropReady`, a program
counter for each thread, and the local copies `temp` and `command`. Every load of
a flag, access to a box and store of a flag is a step, because the two threads
share the boxes without a lock. `std::atomic` gives these steps a total order.
`Mailbox` is the abstract specification: something given, something under way,
something taken, in order. `PacketsInOrder` and `CommandsInOrder` say that each
direction implements it under the mapping `PacketsInFlight` and
`CommandsInFlight`, which read off, at each point of the program, what has been
put in and has not come out.

A packet is a model value; which connection it came on does not matter here.

### `DataThread`: the life of a connection

`Connect`, `Initialize`, `Disconnect`, `Shutdown` and `ThreadMain`, with the
three flags `s_bRunning`, `s_bConnected`, `s_bDisconnect`, the socket and
`m_iThread`. It instantiates `DropBox`: the thread's loop is that of `DropBox`, and
`KeepsDropContract` says that every behaviour is one of `DropBox`, that is, that the
code around the boxes starts and resets them only while no data thread runs.
Packets are named for the thread they came on.

`pthread_create` promises nothing of when the new thread first runs, and the model assumes
nothing of it: between `CreateThread` and `SetConnected` (`s_bConnected = true`,
`viewback_data.cpp:112`), and before its own `s_bRunning = true` (`:118`), the thread and the
main thread may take any steps. Two histories remember what can come of that:

* `stillborn`: the thread left its loop, because it read the `s_bConnected` of before,
  and only then did `Connect` set the flag, for a connection that nobody serves and nothing ends. `ConnectedIsServed`, `DisconnectTakesEffect` and
  `CommandIsSent` name this case; each is violated without it.
* `overtaken`: a later `Connect` tested `s_bRunning` when a thread was created and had not
  set it. It then believes that there is no thread to wait for, and from there on two
  threads can share the boxes and the socket. `SocketNotLeaked`, `KeepsDropContract` and `ConnectReturns`
  hold up to that point. A join of a thread that has been joined, which is undefined, is then
  possible too (`JoinAgain`).

### `ChannelMask`: activation

The masks of all connections are one set of `<<byte, bit>>` pairs, addressed as the
code addresses them, the loop that stops at 8 included; `asked` is what each
client is owed. `GrowByOneChannel` is `vb__memory_add_channel` with its copy, and
chooses freely what lies behind the old block. (`ServerProofs` is about this module and `Server` both,
which is why its definitions begin with `Mask`: `MaskSpec`, `MaskTypeOK`.) Three facts come out:

* up to eight channels the masks are exact, growth included (proved),
* up to sixteen they are exact but for the channels numbered 8 and 16, whose bit does
  not exist in a char (`viewback.c:318`); where char is signed channel 8 shows
  as active when channel 7 is,
* with more than sixteen the mask length counts 32-bit words but is used as bytes
  (`viewback.c:179`), and growing from eight to nine or more copies with the
  new length from masks of the old one (`viewback.c:122`): channels become active
  that nobody asked for. `MaskIsExact` leaves both out.

### `Server`: connections

`vb_server_update` is a step per system call: `Select`, `Accept`, one step per
slot of the loop, `Poll`; in between, clients connect, send, close and reset.
Descriptors are reused as the operating system reuses them. `SendTo` is
`vb__socket_send` in a loop over slots. Any send to any client may fail, which frees
the slot while the loop is under way: `vb__socket_set_blocking` passes `O_NONBLOCK` to `fcntl` whatever
it is asked for (`viewback_unix.h:39`), so a client that does not read is dropped. A send of which the socket
takes a part counts as sent, as in the code; what becomes of its bytes is in `Framing`.

`AcceptFails` is the path on which `vb__socket_set_blocking` fails (`viewback.c:1191`): the
connection is closed, and the slot keeps its number and its old mask. `stale` remembers that a slot was
left with the number of a closed descriptor, by this or by a shutdown; the number is given out again, and
two slots may then hold it. `OneSlotEach`, `MaskIsAsked` and `OnlyAskedChannels` are claims about a server to which
that has not happened.

`Receive` takes any number of the commands that have arrived, because they carry no length on the wire, and
obeys the first; the others are lost. `heard` is the history of the commands that were obeyed, and
`MaskIsAsked` compares the masks with those. `ReceiveFails` is what happens for `n < 0`: nothing tests it and
the uninitialised `mesg` is obeyed, so the model lets it hold the last message or something
that is no command. Connections are reset at any time, so this is reached in both runs.

Masks are sets here (which `ChannelMask` shows them to be up to eight channels).
The multicast advertisement is in `ServerList`, sliders and their values are in `Util`.

### `DataStream`: one channel's values

The server's side is `vb_data_send_int` and its two siblings: a value equal to
the last is only noted as the maintain time, any other is sent with that time.
The client's side is `StashData` and the clearing at the end of `Update`. The
history `samples` is what the game gave, and `got` is which updates a client has
received. Clients join, leave, activate a group and reconnect at any time.

### `Framing`: packets in a byte stream

A byte is named for its connection, its packet and its place in it, so that
reassembled bytes can be told from the right ones. `Recv` takes any number of
bytes; the loop of `Pump` is a step per packet. `Send` may take any part of a packet that is not empty, and the
connection goes on, as it does in the code (`viewback.c:975`); `whole` counts the packets
before the first of which that is true. Where a prefix would be read
from bytes that are not one, its value is any length, and where a packet would be parsed from bytes that are not
one packet's, the packet is `Garbled`. `cut` remembers that a connection
ended within a packet: `m_aLeftover` is not cleared for the next one. `PacketsAsSent` and
`EveryPacketParsed` speak of the packets counted by `whole`, on connections before which nothing was
cut. (The
specification is called `StreamSpec`: `PacketProofs` is about this module and `PacketSize`.)

### `Client`: the monitor's tables and commands

`Update`, with the packets the data thread has for it: the last registration
among them replaces the tables, those behind it are handled, everything is put
aside while nothing is registered, and commands go to the command drop. The monitor's
calls change `m_bActive` and append commands. The server is reduced to
its registrations, this client's mask and the commands it has received. One read takes any number of
these, and the first is obeyed; `lost` remembers that there were others. A command remembers, for the
history, for which connection's tables it was written. `ControlCallback` also sends the command that a
monitor puts in place of a button's own (`m_override_command`).

`Connect` clears the two drops and nothing else, as `Initialize` does. `old` is what is left in `m_aMessages`: any
stretch of the packets that were under way, and `Update` handles these before those
of the new connection, as if they were its own. `cut` is true when packets of this connection are parsed from
the wrong byte, because `m_aLeftover` held a part of a packet or because a send of the server came up short; what
is parsed then is cut down to two cases, nothing that means anything (`Junk`) or data of a channel that
is not there. `spoiled` remembers that a packet of either origin gave `StashData` a handle outside the tables, which
is undefined; `stray` that one of the connection's own packets did, which `NoStrayHandle` excludes.

### `ServerList`: discovery

The advertisement of every server, once per second; the network, which loses, repeats
and reorders; the thread's loop with its test, the publication and the receive, a step
each; and `Shutdown` with its join. `msgbuf` is what the
stack holds where `Pump` receives: `ReceiveNothing` is a read that would block, for which
the code parses that buffer again (`viewback_servers.cpp:169`). So a server that
has stopped need never leave the list, and the properties speak of when the *thread*
took a datagram for received (`heard` for real ones). `Fresh`, `Sorted` and `Publish`
are what is published under the mutex, taken as one step. Where two servers
have one value of `port ^ address`, they replace each other.

### `PacketSize`: predicted and written sizes

The functions of `vb__Packet_get_message_size` beside those of `vb__Packet_write`, over lengths of names
and bounded integers. A packet that is not shorter than predicted is not
serialised, and is sent empty. `Shift` is how many bytes the code
makes room for before the length of a submessage, `Varint` what the length takes.
The actions are registration and the passing of time, so that a sample is one that
a game could send then.

### `Registry`, `ConfigFile` and `Util`: the game

`Registry` has the `vb_data_*` functions as operators from a block (and the result so far) to
the next one: channels, groups, members, labels, ranges, the eight kinds of
controls, installation, the values of sliders, and who is told of them. A *hole* is the place that
`vb_data_add_control_slider_float` leaves empty when it advances `next_control`
a second time (`viewback.c:580`); whatever looks up a control by name behind it crashes.

`ConfigFile` has what is written for a block and what loading a file does to one. A file is the list of its
entries; tokens and layout are abstracted to where the lexer and the parser stop.

`Util` has the game: each `vb_util_*` call is an action, and so is `vb_util_server_create`,
which installs, replays, loads the file and creates the server, and may fail at each of these.
A running server has an `Update`, which reads once from each client that has sent something, obeys the first
order of each read and loses the others (`Lost`), then polls the controls (`Frame`). Names
are sent to for the first time, clients connect, and there is a shutdown. `Restart` ends the
process at any moment, and `RestartWriting` while the file is being written, which
leaves a beginning of it. The histories `told` and `chosen` say what the
game asked for and what the sliders were when the file was written. `told` loses what
`vb_util_server_create` loses when it fails, the channels and groups, and keeps what it keeps, the controls and the file.

A float is text on its way to the file and in an order of a client (`AsText`, `viewback_client.cpp:439`): `Printed` is what
`"%f"` leaves of it, and the client goes on showing what it was moved to. `crossed` is the set of the clients
and sliders for which an order crossed an update or was lost in a read: there `ShownIsValue` is silent, because the
client is then told nothing more.

`MCSample` gives `Util` the controls of `tests/game.cpp`.

## The runs

| Run | Instance | Shows |
|---|---|---|
| `dropbox` | two threads one after the other, two packets, two commands, batches up to two, three packets and two commands per connection | the boxes are exclusive, and a queue in each direction |
| `data_thread` | two connections, a packet and a command on each; threads that start early, late and after the next `Connect` | until a thread is overtaken no socket leaks, the contract of the boxes is kept and calls return; a command is sent unless its thread was stillborn |
| `mask` | two connections; six channels growing to eight, and sixteen | exactness of the masks |
| `server` | two slots, two clients with two commands each, activating, deactivating and for the console, that come in one read or two; failing accepts, reads and sends, resets; two busy ports | slots, masks, order of registrations and data |
| `server_harsh` | one slot, two clients with one command each, for registrations, sliders, groups and the console; two descriptors, resets, five busy ports, one restart | slots come back, who waits is accepted |
| `data_stream` | two clients, two values, four samples, three commands, time to 3 | what is reconstructed is what was sampled |
| `framing` | three packets of 0 or 2 bytes behind a prefix of two, sends that take any part of one, reads of up to four bytes, two connections | every packet sent whole before a short send: once, whole, in order, in the end |
| `client` | two connections, to servers with nothing or with two channels and two controls, one of them not recognised; two commands for each, two sends; packets left over from the first, sends that come up short, commands that come in one read | tables, marks and texts agree with the server |
| `server_list` | three servers on two hosts, two with one key, a stranger, expiry after one second, three seconds, one datagram under way | the list is what was heard of and is fresh; `Shutdown` returns |
| `packet_size` | three registrations, names of 0, 110, 112 and 128 bytes, numbers to 2^31 - 1, handles to 65534 | a packet is shorter than predicted, a length has the room it needs |
| `game` | up to three registrations, or two of the six controls, two starts, two changes, two processes, two clients, two files | handles and controls are those asked for, values come back from the file, clients show the server's values |
| `game_sample` (violated) | the five controls of the sample, in its order | the sample's server does not start |

### Why the bounds are enough

* `dropbox`, `data_thread`: a box holds one batch, so the second batch and
  the second command are what can overtake or overwrite the first; a third packet
  lets a batch wait in `m_aMessages` behind one that is in the drop. Two threads are a
  reconnection, and the least for one to be overtaken. `data_thread` has one packet and one command for
  each connection, for the boxes have a run of their own.
* `mask`: a mask's neighbour is what it can be confused with, hence two
  connections; the channels 6 to 9 surround both kinds of boundary, and
  sixteen channels make masks of two bytes.
* `server`: two slots are the least for a send that fails on one
  of them inside a loop, two descriptors the least for one to be reused in the
  same update, or to be in two slots after a failed accept. Two commands of one client are the least for one
  to be lost, or for a failed read to obey again. One slot with two clients is the least for
  waiting. The port loop needs five busy ports to fail.
* `data_stream`: a wrong reconstruction needs an update, a tossed sample, and another
  update, with a client that joins or leaves in between: four samples and three
  commands. Two values, as the code only compares for equality.
* `framing`: the shortest read, 1 byte, is less than a prefix; the longest, 4, holds more than a
  packet and the beginning of the next. The prefix is 2 bytes instead of
  `sizeof(size_t)` and the larger packet 2, which are enough for a cut, by a read or by a short send, in every
  kind of place.
* `client`: a second registration needs one send, a command written
  for another server, or a packet left over from it, needs two connections, and reordering, or the
  loss of a command, needs two commands. The unrecognised control comes before the recognised one, and
  the server with nothing makes packets be put aside.
* `server_list`: two servers with one key and one with its own are the least
  for a replacement that must not touch a third. An expiry of one second within three seconds lets a
  server be listed, grow old and come back. A datagram under way may be received
  any number of times, or never, so one is enough for repetition and loss.
* `packet_size`: names and numbers lie on both sides of where an encoding grows by a byte:
  a submessage of 126 bytes and one of 127, a name of 128, the handle 128, the
  time 2^21. Three items are needed for what the prediction leaves out to add up: one group
  without a channel takes a byte more than predicted, and its kind has three to spare, of
  which one must be left.
* `game`: a failed start and a good one, a process that wrote the file and one that reads it, a
  change from each side that cross, or two orders that are read together. The value 2 is a float that `"%f"` prints as 0. The names `con` and `cont` are found
  for one another and are taken for the keyword; each kind of slider, button and drive is in the
  catalog once. Six units of registration, of which a control
  or a field takes three and another call two, are a control after a control, or a group with
  its channel.

Deadlock is checked in every run but `packet_size`, `game` and `game_sample`, where the game may stop
registering, or has crashed, and `data_thread`, where a main thread that joins a thread twice may be
lost.

Symmetry is used for the clients of `server`, `data_stream` and `game`, where no
liveness property is checked.

### Fairness

* `DataThread`: the process's threads are scheduled, so each data thread takes
  a step when it can and the main thread finishes a call it is in. When a thread is scheduled first is left
  open, and no call is assumed to be made.
* `Server`: the game calls `vb_server_update` every frame, as `viewback.h:399` asks.
  Clients and the rest of the game may stop for ever.
* `Framing`: `Pump` runs in the loop of the data thread.
* `ServerList`: the thread and the main thread in its join are scheduled. Its read
  does not wait, so the thread takes a step though nothing arrives.
* `Client`: the monitor calls `Update` again and again and the data thread sends.
  Nothing is assumed of the server.

## What is proved

For every value of the constants; the run that checks the same property is
the small instance of it.

`DropBoxProofs`: `Ownership`, `TypeOK`, `DataDropAssert`, `CommandDropAssert` (if no
command is the empty string), `PacketsInOrder` and `CommandsInOrder`, for any threads, packets,
commands and bounds. `Ownership` is not inductive: a thread
may only be where it is because of a flag it read earlier. `IInv` adds that at
most one data thread runs (`OneThread`), whose turn each box is according
to its flag (`DataTurn`, `CommandTurn`), and what the box and the copies hold at each
program point. The refinement theorems show, from `IInv`, that
each step is a step of `Mailbox` or leaves its variables alone. They rest on lemmas
about concatenation and `SubSeq`.

`DataThreadProofs`, for any schedule: `ConnectedIsServed`, `SocketNotLeaked` and the refinement
`KeepsDropContract`, for any number of connections. The invariant is that either a thread was overtaken, or
`OneLive` (only the thread created last is alive, and none is while `Connect` prepares the
next) and `FlagsTell` (what `s_bRunning`, `s_bConnected` and the socket say of it) hold; together they give
that each step of the life of the threads is a step of `DropBox` or leaves the boxes alone. The
theorems of `DropBoxProofs` then hold of it too, `BoxesAreExclusive` up to the moment a thread is
overtaken and `BoxesAreInOrder` for behaviours in which none is. `stillborn` needs no such exception but in
`ConnectedIsServed`.

`DataStreamProofs`: `PointsInOrder` for any clients, values and bounds. The
invariant `Timed` speaks of a client's list and its packets under way together: no time in
either is later than the server's, nor, when a maintain time is noted, later than
that; and each packet starts (at its maintain time, or at its own) where
everything before it has ended. `SamplesReconstructed`, `PointsAreHeld` and `TypeOK` follow from
`TruthInv`, which relates all of this to the history of samples: the packet of an update tells its
first sample and how long the update before was maintained (`Tells`, `Maintained`), packets
under way are of later updates than those received (`Carries`), and a list that ends with an
update opens as that update did (`Knows`). That a client that has two updates running shows
every sample between them is the step that needs each of these.

`ServerProofs`, on `Server`, with any resets and any failing accepts, reads and sends, in two invariants:

* `GreetInv` gives `TypeOK` and `RegistrationsFirst`, whatever was left stale and however often the server is
  started. `Greeted` says where in an accept a slot may have a client that has received nothing.
* `AskInv` adds, until a slot is left stale, what gives `OneSlotEach`, `OnlyAskedChannels` and `MaskIsAsked`. `Held`
  says that the open descriptors are those in slots, each in one, and `Dialled` that a client has at most one.
  `Pending` says that a slot which select found readable and which is still to be served has something to
  read or does not work any more, so that a read fails only on a connection that was reset; the old message it obeys
  does its harm there. `Unheard` says that nothing was heard of a client that has no slot, so that the
  cleared mask of its slot is right; `Masked` and `Streamed` that the mask of a working connection, and the channels in its
  stream, are what was asked for in the commands obeyed.

`ServerProofs`, on the masks in memory (`ChannelMask`): `MaskIsExact` for any number of connections, any groups and any
commands. With at most eight channels a mask is a byte, the loop
leaves byte 0, and `BytesExact` strengthens the property to channels that are not
registered yet: their bits must be clear, or they would be active
once registered. A block that has already grown past eight channels does not come back, hence
the form `capacity <= 8 => Small`. `MaskIsExactSaveEighths` is proved by the same argument on
masks of two bytes (`WideExact`, with `Cell` for the bit where the loop finds a channel), if a
block of at most eight channels never grows past eight: that growth breaks the masks.

`ClientProofs`, with no assumption: `RegistrationsCatchUp` and `NoStrayHandle` follow from `IInv`. `CaughtUp`
says that the last registrations in the inbox are the server's, or, with none there, that
the tables are; `Bounded` that data in the inbox is within the registrations before it; `OldFirst` that what earlier
connections left is handled before this connection's registrations, so that these replace whatever it did to the tables.
Each is for connections whose packets are parsed from the right byte.
`TalkInv` is about the commands and the texts, and gives `ActiveAgrees` and `TextsShown`:
the last command under way that decides on a channel says what the monitor shows, and the
server's mask does where there is none (`MarksFollow`), as long as no command was lost. `KeptFollows` and `KeptConcat` are the
lemmas on `Kept`, which filters sequences.

`ServerListProofs`: `TypeOK`, `ListIsCurrent`, `HeardIsListed` and `ListedAdvertised` for any
servers, keys and times. `ListIsCurrent` needs that a list which is not renewed was made in this very
second, that nothing in the table is newer than the second of the loop, and
that the published list is the one of the table unless something has been parsed since.
`HeardIsListed` needs that the table is behind nothing that was heard.

`PacketProofs`, on sizes: `TypeOK`, `ValuesSerialize`, `LengthsMatch` and `RegistrationsSerialize`. The first
three bound each field from its range, and compare the sums. `LengthsMatch` is for names of at most
8187 bytes: a longer name with a command as long makes a submessage of 16384 bytes, whose length takes
three bytes where the code makes room for two. `RegistrationsSerialize` is for names of less than 16 KiB and at
most 16384 items: a label of a channel with a higher number, a negative value and a name of 128
bytes takes more than is predicted for it. Each item is bounded by its prediction
(`ChannelFits`, `LabelFits`, `ControlFits`), a group by one byte more if it is bare
(`GroupFits`), and `SumAtMost` adds them up; it needs `RegistryInv`, that labels and
groups refer to registered channels.

`PacketProofs`, on the stream: `PacketsAsSent` and `StreamTypeOK`, for packets and prefixes of any length
and reads of any size. `StreamInv` says that, unless the stream was cut, the bytes that are not
parsed yet (`m_aLeftover` or what is left of the buffer, then the pipe) begin with the packets that were sent
whole and have not come out, one behind the other, each behind its prefix (`Laid`), and are nothing else while no send was
short; or that all of these have come out, and Pump is past them (`Past`). So up to there a prefix is only ever
read from the bytes of a prefix.

`UtilProofs`: `TypeOK`, `RegisteredAsAsked`, `RefusedWithReason` and `ShownIsValue` of the game, for
any names, controls, files, values and clients, with `Registry` and `ConfigFile` expanded. `IInv` has these parts:

* `Listed`: what the lists say is registered is what `told` says (as `RegisteredAsAsked` compares the
  block with `told`). It is this and not
  `RegisteredAsAsked` that each call of the game keeps, because a call made while no server runs
  says nothing of the block.
* `Facing`: what the running block says is what `told` says, and members and labels have handles
  of channels. That creating establishes it from `Listed` is `FactsReplayed`, which follows the
  replay channel by channel, group by group and control by control (`ReplayedGives`), with the places of the controls, and counts
  the room the limits leave for the rest, so that no call is refused for want of room.
* `Backed`: the holes and the commands of a running block come from controls in the lists. This is
  why a crash of a running server still has its reason in the lists, which `RefusedWithReason` looks at.
* `InStep`: for every client and every control, `Agrees`. Either the last message under way that names the control
  carries the value the server has, or none names it and the value the table shows is the server's or is printed as the
  server's (`StandsFor`), with no order of the client for a slider under way; or no message names it and the last order
  under way carries the value the table shows, as text; or the two have crossed, or an order was lost. `Knows` adds that
  the tables match the block's controls or that
  registrations are the first thing under way. `ShownIsValue` is the case with nothing under way.

`PointerAssumption` says that the address of a block is not a null pointer.

The assumptions are the named `ASSUME`s of the modules, which the runs evaluate, and
those named in a theorem. Sums, filters and folds are reasoned about with an induction on their
partial results (`Counting`, from the well-foundedness of the naturals). TLAPS is used without any axiom of this project.

### Only model-checked

* Liveness, everywhere: it needs fairness and `ENABLED`. These are `DisconnectTakesEffect`,
  `ConnectReturns` and `CommandIsSent` of `DataThread`, `WaitingIsAccepted` and `LeftIsForgotten` of `Server`,
  `EveryPacketParsed` of `Framing`, `CommandsLeave` of `Client`, and `ShutdownReturns` of `ServerList`.
* `SlidersRestored` of `Util`: it relates a start to the file an earlier process left, whole or
  in part, and needs that reading undoes writing entry by entry with the lexer's exceptions. `UtilProofs`
  proves what a file does to the block's layout (`LoadedReads`), not which values it brings back.
* What lies beyond the conditions that the properties name: what still holds of blocks that grow past
  eight channels, and what happens after a slot was left stale, a thread overtaken or a packet parsed wrong, of
  which only the properties without these conditions (such as `RegistrationsFirst` and `LeftIsForgotten`) say anything.

## Where the code falls short of its documentation

One divergence has a run: `game_sample`, where the sample's own controls crash
`vb_util_server_create` (`viewback.c:580`). These were met too; the properties
exclude them by the condition named.

Threads and connections of the client:

* The data thread may run, and end, before `Connect` has set `s_bConnected` (`viewback_data.cpp:112`): the client then
  believes in a connection that nothing serves, and `Disconnect` does not end it. (`stillborn`.)
* `Connect` and `Shutdown` wait for a thread only if it has set `s_bRunning` (`:44`, `:118`): one that is slow to start is
  overtaken, and shares drops and socket with the next. (`overtaken`.)
* `m_aMessages` and `m_aLeftover` survive a reconnection (`viewback_data.cpp:79`), so
  packets, or half a packet, of the old server reach the new connection: texts of the old one are shown, and data of
  the old one can have a handle outside the new tables, which nothing tests. (`PacketsInOrder`
  starts from what is left over; `PacketsAsSent` excludes `cut`; in `Client`, `old` and `spoiled`.)
* A lost connection is closed twice (`viewback_data.cpp:156`); `Connect` asserts that the
  connection is down when `Disconnect` has only asked for that (`:47`); every data thread shuts
  the protobuf library down as it ends (`:128`).

The server:

* The eighth bit of a char, masks counted in words beyond sixteen channels, and a block
  that grows past eight: see `ChannelMask`.
* No socket ever blocks on Unix (`viewback_unix.h:39`), although `vb__socket_send` counts on it ("Should be a blocking
  socket.", `viewback.c:994`) and `viewback.h:423` says "These functions use blocking send() and may block if the send
  buffer is full." A client that is slow to read is dropped, or gets a part of a packet, which counts as success, and
  everything behind it is parsed from the wrong byte. (`Sendable` and `Framing!Send`; `PacketsAsSent` is for what comes before.)
* When `vb__socket_set_blocking` fails, accept closes the connection and leaves its number and
  the old mask in the slot (`viewback.c:1191`). (`stale`.)
* `n < 0` is not tested after a read: the message before is obeyed again (`viewback.c:1231`). (It hits connections
  that were reset; `MaskIsAsked` and `OnlyAskedChannels` are for those that work.)
* Several commands in one read: all but the first are lost (`viewback.c:1229`), although
  `NetworkProtocol.md:23` separates them by null characters and the client's commands are written to be sent in a row. What the
  monitor shows as active then differs from the mask, against `viewback_client.h:75`. (`heard`, `lost` and `crossed`.)
* `vb_server_shutdown` keeps the descriptor numbers (`viewback.c:947`), so the slots of a
  stopped server stay taken after a second start. (`WaitingIsAccepted` excludes it.)
* `vb_server_create` tries five ports in all, where `viewback.h:173` speaks of the next five.
* The prefix of a packet is `sizeof(size_t)` bytes, eight on today's machines, where the protocol
  says four; both ends of the code agree.

The data:

* One maintain time serves all clients: a client that was inactive meanwhile keeps
  an old value up to a time at which the game had another (`viewback.c:1456`,
  `viewback_client.cpp:507`). (`PointsAreHeld` is for clients that missed no update.)
* The values sent again for a group are equal to the last, so they are tossed
  (`viewback.c:1284`). (`ActivateGroup` of `DataStream` does just that.)
* `m_flNextDataClear` survives a change of server: with a server whose time starts again
  nothing is cleared until it catches up (`viewback_client.cpp:294`).
* The tag and the length of a group are not predicted (`viewback.c:2484`). The room that is
  left over elsewhere usually makes up for them, but three groups with names of 128 bytes or more ("really
  long strings", `:2487`) and no channel are not sent, nor is anything registered with them.
  (`Bare` in `RegistrationsSerialize`.)
* A negative int is written in ten bytes where five were counted on (`viewback.c:1908`). From 35 minutes of
  game time on (2^21 ms) a negative sample that was held does not fit, fails
  `VBAssert(end_offset < length)` (`:2588`), and is lost; so are registrations with int sliders whose
  numbers are negative, and registrations of nothing. (Excluded in `ValuesSerialize` and
  `RegistrationsSerialize`.)

The client's tables:

* Packets put aside because nothing is registered yet are never handled: the registrations they
  wait for empty the place where they are (`viewback_client.cpp:217`). (`TextsShown` excludes it.)
* Registrations sent again reset `m_bActive` and drop the packets before them in the
  batch. (`ActiveAgrees` and `TextsShown` exclude it.)
* Outgoing commands, packets put aside and the status survive a change of server.
  (`Own` in `ActiveAgrees`.)
* A control of an unknown type moves the numbers of those behind it (`viewback_client.cpp:169`), so that the monitor
  drives another control than the one it shows. (No property: it is so whenever there is one.)
* Commands are not passed on while nothing is registered
  (`CommandsLeave` excludes it); a server with controls and no channels leaves
  its controls in the tables when it disconnects (`viewback_client.cpp:299`).
* A read that would block parses the buffer again (`viewback_servers.cpp:169`), so a stopped
  server need never leave the list; servers with one `port ^ address` replace each other (`:205`).

Registrations and controls:

* The lists of channels and groups are emptied when `vb_util_server_create` fails, those of controls
  and the file are not (`viewback_util.cpp:499`): a game that registers everything anew and tries again has each control
  twice. (`told` keeps what the code keeps, so `RegisteredAsAsked` shows this and does not exclude it.)
* `vb_util_set_configfile` is forgotten when it is the first call, and the command callback after
  `vb_util_initialize` (`viewback_util.cpp:157`); a command without a callback is
  a NULL call (`viewback.c:1314`). (`SetField`, and `RefusedWithReason`.)
* A button with a command whose name the file could not hold is a NULL dereference (`viewback.c:619`).
* The first `vb_util_*` call while a server runs frees its memory; the game of `Util` does not make it.
* In the file, a control that is gone ends the list, and so does a name that is like "controls"
  (`viewback_config.h:152`); of names that are alike the first is set (`viewback.c:785`).
  (`SlidersRestored` excludes them.)
* The file is emptied before it is written (`viewback_config.h:301`): a crash in between loses
  values.
* A value that the game sets with `vb_data_set_*` and that the server already has does not reach
  a bound variable that was changed meanwhile (`viewback.c:802`).
* An order of a client that crosses an update of the server for the same slider leaves the
  client showing the old value (`viewback.c:1323`), and so does one that is lost in a read with another. (`crossed` in `ShownIsValue`.)
* A float order is printed with `"%f"` (`viewback_client.cpp:439`), so the server gets less than the client was moved to, and
  the client that sent it is not told. (`AsText` in `ShownIsValue`.)
* A channel sent to by name for the first time loses that value (`viewback.c:1663`).
* `vb__alloc` overwrites the memory of the callback with that of `malloc` (`viewback.c:45`), and
  `vb_config_install` frees the block before it tests for a running server (`:211`).

## What is not modelled, and why

* The layout in bytes of the memory block but for its masks, and `alloc_callback`: they
  are address arithmetic that is done once, without any order of events to get wrong.
* The wire format of protobuf messages and the generated code: only sizes decide anything here.
* Colours, labels on the client, the name in an advertisement and `PredictCurrentTime`, which decide what
  is displayed and nothing else, and `FindServer`, which takes the first server of the list.
* The platform headers, which are one-line wrappers. The models choose the results of the server's calls: accepts whose
  `vb__socket_set_blocking` fails, reads that fail, sends that fail or take only a part. The client's own send of a command,
  whose result the code ignores (`viewback_data.cpp:237`), counts as done. The samples and the build files.
* How TCP splits one command over two reads: a command arrives whole, alone or with others.
* The memory model below `std::atomic`; lengths of commands (a read of exactly 1024 bytes is
  dropped); and `SIGPIPE`, which ends a game on Unix systems other than Apple's at the second
  write to a client that is gone (`viewback.c:979`).
* Builds with `VB_NO_RANGE` or with times that are doubles, which differ from the default
  in what a packet holds.
