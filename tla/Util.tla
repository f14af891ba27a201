-------------------------------- MODULE Util --------------------------------
(***************************************************************************)
(* A game that uses the utility layer (server/viewback_util.cpp): what it  *)
(* registers is kept in lists until vb_util_server_create replays them     *)
(* into the block of memory (Registry), restores the saved sliders         *)
(* (ConfigFile) and starts the server.  From then on sliders are moved by  *)
(* the clients, by the game's calls and by the game's variables.  The      *)
(* process can end at any time; only files outlive it.                     *)
(***************************************************************************)
EXTENDS ConfigFile

CONSTANTS
  Clients,
  ChannelNames, GroupNames, Labels,
  Catalog,         \* the controls the game may register
  Default, Files,  \* "viewback.cfg", and what vb_util_set_configfile is given
  MaxItems,        \* bound: what one process registers; the actions say what each counts for
  MaxCreates,      \* bound: calls of vb_util_server_create, in all
  MaxChanges,      \* bound: values the game sets and controls the clients use, in all
  MaxProcesses     \* bound

ASSUME UtilAssumption ==
  /\ Default \in Files /\ ChannelNames \cup GroupNames \subseteq Names
  /\ Catalog \subseteq [name : Names, type : {"button", "float", "int"}, valid : BOOLEAN,
                        drive : {"callback", "command", "address"}, address : STRING \cup {None}]
  /\ {MaxItems, MaxCreates, MaxChanges, MaxProcesses} \subseteq Nat

Addresses == {c.address : c \in Catalog} \ {None}

(* The blocks of memory; places without a name are holes (Registry).       *)
Kinds    == {"none", "button", "float", "int"}
Drives   == {"none", "callback", "command", "address"}
Places   == Addresses \cup {None}
Controls == [name : Names \cup {None}, type : Kinds, drive : Drives, address : Places, value : Values]
Channels == [name : Names, ranged : BOOLEAN]
Members  == [group : Nat, channel : Nat]
Marks    == [handle : Nat, name : Labels]
Room     == [channels : Nat, groups : Nat, labels : Nat, members : Nat, controls : Nat]
Blocks   ==
  [limits : Room, file : Files, command : BOOLEAN, active : BOOLEAN, channels : Seq(Channels),
   groups : Seq(Names), members : Seq(Members), labels : Seq(Marks), controls : Seq(Controls)]

ASSUME PointerAssumption == None \notin Blocks

VARIABLES
  util,      \* g_initialized, g_channels, g_groups, g_controls, g_util_config
  VB,        \* the block of memory, None where the pointer is NULL
  variable,  \* the variables of the game that sliders are bound to
  files,     \* the configuration files
  outcome,   \* of the last vb_util_server_create: "none", "ok", "no", "busy"; "crash"
  pending,   \* what was sent to each connected client and not read yet
  shown,     \* the controls a client shows
  orders,    \* commands under way from a client to the server
  told,      \* history: what the game was told or asked for since it last began to register
  chosen,    \* history: the sliders' values when each file was last written
  crossed,   \* history: client and slider for which an order and an update crossed, or an order was lost
  items, creates, changes, processes   \* what the bounds bound

gameVars   == <<util, VB, variable, outcome, told>>
clientVars == <<pending, shown, orders, crossed>>
counters   == <<items, creates, changes, processes>>
vars       == <<gameVars, files, chosen, clientVars, counters>>

Nobody == [c \in {} |-> << >>]
Active == outcome # "crash" /\ VB # None /\ VB.active
Idle   == outcome # "crash" /\ ~Active

Zeroed == [initialized |-> FALSE, channels |-> << >>, groups |-> << >>, controls |-> << >>,
           file |-> Default, command |-> FALSE]
Initialized == [Zeroed EXCEPT !.initialized = TRUE]

(* A new process.  *)
Begun ==
  /\ util' = Zeroed /\ VB' = None /\ outcome' = "none" /\ told' = {}
  /\ variable' = [a \in Addresses |-> 0]
  /\ pending' = Nobody /\ shown' = Nobody /\ orders' = Nobody /\ crossed' = {}
  /\ items' = 0

Init ==
  /\ util = Zeroed /\ VB = None /\ outcome = "none" /\ told = {}
  /\ variable = [a \in Addresses |-> 0]
  /\ pending = Nobody /\ shown = Nobody /\ orders = Nobody /\ crossed = {}
  /\ files = [f \in Files |-> << >>] /\ chosen = [f \in Files |-> << >>]
  /\ items = 0 /\ creates = 0 /\ changes = 0 /\ processes = 1

-----------------------------------------------------------------------------
(* Registering.  The game does not call these while its server runs: the   *)
(* first would take the memory from under it (vb_util_initialize).         *)

Ready == IF util.initialized THEN util ELSE Initialized

Costs(n) == items + n <= MaxItems /\ items' = items + n

(* Each first calls vb_util_initialize unless that was done since the last *)
(* server was created.                                                     *)
Register(cost, registered, facts) ==
  /\ Idle /\ Costs(cost)
  /\ util' = registered
  /\ VB' = IF util.initialized THEN VB ELSE None
  /\ told' = (IF util.initialized THEN told ELSE {}) \cup facts
  /\ outcome' = "none"
  /\ UNCHANGED <<variable, files, chosen, clientVars, creates, changes, processes>>

Initialize ==
  /\ Idle /\ util.initialized /\ util # Initialized
  /\ util' = Initialized /\ VB' = None /\ told' = {} /\ outcome' = "none"
  /\ UNCHANGED <<variable, files, chosen, clientVars, counters>>

(* Faulty variant: the handle is the number of channels. *)
AddChannelLate(name) ==
  Register(2, [Ready EXCEPT !.channels = Append(@, [name |-> name, ranged |-> FALSE, labels |-> << >>])],
           {<<"channel", name, Len(Ready.channels) + 1>>})

AddChannel(name) ==
  Register(2, [Ready EXCEPT !.channels = Append(@, [name |-> name, ranged |-> FALSE, labels |-> << >>])],
           {<<"channel", name, Len(Ready.channels)>>})

AddGroup(name) ==
  Register(2, [Ready EXCEPT !.groups = Append(@, [name |-> name, channels |-> << >>])],
           {<<"group", name, Len(Ready.groups)>>})

(* Nothing was registered before the lists were initialised, and with      *)
(* nothing to find or to hold the next four do nothing else.               *)
AddMember(group, handle) ==
  /\ group < Len(Ready.groups) /\ handle < Len(Ready.channels)
  /\ Register(2, [Ready EXCEPT !.groups[group + 1].channels = Append(@, handle)],
              {<<"member", Ready.groups[group + 1].name, Ready.channels[handle + 1].name>>})

AddLabel(handle, label) ==
  /\ handle < Len(Ready.channels)
  /\ Register(2, [Ready EXCEPT !.channels[handle + 1].labels = Append(@, label)],
              {<<"label", Ready.channels[handle + 1].name, label>>})

SetRange(handle) ==
  /\ handle < Len(Ready.channels)
  /\ Register(2, [Ready EXCEPT !.channels[handle + 1].ranged = TRUE],
              {<<"range", Ready.channels[handle + 1].name>>})

(* vb_util_find_channel and _group, for the functions that take names.     *)
FindUtil(list, name) == SelectInSeq(list, LAMBDA entry : entry.name = name) - 1

AddLabelNamed(channel, label) ==
  LET handle == FindUtil(Ready.channels, channel) IN handle >= 0 /\ AddLabel(handle, label)

AddMemberNamed(group, channel) ==
  LET g == FindUtil(Ready.groups, group)
      h == FindUtil(Ready.channels, channel)
  IN  g >= 0 /\ h >= 0 /\ AddMember(g, h)

(* The nine vb_util_add_control_*; nothing is looked at yet. *)
Kept(c) ==
  [name |-> c.name, type |-> c.type, valid |-> c.valid, drive |-> c.drive, address |-> c.address,
   initial |-> 0]

(* What a control was registered as, without its value. *)
Plain(c) == [name |-> c.name, type |-> c.type, drive |-> c.drive, address |-> c.address]

AddControl(c) ==
  Register(3, [Ready EXCEPT !.controls = Append(@, Kept(c))],
           {<<"control", Plain(c), Len(Ready.controls) + 1>>})

(* vb_util_set_control_*_value before there is a server.  Names are the    *)
(* same if their pointers are; the game passes the one it registered.      *)
SetInitial(name, value) ==
  LET k == FindUtil(util.controls, name) + 1
  IN  /\ Idle /\ k > 0 /\ changes < MaxChanges /\ changes' = changes + 1
      /\ util.controls[k].type # "button"
      /\ util' = [util EXCEPT !.controls[k].initial = value]
      /\ UNCHANGED <<VB, variable, outcome, told, files, chosen, clientVars,
                     items, creates, processes>>

SetCommandCallback ==
  ~Ready.command /\ Register(2, [Ready EXCEPT !.command = TRUE], {})

(* vb_util_set_max_connections, _output_callback and _tcp_port set fields   *)
(* that Server.tla has as constants; what is left is the initialisation.   *)
SetField == ~util.initialized /\ Register(3, Ready, {})

(* Alone among them this one does not initialise: if it comes first, the   *)
(* next one forgets the file.                                              *)
SetConfigfile(file) ==
  /\ Idle /\ file # util.file /\ Costs(3)
  /\ util' = [util EXCEPT !.file = file]
  /\ told' = {t \in told : t[1] # "file"} \cup (IF util.initialized THEN {<<"file", file>>} ELSE {})
  /\ UNCHANGED <<VB, variable, outcome, files, chosen, clientVars, creates, changes, processes>>

-----------------------------------------------------------------------------
(* vb_util_server_create. *)

(* Faulty variant: only the labels of the last channel are counted. *)
LimitsOfLast(u) ==
  [channels |-> Len(u.channels), groups |-> Len(u.groups), controls |-> Len(u.controls),
   labels  |-> IF u.channels = << >> THEN 0 ELSE Len(Last(u.channels).labels),
   members |-> Folded(LAMBDA n, g : n + Len(g.channels), 0, u.groups)]

Limits(u) ==
  [channels |-> Len(u.channels), groups |-> Len(u.groups), controls |-> Len(u.controls),
   labels  |-> Folded(LAMBDA n, c : n + Len(c.labels), 0, u.channels),
   members |-> Folded(LAMBDA n, g : n + Len(g.channels), 0, u.groups)]

ReplayChannel(s, c) ==
  LET handle == Len(s.VB.channels)
      added  == DataAddChannel(s, c.name)
      ranged == IF c.ranged THEN DataSetRange(added, handle) ELSE added
  IN  Folded(LAMBDA t, label : DataAddLabel(t, handle, label), ranged, c.labels)

ReplayGroup(s, g) ==
  LET group == Len(s.VB.groups)
  IN  Folded(LAMBDA t, handle : DataAddMember(t, group, handle), DataAddGroup(s, g.name), g.channels)

ReplayControl(s, c) ==
  LET added == DataAddControl(s, c)
  IN  IF c.type = "button" \/ c.address # None THEN added ELSE SetNamedValue(added, c.name, c.initial)

(* What the calls work on; file and chosen are those of a running server.  *)
State ==
  [VB |-> VB, variable |-> variable, pending |-> pending, result |-> "ok",
   orders |-> orders, crossed |-> crossed, file |-> << >>, chosen |-> << >>]

Replayed(u) ==
  Folded(ReplayControl,
    Folded(ReplayGroup,
      Folded(ReplayChannel,
        [State EXCEPT !.VB = Installed(Limits(u), u.file, u.command)], u.channels),
      u.groups),
    u.controls)

(* The lists of channels and groups are gone afterwards, that of controls  *)
(* and the file are not; a next registration begins anew only if the       *)
(* server was created.                                                     *)
Created(u, s, result) ==
  /\ util' = [u EXCEPT !.channels = << >>, !.groups = << >>, !.initialized = (result # "ok")]
  /\ VB' = [s.VB EXCEPT !.active = (result = "ok")]
  /\ variable' = s.variable /\ outcome' = result
  /\ told' = IF ~util.initialized THEN {}
             ELSE {t \in told : result = "ok" \/ t[1] \in {"control", "file"}}
  /\ creates' = creates + 1
  /\ UNCHANGED <<files, chosen, clientVars, items, changes, processes>>

Create ==
  LET u == Ready
      s == Replayed(u)
      t == Loaded(s, files[u.file])
  IN  /\ Idle /\ creates < MaxCreates
      /\ \/ s.result # "ok" /\ Created(u, s, s.result)
         \/ s.result = "ok" /\ Created(u, t, t.result)

(* No port is free, or there is no socket: vb_server_create fails before   *)
(* it reads the file.                                                      *)
CreateBusy ==
  LET s == Replayed(Ready)
  IN  Idle /\ creates < MaxCreates /\ s.result = "ok" /\ Created(Ready, s, "busy")

(* The game may then create another server. *)
Shutdown ==
  /\ Active
  /\ VB' = [VB EXCEPT !.active = FALSE]
  /\ pending' = Nobody /\ shown' = Nobody /\ orders' = Nobody /\ crossed' = {}
  /\ UNCHANGED <<util, variable, outcome, told, files, chosen, counters>>

-----------------------------------------------------------------------------
(* The running server. *)

NamesIn(message) ==
  IF message.kind = "update" THEN {message.name} ELSE {c.name : c \in ToSet(message.controls)}

Tells(messages) == UNION {NamesIn(m) : m \in ToSet(messages)}

(* After s has become t: which sliders a client has orders under way for   *)
(* while it is told another value.                                         *)
Crossing(s, t, left) == {p \in (DOMAIN s.pending) \X Names :
  LET c   == p[1]
      new == SubSeq(t.pending[c], Len(s.pending[c]) + 1, Len(t.pending[c]))
  IN  IF p[2] \in Tells(new) THEN \E o \in ToSet(left[c]) : t.VB.controls[o.control].name = p[2]
      ELSE p \in s.crossed}

Running == [State EXCEPT !.file = files[VB.file], !.chosen = chosen[VB.file]]

Then(s, t) == [t EXCEPT !.crossed = Crossing(s, t, t.orders)]

Becomes(s) ==
  /\ VB' = s.VB /\ variable' = s.variable /\ pending' = s.pending
  /\ outcome' = IF s.result = "crash" THEN "crash" ELSE outcome
  /\ files' = [files EXCEPT ![s.VB.file] = s.file]
  /\ chosen' = [chosen EXCEPT ![s.VB.file] = s.chosen]
  /\ crossed' = s.crossed /\ orders' = s.orders
  /\ UNCHANGED <<util, told>>

SlidersOf(block) == {c \in ToSet(block.controls) : Slider(c)}

(* Sliders whose names can be told apart, also from "controls".            *)
Distinct(controls) ==
  \A i, j \in DOMAIN controls :
    controls[i].name \notin LikeControls /\ (i # j => ~Alike(controls[i].name, controls[j].name))

Chosen(block) ==
  IF ~Distinct(block.controls) THEN << >> ELSE
  [n \in {c.name : c \in SlidersOf(block)} |-> (CHOOSE c \in SlidersOf(block) : c.name = n).value]

Filed(s) == [s EXCEPT !.file = Written(s.VB), !.chosen = Chosen(s.VB)]

(* The next command of a client.  The file is written after a slider's.    *)
ObeyFirst(s, c) ==
  LET order == Head(s.orders[c])
      t == ObeyControl([s EXCEPT !.orders[c] = Tail(@)], order.control, order.value, c)
      k == order.control
  IN  IF t.result = "ok" /\ k \in DOMAIN t.VB.controls /\ Slider(t.VB.controls[k])
      THEN Then(s, Filed(t))
      ELSE Then(s, t)

(* One read takes the next n commands of a client, as many as have come:   *)
(* those behind the first are lost.                                        *)
Lost(s, c, n) ==
  LET lost == {k \in DOMAIN s.VB.controls : \E i \in 2 .. n : s.orders[c][i].control = k}
  IN  [s EXCEPT !.orders[c] = <<Head(@)>> \o SubSeq(@, n + 1, Len(@)),
                !.crossed = @ \cup {<<c, s.VB.controls[k].name>> : k \in lost}]

Obeyed(s, read) ==
  IF s.result # "ok" THEN s ELSE ObeyFirst(Lost(s, read.client, read.size), read.client)

Frame(s) == IF s.result # "ok" THEN s ELSE Then(s, PollControls(s))

(* vb_server_update reads once from each client that has sent something,   *)
(* then looks at the variables.                                            *)
Update ==
  /\ Active
  /\ \E cs \in SUBSET {c \in DOMAIN orders : orders[c] # << >>} :
       \E turns \in SetToSeqs(cs), size \in [cs -> 1 .. MaxChanges] :
         /\ \A c \in cs : size[c] <= Len(orders[c])
         /\ LET reads == [i \in DOMAIN turns |-> [client |-> turns[i], size |-> size[turns[i]]]]
            IN  Becomes(Frame(Folded(Obeyed, Running, reads)))
  /\ UNCHANGED <<shown, counters>>

(* vb_util_set_control_*_value and vb_data_set_control_*_value. *)
Set(name, value) ==
  /\ Active /\ changes < MaxChanges /\ changes' = changes + 1
  /\ LET k == FindControl(VB, name) IN k # 0 => VB.controls[k].type # "button"
  /\ Becomes(Then(Running, SetNamedValue(Running, name, value)))
  /\ UNCHANGED <<shown, items, creates, processes>>

(* The game changes a variable of its own. *)
SetVariable(address, value) ==
  /\ outcome # "crash" /\ changes < MaxChanges /\ changes' = changes + 1
  /\ variable' = [variable EXCEPT ![address] = value]
  /\ UNCHANGED <<util, VB, outcome, told, files, chosen, clientVars, items, creates, processes>>

(* vb_data_send_int_s, for a channel that may not be there yet. *)
SendByName(name) ==
  /\ Active /\ Costs(2)
  /\ Becomes(Then(Running, SendNamed(Running, name)))
  /\ UNCHANGED <<shown, creates, changes, processes>>

(* The process ends, and another begins. *)
Restart ==
  /\ processes < MaxProcesses /\ processes' = processes + 1
  /\ Begun
  /\ UNCHANGED <<files, chosen, creates, changes>>

(* It ends while the file is written, which has been emptied before.       *)
RestartWriting ==
  /\ Active /\ processes < MaxProcesses /\ processes' = processes + 1
  /\ \E c \in DOMAIN orders : orders[c] # << >> /\
       LET t == ObeyFirst(Running, c)
       IN  /\ t.result = "ok" /\ Slider(t.VB.controls[Head(orders[c]).control])
           /\ \E n \in 0 .. Len(t.file) - 1 :
                files' = [files EXCEPT ![VB.file] = SubSeq(t.file, 1, n)]
           /\ chosen' = [chosen EXCEPT ![VB.file] = << >>]
  /\ Begun
  /\ UNCHANGED <<creates, changes>>

-----------------------------------------------------------------------------
(* The clients. *)

With(f, c) == [d \in DOMAIN f \cup {c} |-> IF d = c THEN << >> ELSE f[d]]

Connect(c) ==
  /\ Active /\ c \notin DOMAIN pending
  /\ LET s == SendRegistrations([State EXCEPT !.pending = With(@, c)], {c})
     IN  /\ pending' = s.pending
         /\ outcome' = IF s.result = "crash" THEN "crash" ELSE outcome
  /\ shown' = With(shown, c) /\ orders' = With(orders, c)
  /\ UNCHANGED <<util, VB, variable, told, files, chosen, crossed, counters>>

(* Update, in the client: a table, or the first control of that name. *)
Applied(table, message) ==
  IF message.kind = "registrations" THEN message.controls
  ELSE LET j == SelectInSeq(table, LAMBDA c : c.name = message.name)
       IN  IF j = 0 THEN table ELSE [table EXCEPT ![j].value = message.value]

See(c) ==
  /\ pending[c] # << >>
  /\ pending' = [pending EXCEPT ![c] = Tail(@)]
  /\ shown' = [shown EXCEPT ![c] = Applied(@, Head(pending[c]))]
  /\ UNCHANGED <<gameVars, files, chosen, orders, crossed, counters>>

(* ControlCallback: a button is pressed, or a slider moved, which shows    *)
(* where it was moved to.  The command has the value as text.              *)
Move(c, k, value) ==
  /\ outcome # "crash" /\ changes < MaxChanges /\ changes' = changes + 1
  /\ k \in DOMAIN shown[c]
  /\ orders' = [orders EXCEPT ![c] =
       Append(@, [control |-> k, value |-> AsText(shown[c][k].type, value)])]
  /\ shown' = IF Slider(shown[c][k]) THEN [shown EXCEPT ![c][k].value = value] ELSE shown
  /\ crossed' = crossed \cup (IF shown[c][k].name \in Tells(pending[c]) THEN {<<c, shown[c][k].name>>} ELSE {})
  /\ UNCHANGED <<gameVars, files, chosen, pending, items, creates, processes>>

Client(c) ==
  \/ Connect(c)
  \/ c \in DOMAIN pending /\ (See(c) \/ \E k \in DOMAIN shown[c], v \in Values : Move(c, k, v))

Registering ==
  \/ Initialize \/ SetCommandCallback \/ SetField
  \/ \E f \in Files : SetConfigfile(f)
  \/ \E n \in ChannelNames : AddChannel(n)
  \/ \E n \in GroupNames : AddGroup(n)
  \/ \E h \in 0 .. MaxItems : SetRange(h) \/ \E g \in 0 .. MaxItems : AddMember(g, h)
  \/ \E n \in ChannelNames : (\E l \in Labels : AddLabelNamed(n, l)) \/ (\E g \in GroupNames : AddMemberNamed(g, n))
  \/ \E c \in Catalog : AddControl(c) \/ \E v \in Values : SetInitial(c.name, v)

Next ==
  \/ Registering \/ Create \/ CreateBusy \/ Shutdown
  \/ Update \/ Restart \/ RestartWriting
  \/ \E c \in Catalog, v \in Values : Set(c.name, v)
  \/ \E a \in Addresses, v \in Values : SetVariable(a, v)
  \/ \E n \in ChannelNames : SendByName(n)
  \/ \E c \in Clients : Client(c)

Spec == Init /\ [][Next]_vars

-----------------------------------------------------------------------------
(* What a block has, named as in told. *)
Facts(b) == {<<"channel", b.channels[h].name, h - 1>> : h \in DOMAIN b.channels}
  \cup {<<"group", b.groups[g], g - 1>> : g \in DOMAIN b.groups}
  \cup {<<"member", b.groups[m.group + 1], b.channels[m.channel + 1].name>> : m \in ToSet(b.members)}
  \cup {<<"label", b.channels[l.handle + 1].name, l.name>> : l \in ToSet(b.labels)}
  \cup {<<"range", c.name>> : c \in {d \in ToSet(b.channels) : d.ranged}}
  \cup {<<"control", Plain(b.controls[k]), k>> : k \in {i \in DOMAIN b.controls : b.controls[i].name # None}}
  \cup {<<"file", b.file>>}

(* The handles the game was given stand for the channels and groups it was *)
(* given them for, and the controls have the places they were added at;    *)
(* labels, ranges, members and the file are those it asked for; and of     *)
(* labels, ranges, members and controls there are no others, whatever      *)
(* channels were added since.  A vb_util_server_create that failed leaves  *)
(* the controls and the file to the next one, and nothing else.            *)
RegisteredAsAsked == Active =>
  /\ told \subseteq Facts(VB)
  /\ \A fact \in Facts(VB) : fact[1] \in {"member", "label", "range", "control"} => fact \in told

FloatCallback(c) == c.type = "float" /\ c.drive = "callback"
Commanded(c)     == c.drive = "command"

(* vb_util_server_create only refuses for a reason, and the process only   *)
(* crashes for one of these: a float slider with a callback, a button with *)
(* a command whose name the file could not hold, or a command without a    *)
(* callback.  The limits it computed are never the reason.                 *)
RefusedWithReason ==
  /\ outcome = "no" => \E c \in ToSet(util.controls) :
       ~c.valid \/ c.name \in Unlexable \/ FloatCallback(c)
  /\ outcome = "crash" => \E c \in ToSet(util.controls) :
       FloatCallback(c) \/ (Commanded(c) /\ (c.name \in Unlexable \/ ~util.command))

(* A server starts with the values its sliders had when the file was last  *)
(* written, but for what "%f" does not print, and with the game's values   *)
(* where the file has none.  This is for controls with distinct names; and *)
(* those of the file must all be there still.                              *)
Starting == outcome' = "ok" /\ creates' # creates

StartValue(k) ==
  LET c == VB'.controls[k]
      own == CHOOSE d \in ToSet(util.controls) : d.name = c.name
  IN  IF c.name \in DOMAIN chosen[VB'.file]
      THEN AsText(c.type, chosen[VB'.file][c.name])
      ELSE IF c.address = None THEN own.initial ELSE variable[c.address]

SlidersRestored == [][Starting =>
  \/ ~Distinct(util.controls)
  \/ chosen[VB'.file] = << >> /\ files[VB'.file] # << >>
  \/ ~ DOMAIN chosen[VB'.file] \subseteq {c.name : c \in ToSet(VB'.controls)}
  \/ \A k \in DOMAIN VB'.controls : Slider(VB'.controls[k]) =>
       /\ VB'.controls[k].value = StartValue(k)
       /\ VB'.controls[k].address # None => variable'[VB'.controls[k].address] = StartValue(k)]_vars

(* A client that has read everything shows what the server has, but for    *)
(* what "%f" does not print, unless an order of its own for that slider is *)
(* under way, crossed an update, or was lost behind another one.           *)
ShownIsValue == Active /\ Distinct(VB.controls) =>
  \A c \in DOMAIN shown : pending[c] = << >> =>
    \A k \in DOMAIN shown[c] :
      \/ \E o \in ToSet(orders[c]) : o.control = k
      \/ <<c, shown[c][k].name>> \in crossed
      \/ shown[c][k].value = VB.controls[k].value
      \/ AsText(shown[c][k].type, shown[c][k].value) = VB.controls[k].value
=============================================================================
