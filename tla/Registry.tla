------------------------------ MODULE Registry ------------------------------
(***************************************************************************)
(* What a game registers with the server and what becomes of its controls  *)
(* (server/viewback.c): the functions vb_data_add_*, the values of         *)
(* sliders, and the updates of them that are sent to the clients.          *)
(*                                                                         *)
(* The functions work on a record s of                                     *)
(*   VB        the block of memory behind the pointer VB,                  *)
(*   variable  the variables of the game that sliders are bound to,        *)
(*   pending   what was sent to each connected client and not read yet,    *)
(*   result    "ok"; "no" after a call that returned 0; "crash".           *)
(* Types of channels, steps and the bounds of sliders are left out, and    *)
(* names are only compared.                                                *)
(***************************************************************************)
EXTENDS Integers, Sequences, FiniteSets, SequencesExt

CONSTANTS
  Names,
  Alike(_, _),    \* one of two names begins with the other
  Unlexable,      \* names with a ':', '{' or '}' in them
  Values,         \* of sliders
  None            \* no name, no address

ASSUME RegistryAssumption ==
  /\ None \notin Names /\ Unlexable \subseteq Names
  /\ 0 \in Values
  /\ \A n, m \in Names : Alike(n, m) \in BOOLEAN /\ Alike(n, n) /\ (Alike(n, m) <=> Alike(m, n))

(* What op makes of s and the elements of a sequence, one after the other. *)
Folded(op(_, _), s, elements) ==
  LET after[i \in 0 .. Len(elements)] == IF i = 0 THEN s ELSE op(after[i - 1], elements[i])
  IN  after[Len(elements)]

(* Memory that was set to zero. *)
Hole == [name |-> None, type |-> "none", drive |-> "none", address |-> None, value |-> 0]

Slider(c) == c.type \in {"float", "int"}

(* vb_config_install: VB after it, for a configuration with these maximal  *)
(* numbers of things to register.                                          *)
Installed(limits, file, command) ==
  [limits |-> limits, file |-> file, command |-> command, active |-> FALSE,
   channels |-> << >>, groups |-> << >>, members |-> << >>, labels |-> << >>, controls |-> << >>]

(* What follows a call is not reached once it has failed.                  *)
Try(s, allowed, then) ==
  CASE s.result # "ok" -> s
    [] s.result = "ok" /\ allowed -> then
    [] s.result = "ok" /\ ~allowed -> [s EXCEPT !.result = "no"]

-----------------------------------------------------------------------------
(* Registration: vb_data_add_channel, _group, _channel_to_group and _label *)
(* and vb_data_set_range.  A handle is the index of what it stands for,    *)
(* from 0.                                                                 *)
DataAddChannel(s, name) == Try(s, Len(s.VB.channels) < s.VB.limits.channels,
  [s EXCEPT !.VB.channels = Append(@, [name |-> name, ranged |-> FALSE])])

DataSetRange(s, handle) == Try(s, handle < Len(s.VB.channels) /\ ~s.VB.active,
  [s EXCEPT !.VB.channels[handle + 1].ranged = TRUE])

DataAddLabel(s, handle, label) ==
  Try(s, handle < Len(s.VB.channels) /\ Len(s.VB.labels) < s.VB.limits.labels /\ ~s.VB.active,
    [s EXCEPT !.VB.labels = Append(@, [handle |-> handle, name |-> label])])

DataAddGroup(s, name) == Try(s, Len(s.VB.groups) < s.VB.limits.groups /\ ~s.VB.active,
  [s EXCEPT !.VB.groups = Append(@, name)])

DataAddMember(s, group, handle) ==
  Try(s, /\ handle < Len(s.VB.channels) /\ group < Len(s.VB.groups)
         /\ Len(s.VB.members) < s.VB.limits.members /\ ~s.VB.active,
    [s EXCEPT !.VB.members = Append(@, [group |-> group, channel |-> handle])])

(* The eight vb_data_add_control_*.  valid is what each asks of its other  *)
(* arguments.  A button with a command does not look whether it was given  *)
(* a place, and a float slider with a callback takes two.                  *)
DataAddControl(s, c) ==
  LET added == [name |-> c.name, type |-> c.type, drive |-> c.drive, address |-> c.address,
                value |-> IF c.address = None THEN 0 ELSE s.variable[c.address]]
      given == /\ Len(s.VB.controls) < s.VB.limits.controls /\ ~s.VB.active
               /\ c.name \notin Unlexable
      taken == IF c.type = "float" /\ c.drive = "callback" THEN <<added, Hole>> ELSE <<added>>
  IN  IF s.result = "ok" /\ c.valid /\ ~given /\ c.type = "button" /\ c.drive = "command"
      THEN [s EXCEPT !.result = "crash"]
      ELSE Try(s, c.valid /\ given, [s EXCEPT !.VB.controls = @ \o taken])

-----------------------------------------------------------------------------
(* Values. *)

(* vb__data_find_control_by_name: the first control whose name is like     *)
(* this one, or a hole, which has no name to compare: strlen(NULL).        *)
FindControl(VB, name) ==
  LET Found(c) == c.name = None \/ Alike(c.name, name) IN SelectInSeq(VB.controls, Found)

Told(s, clients, message) ==
  [c \in DOMAIN s.pending |-> IF c \in clients THEN Append(s.pending[c], message) ELSE s.pending[c]]

(* vb__data_update_control: clients are told by name. *)
UpdateControl(s, k, value, clients) ==
  [s EXCEPT !.pending = Told(s, clients, [kind |-> "update", name |-> s.VB.controls[k].name, value |-> value])]

Assign(s, address, value) ==
  IF address = None THEN s ELSE [s EXCEPT !.variable[address] = value]

(* vb__data_set_control_slider_float_value_h and _int_value_h. *)
SetValue(s, k, value) ==
  IF s.VB.controls[k].value = value THEN s
  ELSE LET set == Assign([s EXCEPT !.VB.controls[k].value = value], s.VB.controls[k].address, value)
       IN  IF s.VB.active THEN UpdateControl(set, k, value, DOMAIN s.pending) ELSE set

(* vb_data_set_control_slider_float_value and _int_value. *)
SetNamedValue(s, name, value) ==
  LET k == FindControl(s.VB, name)
  IN  IF s.result = "ok" /\ k # 0 /\ s.VB.controls[k].name = None THEN [s EXCEPT !.result = "crash"]
      ELSE Try(s, k # 0, SetValue(s, k, value))

(* Faulty variant: the client that moved the slider is told as well, and   *)
(* nobody else.                                                            *)
ObeyTellsSender(s, k, value, sender) ==
  LET c == s.VB.controls[k]
  IN  Assign(UpdateControl([s EXCEPT !.VB.controls[k].value = value], k, value, {sender}),
             c.address, value)

(* The command "control: k value" of a slider, up to the game's callback   *)
(* or command.                                                             *)
ObeySlider(s, k, value, sender) ==
  LET c == s.VB.controls[k]
  IN  Assign(UpdateControl([s EXCEPT !.VB.controls[k].value = value], k, value, DOMAIN s.pending \ {sender}),
             IF c.drive = "address" THEN c.address ELSE None, value)

(* A command that names no control, or a hole, is ignored.  Where a        *)
(* control has a command, the game's command callback is not tested.       *)
ObeyControl(s, k, value, sender) ==
  IF s.result # "ok" \/ k \notin DOMAIN s.VB.controls THEN s
  ELSE LET c   == s.VB.controls[k]
           set == IF Slider(c) THEN ObeySlider(s, k, value, sender) ELSE s
       IN  IF c.drive = "command" /\ ~s.VB.command THEN [set EXCEPT !.result = "crash"] ELSE set

(* The end of vb_server_update: has the game changed a slider's variable?  *)
PollControl(s, k) ==
  LET c == s.VB.controls[k]
  IN  IF c.address = None \/ s.variable[c.address] = c.value THEN s
      ELSE UpdateControl([s EXCEPT !.VB.controls[k].value = s.variable[c.address]],
                         k, s.variable[c.address], DOMAIN s.pending)

(* Only so many controls are looked at as the configuration has room for.  *)
PollControls(s) ==
  Folded(PollControl, s, [k \in 1 .. Min({Len(s.VB.controls), s.VB.limits.controls}) |-> k])

-----------------------------------------------------------------------------
(* vb__send_registrations: a hole has no name to send. *)
SendRegistrations(s, clients) ==
  IF \E k \in DOMAIN s.VB.controls : s.VB.controls[k].name = None THEN [s EXCEPT !.result = "crash"]
  ELSE [s EXCEPT !.pending = Told(s, clients, [kind |-> "registrations", controls |->
          [k \in DOMAIN s.VB.controls |-> [name |-> s.VB.controls[k].name,
                                           type |-> s.VB.controls[k].type,
                                           value |-> s.VB.controls[k].value]]])]

(* vb_data_send_int_s and its siblings for a channel that is not there:    *)
(* the block is copied to one that has room for it.  The value itself is   *)
(* not sent, as the handle is the one that was not found.                  *)
SendNamed(s, name) ==
  IF \E h \in DOMAIN s.VB.channels : Alike(s.VB.channels[h].name, name) THEN s
  ELSE SendRegistrations(DataAddChannel([s EXCEPT !.VB.limits.channels = @ + 1], name), DOMAIN s.pending)
=============================================================================
