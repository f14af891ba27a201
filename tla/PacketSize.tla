------------------------------ MODULE PacketSize ------------------------------
(***************************************************************************)
(* The sizes of the packets the server writes (server/viewback.c).  A      *)
(* buffer is made for a packet before it is written: vb__Packet_get_-      *)
(* message_size predicts the size, the functions below vb__Packet_write    *)
(* write the protobuf encoding, and vb__Packet_serialize gives up if that  *)
(* was not shorter than predicted: the packet is then sent with nothing in *)
(* it, and what it should have told is lost.                               *)
(*                                                                         *)
(* A string is its length; the string "0", which is not written, is 0.     *)
(* Floats have a fixed size and are left out.  The module has the default  *)
(* build, with integer times and with ranges.                              *)
(***************************************************************************)
EXTENDS Integers, Sequences, SequencesExt, FiniteSets

CONSTANTS
  NegativeSize,   \* bytes of a negative int as an unsigned long: 10 with 64 bits, 5 with 32
  Names,          \* lengths of names, commands and texts
  Numbers,        \* samples and label values
  Handles,        \* handles of the channels that send samples
  Sliders,        \* min, max, step and value of int sliders
  Times,          \* times of the game in milliseconds
  MaxItems        \* bound: what the game registers

ASSUME PacketSizeAssumption ==
  /\ NegativeSize \in {5, 10}
  /\ Names \subseteq Nat /\ \A n \in Names : n < 2097152          \* a text of 2 MiB
  /\ Numbers \subseteq Int /\ \A v \in Numbers : -2147483647 <= v /\ v <= 2147483647
  /\ Sliders \subseteq Seq(Int) /\ \A s \in Sliders : Len(s) = 4
  /\ Handles \subseteq Nat /\ \A h \in Handles : h < 65535         \* unsigned short
  /\ Times \subseteq Nat /\ \A t \in Times : t <= 2147483647       \* 24 days
  /\ MaxItems \in Nat

VARIABLES
  current_time,
  channels, groups, labels, controls   \* what is registered

vars == <<current_time, channels, groups, labels, controls>>

Channel(name, ranged) == [name |-> name, ranged |-> ranged]
Group(name, members) == [name |-> name, channels |-> members]
Label(handle, value, name) == [handle |-> handle, value |-> value, name |-> name]
Control(type, name, command, numbers) ==
  [type |-> type, name |-> name, command |-> command, numbers |-> numbers]

(* No command: VB->controls[i].command is NULL, and its length is 0.       *)
NoCommand == -1

-----------------------------------------------------------------------------
(* What is written. *)

(* vb__write_raw_varint32 and 64, seven bits in a byte; up to 2^35.        *)
Varint(n) ==
  IF n < 128 THEN 1
  ELSE IF n < 16384 THEN 2
  ELSE IF n < 2097152 THEN 3
  ELSE IF n < 268435456 THEN 4
  ELSE 5

(* An int is written as an unsigned long, an unsigned int as what it is.   *)
IntSize(n)      == IF n < 0 THEN NegativeSize ELSE Varint(n)
UnsignedSize(n) == IF n < 0 THEN 5 ELSE Varint(n)

Tag     == 1    \* vb__write_wire_format, for field numbers below 16
Fixed32 == 4    \* vb__write_raw_little_endian32

StrLen(name) == IF name = 0 THEN 1 ELSE name

Name(name) == IF name = 0 THEN 0 ELSE Tag + Varint(name) + name

SumOf(sizes) ==
  LET sum[i \in 0 .. Len(sizes)] == IF i = 0 THEN 0 ELSE sum[i - 1] + sizes[i]
  IN  sum[Len(sizes)]

Data(d) ==
  Tag + Varint(d.handle)
  + (CASE d.type = "int"    -> Tag + IntSize(d.value)
       [] d.type = "float"  -> Tag + Fixed32
       [] d.type = "vector" -> 3 * (Tag + Fixed32))
  + Tag + Varint(d.time)
  + (IF d.maintain = 0 THEN 0 ELSE Tag + Varint(d.maintain))

DataChannel(c, handle) ==
  Name(c.name) + Tag + 1 + Tag + Varint(handle) + (IF c.ranged THEN 2 * (Tag + Fixed32) ELSE 0)

DataGroup(g) ==
  Name(g.name) + SumOf([i \in DOMAIN g.channels |-> Tag + Varint(g.channels[i])])

DataLabel(l) == Tag + Varint(l.handle) + Tag + IntSize(l.value) + Name(l.name)

Command(command) ==
  CASE command = NoCommand -> Tag + 1
    [] command # NoCommand -> Name(command)

DataControl(c) ==
  Name(c.name) + Tag + 1
  + (CASE c.type = "button" -> Command(c.command)
       [] c.type = "float"  -> 3 * (Tag + Fixed32) + Tag + UnsignedSize(c.numbers[3])
       [] c.type = "int"    -> 4 * Tag + IntSize(c.numbers[1]) + IntSize(c.numbers[2])
                               + UnsignedSize(c.numbers[3]) + IntSize(c.numbers[4]))

(* Faulty variant: off by one. *)
ShiftLate(size) == IF size > 128 THEN 2 ELSE 1

(* The room that is made for the length of a submessage once it is known.  *)
Shift(size) == IF size > 127 THEN 2 ELSE 1

WithTag(size) == Tag + Shift(size) + size

Text(length) == IF length = 0 THEN 0 ELSE Tag + Varint(length) + length

-----------------------------------------------------------------------------
(* What is predicted: vb__Packet_get_message_size. *)

(* Faulty variant: the time the last value was held until is forgotten. *)
DataPredictedUnheld(d) ==
  2 + 4 + (IF d.type = "vector" THEN 15 ELSE 5) + 9

DataPredicted(d) ==
  2 + 4 + (IF d.type = "vector" THEN 15 ELSE 5) + 9 + (IF d.maintain = 0 THEN 0 ELSE 11)

ChannelPredicted(c) == 2 + 3 + 4 + 5 + 5 + 5 + StrLen(c.name)

GroupPredicted(g) == 5 + StrLen(g.name) + 4 * Len(g.channels)

LabelPredicted(l) == 2 + 4 + 9 + 5 + StrLen(l.name)

(* Faulty variant: the command of a button is forgotten. *)
ControlPredictedUncommanded(c) == 2 + 3 + 5 + 5 + 5 + 5 + 2 + 2 + 5 + StrLen(c.name)

ControlPredicted(c) ==
  2 + 3 + 5 + 5 + 5 + 5 + 2 + 2 + 5 + StrLen(c.name)
  + (IF c.command = NoCommand THEN 0 ELSE StrLen(c.command))

TextPredicted(length) == IF length = 0 THEN 0 ELSE 5 + length

(* One field for all items of a kind: a tag and two bytes.                 *)
Repeated(items) == IF items = << >> THEN 0 ELSE 3

-----------------------------------------------------------------------------
(* A packet: what is written for it, and what is predicted.  Each ends in  *)
(* is_registration.                                                        *)
Packet(written, predicted) == [written |-> written + Tag + 1, predicted |-> predicted + 2]

Serializes(p) == p.written < p.predicted

DataPacket(d) == Packet(WithTag(Data(d)), DataPredicted(d))

TextPacket(length) == Packet(Text(length), TextPredicted(length))

Registrations == Packet(
  SumOf([i \in DOMAIN channels |-> WithTag(DataChannel(channels[i], i - 1))])
  + SumOf([i \in DOMAIN groups |-> WithTag(DataGroup(groups[i]))])
  + SumOf([i \in DOMAIN labels |-> WithTag(DataLabel(labels[i]))])
  + SumOf([i \in DOMAIN controls |-> WithTag(DataControl(controls[i]))]),
  SumOf([i \in DOMAIN channels |-> ChannelPredicted(channels[i])]) + Repeated(channels)
  + SumOf([i \in DOMAIN groups |-> GroupPredicted(groups[i])]) + Repeated(groups)
  + SumOf([i \in DOMAIN labels |-> LabelPredicted(labels[i])]) + Repeated(labels)
  + SumOf([i \in DOMAIN controls |-> ControlPredicted(controls[i])]) + Repeated(controls))

(* vb__data_update_control: a control with its name, type and value only.  *)
Update(c, value) ==
  LET control == Control(c.type, c.name, NoCommand, <<0, 0, 0, value>>)
  IN  Packet(WithTag(DataControl(control)), ControlPredicted(control) + 3)

(* The samples that can be sent now.  A value that was held was held until *)
(* some earlier time.                                                      *)
Samples ==
  [type : {"int", "float", "vector"}, handle : Handles, value : Numbers,
   time : {current_time}, maintain : {0} \cup {t \in Times : t <= current_time}]

-----------------------------------------------------------------------------
ChannelSet == [name : Names, ranged : BOOLEAN]
GroupSet   == [name : Names, channels : Seq(Nat)]
LabelSet   == [handle : Nat, value : Numbers, name : Names]
ControlSet == [type : {"button", "float", "int"}, name : Names, command : Names \cup {NoCommand},
               numbers : Seq(Int)]

TypeOK ==
  /\ current_time \in Times
  /\ channels \in Seq(ChannelSet) /\ groups \in Seq(GroupSet)
  /\ labels \in Seq(LabelSet) /\ controls \in Seq(ControlSet)

Init ==
  /\ current_time \in Times /\ \A t \in Times : current_time <= t
  /\ channels = << >> /\ groups = << >> /\ labels = << >> /\ controls = << >>

Items == Len(channels) + Len(groups) + Len(labels) + Len(controls)

Advance ==
  /\ current_time' \in {t \in Times : t > current_time}
  /\ UNCHANGED <<channels, groups, labels, controls>>

AddChannel(name, ranged) ==
  /\ Items < MaxItems
  /\ channels' = Append(channels, Channel(name, ranged))
  /\ UNCHANGED <<current_time, groups, labels, controls>>

AddGroup(name) ==
  /\ Items < MaxItems
  /\ groups' = Append(groups, Group(name, << >>))
  /\ UNCHANGED <<current_time, channels, labels, controls>>

(* A channel is in a group once here; the code would let it in again.      *)
AddMember(g, handle) ==
  /\ handle < Len(channels) /\ ~ Contains(groups[g].channels, handle)
  /\ groups' = [groups EXCEPT ![g].channels = Append(@, handle)]
  /\ UNCHANGED <<current_time, channels, labels, controls>>

AddLabel(handle, value, name) ==
  /\ Items < MaxItems /\ handle < Len(channels)
  /\ labels' = Append(labels, Label(handle, value, name))
  /\ UNCHANGED <<current_time, channels, groups, controls>>

AddControl(control) ==
  /\ Items < MaxItems
  /\ controls' = Append(controls, control)
  /\ UNCHANGED <<current_time, channels, groups, labels>>

Controls ==
  {Control("button", n, c, << >>) : n \in Names, c \in Names \cup {NoCommand}}
    \cup {Control(t, n, NoCommand, s) : t \in {"float", "int"}, n \in Names, s \in Sliders}

Next ==
  \/ Advance
  \/ \E n \in Names :
       \/ \E ranged \in BOOLEAN : AddChannel(n, ranged)
       \/ AddGroup(n)
       \/ \E h \in 0 .. MaxItems, v \in Numbers : AddLabel(h, v, n)
  \/ \E g \in DOMAIN groups, h \in 0 .. MaxItems : AddMember(g, h)
  \/ \E c \in Controls : AddControl(c)

Spec == Init /\ [][Next]_vars

-----------------------------------------------------------------------------
(* "VBAssert(end_offset < length)" (viewback.c:2588) holds for a sample of *)
(* any channel and time, but for negative ints, and for the new value of   *)
(* any slider that clients are told, negative or not.                      *)
ValuesSerialize ==
  /\ \A d \in Samples : d.value >= 0 => Serializes(DataPacket(d))
  /\ \A i \in DOMAIN controls, v \in Numbers :
       controls[i].type # "button" => Serializes(Update(controls[i], v))
  /\ \A length \in Names \ {0} : Serializes(TextPacket(length))

(* The registrations can be sent whatever is registered, if there is       *)
(* something to register, but for int sliders with negative numbers, and   *)
(* for more than two groups that have a long name and nothing in them: the *)
(* tag and the length of a group are not predicted (viewback.c:2484).      *)
Negative(c) == c.type = "int" /\ \E i \in DOMAIN c.numbers : c.numbers[i] < 0
Bare(g) == g.name > 127 /\ g.channels = << >>

RegistrationsSerialize ==
  \/ Items = 0
  \/ \E i \in DOMAIN controls : Negative(controls[i])
  \/ Cardinality({i \in DOMAIN groups : Bare(groups[i])}) > 2
  \/ Serializes(Registrations)

(* The room left for the length of a submessage is what the length takes.  *)
LengthsMatch ==
  /\ \A d \in Samples : Shift(Data(d)) = Varint(Data(d))
  /\ \A i \in DOMAIN channels :
       LET size == DataChannel(channels[i], i - 1) IN Shift(size) = Varint(size)
  /\ \A i \in DOMAIN controls :
       LET size == DataControl(controls[i]) IN Shift(size) = Varint(size)
=============================================================================
