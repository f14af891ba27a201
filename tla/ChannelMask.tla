---------------------------- MODULE ChannelMask ----------------------------
(***************************************************************************)
(* Which channels are active for which connection (server/viewback.c).     *)
(* The server keeps one bit mask per connection; the masks lie one behind  *)
(* the other at the end of the server's memory block, each as long as      *)
(* vb__config_get_channel_mask_length says.  A channel is located in a     *)
(* mask by a loop that runs while channel > 8.  Registering a channel once *)
(* the block is full moves everything to a larger block.                   *)
(*                                                                         *)
(* asked is what the protocol promises a client: the channels it has       *)
(* activated, and nothing else.                                            *)
(***************************************************************************)
EXTENDS Integers

CONSTANTS
  StartSizes,       \* config.num_data_channels at vb_config_install
  MaxChannels,      \* bound: channels after growth
  MaxSlots,         \* config.max_connections
  CommandChannels,  \* channels the clients name in their commands
  Groups,           \* each group, as its set of channels
  SignedChar        \* whether the compiler's plain char is signed

ASSUME MaskAssumption ==
  /\ StartSizes \subseteq Nat /\ MaxChannels \in Nat /\ MaxSlots \in Nat
  /\ CommandChannels \subseteq Nat
  /\ Groups \subseteq SUBSET Nat
  /\ SignedChar \in BOOLEAN

VARIABLES
  capacity,     \* VB->config.num_data_channels
  nextChannel,  \* VB->next_channel
  connected,    \* connections whose socket is valid
  memory,       \* <<byte, bit>>: the set bits, byte 0 being the first mask's
  asked         \* what each connection has asked for

maskVars == <<capacity, nextChannel, connected, memory, asked>>

Connections == 0 .. MaxSlots - 1
Handles == 0 .. nextChannel - 1

(* Faulty variant: masks are never longer than a byte. *)
MaskLengthOne(n) == 1

(* vb__config_get_channel_mask_length, used as a number of bytes. *)
MaskLength(n) ==
  IF n <= 8 THEN 1
  ELSE IF n <= 16 THEN 2
  ELSE IF n % 32 = 0 THEN n \div 32 ELSE n \div 32 + 1

(* while (channel > 8) { channel -= 8; mask += 1; } leaves a bit number in *)
(* 0 .. 8, where bit 8 does not exist.                                     *)
ByteOf(c) == IF c = 0 THEN 0 ELSE (c - 1) \div 8
BitOf(c) == c - 8 * ByteOf(c)

(* Connection k's mask starts at byte k * MaskLength of the masks. *)
ByteAt(c, k, n) == k * MaskLength(n) + ByteOf(c)

(* The bits that |= and &= of 1 << channel change for the channels of S:   *)
(* none for bit 8, which the conversion to char drops.                     *)
CellsOf(S, k, n) ==
  {<<ByteAt(c, k, n), BitOf(c)>> : c \in {d \in S : BitOf(d) # 8}}

(* vb__data_is_channel_active: a char is sign-extended before the test, so *)
(* bit 8 of it is its bit 7 where char is signed.                          *)
BitSet(c, k) ==
  IF BitOf(c) = 8 THEN SignedChar /\ <<ByteAt(c, k, capacity), 7>> \in memory
  ELSE <<ByteAt(c, k, capacity), BitOf(c)>> \in memory

IsActive(c, k) == c \in Handles /\ k \in connected /\ BitSet(c, k)

-----------------------------------------------------------------------------

MaskTypeOK ==
  /\ capacity \in Nat /\ nextChannel \in Nat
  /\ nextChannel <= capacity
  /\ connected \subseteq Connections
  /\ memory \subseteq Nat \X (0 .. 7)
  /\ asked \in [Connections -> SUBSET Nat]
  /\ \A k \in Connections : asked[k] \subseteq Handles

MaskInit ==
  /\ capacity \in StartSizes
  /\ nextChannel \in 0 .. capacity
  /\ connected = {}
  /\ memory = {}
  /\ asked = [k \in Connections |-> {}]

(* Faulty variant: a new connection takes its slot's mask as it finds it.  *)
OccupyUncleared(k) ==
  /\ k \notin connected /\ \A j \in 0 .. k - 1 : j \in connected
  /\ connected' = connected \cup {k}
  /\ asked' = [asked EXCEPT ![k] = {}]
  /\ UNCHANGED <<capacity, nextChannel, memory>>

(* accept: the first free slot is taken and vb__connection_setup clears    *)
(* its mask.                                                               *)
Occupy(k) ==
  /\ k \notin connected /\ \A j \in 0 .. k - 1 : j \in connected
  /\ connected' = connected \cup {k}
  /\ memory' = {cell \in memory :
       cell[1] \notin k * MaskLength(capacity) .. (k + 1) * MaskLength(capacity) - 1}
  /\ asked' = [asked EXCEPT ![k] = {}]
  /\ UNCHANGED <<capacity, nextChannel>>

(* The connection is lost; its mask stays. *)
Drop(k) ==
  /\ k \in connected
  /\ connected' = connected \ {k}
  /\ asked' = [asked EXCEPT ![k] = {}]
  /\ UNCHANGED <<capacity, nextChannel, memory>>

(* "activate: c" *)
Activate(c, k) ==
  /\ k \in connected /\ c \in Handles
  /\ memory' = memory \cup CellsOf({c}, k, capacity)
  /\ asked' = [asked EXCEPT ![k] = @ \cup {c}]
  /\ UNCHANGED <<capacity, nextChannel, connected>>

(* "deactivate: c" *)
Deactivate(c, k) ==
  /\ k \in connected /\ c \in Handles
  /\ memory' = memory \ CellsOf({c}, k, capacity)
  /\ asked' = [asked EXCEPT ![k] = @ \ {c}]
  /\ UNCHANGED <<capacity, nextChannel, connected>>

(* "group: g": every channel is deactivated, then the group's activated.   *)
ActivateGroup(g, k) ==
  /\ k \in connected
  /\ memory' = (memory \ CellsOf(Handles, k, capacity))
                 \cup CellsOf(g \cap Handles, k, capacity)
  /\ asked' = [asked EXCEPT ![k] = g \cap Handles]
  /\ UNCHANGED <<capacity, nextChannel, connected>>

(* vb_data_add_channel within the configured number of channels. *)
AddChannel ==
  /\ nextChannel < capacity
  /\ nextChannel' = nextChannel + 1
  /\ UNCHANGED <<capacity, connected, memory, asked>>

(* vb__memory_add_channel: a block for one channel more is laid out, and   *)
(* the new mask length is copied from where each old mask starts.  What    *)
(* lies past the old block is arbitrary.                                   *)
GrowByOneChannel ==
  LET old == MaskLength(capacity)
      new == MaskLength(capacity + 1)
      past == {MaxSlots * old} \X (0 .. 7)
  IN
  /\ capacity < MaxChannels
  /\ capacity' = capacity + 1
  /\ nextChannel' = nextChannel + 1
  /\ \E junk \in SUBSET (IF new > old THEN past ELSE {}) :
       memory' = {cell \in (0 .. MaxSlots * new - 1) \X (0 .. 7) :
         <<(cell[1] \div new) * old + (cell[1] % new), cell[2]>> \in memory \cup junk}
  /\ UNCHANGED <<connected, asked>>

MaskCommand(k) ==
  \/ \E c \in CommandChannels : Activate(c, k) \/ Deactivate(c, k)
  \/ \E g \in Groups : ActivateGroup(g, k)

MaskNext ==
  \/ \E k \in Connections : Occupy(k) \/ Drop(k) \/ MaskCommand(k)
  \/ AddChannel
  \/ GrowByOneChannel

MaskSpec == MaskInit /\ [][MaskNext]_maskVars

-----------------------------------------------------------------------------
(* With at most eight channels a channel is active for a connection exactly *)
(* when that connection asked for it: commands of other connections, slots  *)
(* used before and channels registered later make no difference.            *)
MaskIsExact ==
  capacity <= 8 => \A k \in connected, c \in Handles : IsActive(c, k) <=> c \in asked[k]

(* The same with up to sixteen channels, but for channels 8 and 16, which  *)
(* have no bit.                                                            *)
MaskIsExactSaveEighths ==
  capacity <= 16 => \A k \in connected, c \in Handles :
    BitOf(c) # 8 => (IsActive(c, k) <=> c \in asked[k])
=============================================================================
