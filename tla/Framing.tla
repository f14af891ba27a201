------------------------------ MODULE Framing ------------------------------
(***************************************************************************)
(* How packets are cut out of the byte stream: the server writes each one  *)
(* behind a prefix that holds its length (vb__write_length_prepended_-     *)
(* message, server/viewback.c); CViewbackDataThread::Pump                  *)
(* (client/viewback_data.cpp) reads whatever has arrived and keeps what is *)
(* left of an incomplete packet for the next time.                         *)
(*                                                                         *)
(* A byte is named for the connection and the packet it belongs to and for *)
(* its place in it.  Where Pump finds a prefix it reads the packet's       *)
(* length; where it finds other bytes, or fewer than a prefix has, it      *)
(* reads some number.                                                      *)
(***************************************************************************)
EXTENDS Integers, Sequences, SequencesExt

CONSTANTS
  Prefix,          \* sizeof(size_t)
  MaxRead,         \* MSGBUFSIZE
  Lengths,         \* lengths of packets; 0 for one that could not be serialised
  Garbled,         \* a packet parsed from other bytes than one packet's
  MaxPackets,      \* bound: packets of a connection
  MaxConnections   \* bound: connections

ASSUME FramingAssumption ==
  /\ Prefix \in Nat \ {0} /\ MaxRead \in Nat \ {0}
  /\ Lengths \subseteq Nat
  /\ MaxPackets \in Nat /\ MaxConnections \in Nat \ {0}
  /\ Garbled \notin Nat

VARIABLES
  connection,   \* the number of the connection
  lengths,      \* history: the packets the server sent on it, as their lengths
  whole,        \* history: how many it sent before one of which send took only a part
  pipe,         \* bytes on their way
  parsing,      \* Pump is in its loop
  buffer,       \* aMsgBuf
  current,      \* iCurrentPacket
  leftover,     \* m_aLeftover
  messages,     \* history: what Pump has put into m_aMessages on this connection
  cut           \* history: a connection ended while m_aLeftover held something

streamVars ==
  <<connection, lengths, whole, pipe, parsing, buffer, current, leftover, messages, cut>>

Byte(m, k) == <<connection, m, k>>
Bytes == (1 .. MaxConnections) \X (1 .. MaxPackets) \X (Nat \ {0})
Written(m, n) == [k \in 1 .. Prefix + n |-> Byte(m, k)]

StreamTypeOK ==
  /\ connection \in 1 .. MaxConnections
  /\ lengths \in Seq(Lengths) /\ whole \in 0 .. Len(lengths)
  /\ pipe \in Seq(Bytes) /\ buffer \in Seq(Bytes) /\ leftover \in Seq(Bytes)
  /\ parsing \in BOOLEAN /\ cut \in BOOLEAN
  /\ current \in 0 .. Len(buffer)
  /\ messages \in Seq((1 .. MaxPackets) \cup {Garbled})
  /\ parsing => leftover = << >>

StreamInit ==
  /\ connection = 1
  /\ lengths = << >> /\ whole = 0 /\ pipe = << >>
  /\ parsing = FALSE /\ buffer = << >> /\ current = 0
  /\ leftover = << >> /\ messages = << >> /\ cut = FALSE

(* The server sends a packet, of which send takes k bytes.  Fewer than all *)
(* count as success: on Unix the socket never blocks (viewback_unix.h:39). *)
(* Where send takes none the connection ends.                              *)
Send(n, k) ==
  /\ Len(lengths) < MaxPackets
  /\ lengths' = Append(lengths, n)
  /\ whole' = IF whole = Len(lengths) /\ k = Prefix + n THEN whole + 1 ELSE whole
  /\ pipe' = pipe \o SubSeq(Written(Len(lengths) + 1, n), 1, k)
  /\ UNCHANGED <<connection, parsing, buffer, current, leftover, messages, cut>>

(* Faulty variant: the leftover comes last. *)
RecvLeftoverLast(n) ==
  /\ ~parsing /\ n <= Len(pipe) /\ n <= MaxRead
  /\ buffer' = SubSeq(pipe, 1, n) \o leftover
  /\ pipe' = SubSeq(pipe, n + 1, Len(pipe))
  /\ leftover' = << >> /\ current' = 0 /\ parsing' = TRUE
  /\ UNCHANGED <<connection, lengths, whole, messages, cut>>

(* recv returns n bytes, which go behind the leftover. *)
Recv(n) ==
  /\ ~parsing /\ n <= Len(pipe) /\ n <= MaxRead
  /\ buffer' = leftover \o SubSeq(pipe, 1, n)
  /\ pipe' = SubSeq(pipe, n + 1, Len(pipe))
  /\ leftover' = << >> /\ current' = 0 /\ parsing' = TRUE
  /\ UNCHANGED <<connection, lengths, whole, messages, cut>>

(* The numbers ntohl may give for the bytes at iCurrentPacket.  Bytes of   *)
(* an earlier connection, whose lengths are no longer known, give some.    *)
Sizes ==
  LET at == buffer[current + 1] m == at[2] IN
  IF /\ current + Prefix <= Len(buffer)
     /\ m <= Len(lengths)
     /\ \A k \in 1 .. Prefix : buffer[current + k] = Byte(m, k)
    THEN {lengths[m]} ELSE Lengths

(* Faulty variant: a packet that ends with the buffer counts as cut off. *)
FitsStrictly(size) == current + Prefix + size < Len(buffer)

(* The packet, as far as the number tells, is all there. *)
Fits(size) == current + Prefix + size <= Len(buffer)

(* What ParseFromArray makes of the bytes behind the prefix. *)
Parsed(size) ==
  LET body == SubSeq(buffer, current + 1, current + Prefix + size) m == body[1][2] IN
  IF m <= Len(lengths) /\ body = Written(m, lengths[m]) THEN m ELSE Garbled

(* One turn of the loop. *)
ParsePacket(size) ==
  /\ parsing /\ current < Len(buffer) /\ Fits(size)
  /\ messages' = Append(messages, Parsed(size))
  /\ current' = current + Prefix + size
  /\ UNCHANGED <<connection, lengths, whole, pipe, parsing, buffer, leftover, cut>>

KeepLeftover(size) ==
  /\ parsing /\ current < Len(buffer) /\ ~Fits(size)
  /\ leftover' = SubSeq(buffer, current + 1, Len(buffer))
  /\ parsing' = FALSE /\ buffer' = << >> /\ current' = 0
  /\ UNCHANGED <<connection, lengths, whole, pipe, messages, cut>>

LeaveLoop ==
  /\ parsing /\ current = Len(buffer)
  /\ parsing' = FALSE /\ buffer' = << >> /\ current' = 0
  /\ UNCHANGED <<connection, lengths, whole, pipe, leftover, messages, cut>>

(* recv would have blocked. *)
RecvNothing == ~parsing /\ pipe = << >> /\ UNCHANGED streamVars

Pump ==
  \/ RecvNothing
  \/ \E n \in 1 .. Len(pipe) : Recv(n)
  \/ parsing /\ current < Len(buffer)
       /\ \E size \in Sizes : ParsePacket(size) \/ KeepLeftover(size)
  \/ LeaveLoop

(* The connection ends between two calls of Pump and another is made;      *)
(* m_aLeftover stays as it is.                                             *)
Reconnect ==
  /\ ~parsing /\ connection < MaxConnections
  /\ connection' = connection + 1
  /\ cut' = (cut \/ leftover # << >>)
  /\ lengths' = << >> /\ whole' = 0 /\ pipe' = << >> /\ messages' = << >>
  /\ UNCHANGED <<parsing, buffer, current, leftover>>

StreamNext == (\E n \in Lengths : \E k \in 1 .. Prefix + n : Send(n, k)) \/ Pump \/ Reconnect

StreamSpec == StreamInit /\ [][StreamNext]_streamVars /\ WF_streamVars(Pump)

-----------------------------------------------------------------------------
(* However the stream is cut by recv, the packets parsed are those sent,   *)
(* complete and in their order, up to the first of which send took only a  *)
(* part, and as long as no earlier connection ended in the middle of one.  *)
PacketsAsSent == ~cut =>
  /\ \A i \in 1 .. Len(messages) : i <= whole => messages[i] = i
  /\ whole = Len(lengths) => Len(messages) <= whole

(* Every packet sent before such a one is parsed, unless the connection    *)
(* ends.                                                                   *)
EveryPacketParsed ==
  \A n \in 1 .. MaxPackets, k \in 1 .. MaxConnections :
    connection = k /\ ~cut /\ whole >= n
      ~> (connection # k \/ Len(messages) >= n)
=============================================================================
