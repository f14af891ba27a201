----------------------------- MODULE DataStream -----------------------------
(***************************************************************************)
(* The values of one channel, from the game to the client's lists: the     *)
(* compression of vb_data_send_int, _float and _vector ("maintain time     *)
(* trick", server/viewback.c), which are alike, and its reversal in        *)
(* CViewbackClient::StashData (client/viewback_client.cpp).  The server    *)
(* keeps one last value and one maintain time for a channel, whichever     *)
(* clients have it active.  Channels do not share any of this state.       *)
(*                                                                         *)
(* TCP delivers what is sent to a client in order (wire); connections are  *)
(* those of Server.tla.  Time is current_time, in the unit of the game.    *)
(***************************************************************************)
EXTENDS Integers, Sequences, SequencesExt

CONSTANTS
  Clients,
  Values,         \* what the game samples
  Zero,           \* the value of freshly allocated memory
  Registration,   \* a packet with the registrations
  ClearEvery,     \* old data are cleared once in this time
  MaxTime,        \* bound: current_time
  MaxSamples,     \* bound: calls of vb_data_send_*
  MaxCommands     \* bound: commands and connections of all clients

ASSUME DataStreamAssumption ==
  /\ Zero \in Values
  /\ {ClearEvery, MaxTime, MaxSamples, MaxCommands} \subseteq Nat

VARIABLES
  now,          \* current_time
  initialized,  \* CHANNEL_FLAG_INITIALIZED
  last,         \* last_int, last_float, ...
  maintain,     \* maintain_time, 0 for none
  active,       \* the channel's bit in each client's mask
  wire,         \* packets on their way to each client
  view,         \* what each client keeps
  samples,      \* history: what the game sampled, and by which update it is told
  updates,      \* history: packets made for the channel
  asked         \* what MaxCommands bounds

channelVars == <<now, initialized, last, maintain>>
vars == <<channelVars, active, wire, view, samples, updates, asked>>

Times == Nat
Point(t, v) == [time |-> t, data |-> v]
Points == [time : Times, data : Values]

(* A data packet; update is its number, which only the history knows.      *)
Packet(v) == [time |-> now, data |-> v, maintain |-> maintain, update |-> updates + 1]
Packets == [time : Times, data : Values, maintain : Times, update : Nat \ {0}]

(* What a client keeps: m_aIntData or its like, m_flLatestDataTime, and    *)
(* m_flNextDataClear; got is the history of the updates behind the list.   *)
Views == [list : Seq(Points), latest : Times, nextClear : Times, got : SUBSET (Nat \ {0})]

TypeOK ==
  /\ now \in Times /\ maintain \in Times
  /\ initialized \in BOOLEAN /\ last \in Values
  /\ active \in [Clients -> BOOLEAN]
  /\ wire \in [Clients -> Seq(Packets \cup {Registration})]
  /\ view \in [Clients -> Views]
  /\ updates \in Nat /\ asked \in Nat
  /\ samples \in Seq([time : Times, data : Values, update : 1 .. updates])

Init ==
  /\ now = 0 /\ maintain = 0
  /\ initialized = FALSE /\ last = Zero
  /\ active = [c \in Clients |-> FALSE]
  /\ wire = [c \in Clients |-> << >>]
  /\ view = [c \in Clients |->
       [list |-> << >>, latest |-> 0, nextClear |-> ClearEvery, got |-> {}]]
  /\ samples = << >> /\ updates = 0 /\ asked = 0

-----------------------------------------------------------------------------
(* The server. *)

(* The game calls vb_server_update, with the same time or a later one. *)
Tick ==
  /\ now' \in now .. MaxTime
  /\ UNCHANGED <<initialized, last, maintain, active, wire, view, samples, updates, asked>>

Sampled(v, update) ==
  samples' = Append(samples, [time |-> now, data |-> v, update |-> update])

(* Faulty variant: the time is not noted. *)
TossUnnoted(v) ==
  /\ initialized /\ v = last
  /\ Sampled(v, updates)
  /\ UNCHANGED <<channelVars, active, wire, view, updates, asked>>

(* The channel has this value already: only the time is noted. *)
Toss(v) ==
  /\ initialized /\ v = last
  /\ maintain' = now
  /\ Sampled(v, updates)
  /\ UNCHANGED <<now, initialized, last, active, wire, view, updates, asked>>

(* Faulty variant: the maintain time is sent but not reset. *)
SendKeepsMaintain(v) ==
  /\ ~(initialized /\ v = last)
  /\ initialized' = TRUE /\ last' = v
  /\ wire' = [c \in Clients |-> IF active[c] THEN Append(wire[c], Packet(v)) ELSE wire[c]]
  /\ updates' = updates + 1
  /\ Sampled(v, updates')
  /\ UNCHANGED <<now, maintain, active, view, asked>>

(* A new value goes, with the maintain time, to the clients that have the  *)
(* channel active; the server's own state changes even if there are none.  *)
Send(v) ==
  /\ ~(initialized /\ v = last)
  /\ initialized' = TRUE /\ last' = v
  /\ wire' = [c \in Clients |-> IF active[c] THEN Append(wire[c], Packet(v)) ELSE wire[c]]
  /\ maintain' = 0
  /\ updates' = updates + 1
  /\ Sampled(v, updates')
  /\ UNCHANGED <<now, active, view, asked>>

DataSend(v) == Len(samples) < MaxSamples /\ (Toss(v) \/ Send(v))

(* The commands of a client, which the server obeys in vb_server_update.   *)
Ask == asked < MaxCommands /\ asked' = asked + 1

Activate(c, bit) ==
  /\ Ask
  /\ active' = [active EXCEPT ![c] = bit]
  /\ UNCHANGED <<channelVars, wire, view, samples, updates>>

(* A group is activated, and its channels' last values are sent again,     *)
(* which is to say tossed: all that remains is the maintain time.          *)
ActivateGroup(c) ==
  /\ Ask
  /\ active' = [active EXCEPT ![c] = TRUE]
  /\ maintain' = IF initialized THEN now ELSE maintain
  /\ UNCHANGED <<now, initialized, last, wire, view, samples, updates>>

(* The registrations are sent again, on demand or for a new channel. *)
Register(c) ==
  /\ Ask
  /\ wire' = [wire EXCEPT ![c] = Append(@, Registration)]
  /\ UNCHANGED <<channelVars, active, view, samples, updates>>

(* A connection is made; it may be the client's next one.                  *)
Connect(c) ==
  /\ Ask
  /\ wire' = [wire EXCEPT ![c] = <<Registration>>]
  /\ active' = [active EXCEPT ![c] = FALSE]
  /\ UNCHANGED <<channelVars, view, samples, updates>>

-----------------------------------------------------------------------------
(* The client. *)

(* What StashData appends: the old value at the maintain time, if there is *)
(* one and the list has a value at another time, and the new value.        *)
(* Faulty variant: the new value at the maintain time.                     *)
AppendedNewTwice(list, p) ==
  list \o (IF p.maintain # 0 /\ list # << >> /\ p.maintain # Last(list).time
             THEN <<Point(p.maintain, p.data)>> ELSE << >>)
       \o <<Point(p.time, p.data)>>

Appended(list, p) ==
  list \o (IF p.maintain # 0 /\ list # << >> /\ p.maintain # Last(list).time
             THEN <<Point(p.maintain, Last(list).data)>> ELSE << >>)
       \o <<Point(p.time, p.data)>>

(* A packet handled by Update; a registration empties all lists.           *)
Handled(v, p) ==
  IF p = Registration
    THEN [v EXCEPT !.list = << >>, !.latest = 0, !.got = {}]
    ELSE [v EXCEPT !.list = Appended(@, p),
                   !.latest = IF p.time > @ THEN p.time ELSE @,
                   !.got = @ \cup {p.update}]

(* Points older than a limit are dropped from the front, two are kept.     *)
Cleared(list, limit) ==
  LET keep == {k \in 1 .. Len(list) : k + 1 >= Len(list) \/ list[k].time >= limit}
  IN  IF list = << >> THEN list
      ELSE SubSeq(list, CHOOSE k \in keep : \A j \in keep : k <= j, Len(list))

(* The end of Update. *)
Clear(v, limit) ==
  IF v.latest > v.nextClear
    THEN [v EXCEPT !.list = Cleared(@, limit), !.nextClear = v.latest + ClearEvery]
    ELSE v

(* A packet of those one call of Update takes: after the last of them old  *)
(* data are cleared, up to a limit that the monitor chooses or, for a      *)
(* vector, that the display time sets.                                     *)
Update(c) ==
  /\ wire[c] # << >>
  /\ wire' = [wire EXCEPT ![c] = Tail(@)]
  /\ LET handled == Handled(view[c], Head(wire[c]))
     IN  \/ view' = [view EXCEPT ![c] = handled]
         \/ \E limit \in 0 .. now : view' = [view EXCEPT ![c] = Clear(handled, limit)]
  /\ UNCHANGED <<channelVars, active, samples, updates, asked>>

-----------------------------------------------------------------------------

Next ==
  \/ Tick
  \/ \E v \in Values : DataSend(v)
  \/ \E c \in Clients :
       \/ \E bit \in BOOLEAN : Activate(c, bit)
       \/ ActivateGroup(c) \/ Register(c) \/ Connect(c) \/ Update(c)

Spec == Init /\ [][Next]_vars

-----------------------------------------------------------------------------
(* The list says what the game sampled: the sample is a point of it, or    *)
(* lies on a level stretch between two points.                             *)
Shows(list, s) ==
  \/ \E i \in 1 .. Len(list) : list[i] = Point(s.time, s.data)
  \/ \E i \in 1 .. Len(list) - 1 :
       /\ list[i].time <= s.time /\ s.time <= list[i + 1].time
       /\ list[i].data = s.data /\ list[i + 1].data = s.data

(* Nothing is lost by the compression: a client that received two updates  *)
(* in succession can tell every sample the game took from the first to the *)
(* second, the tossed ones included, but for those it has cleared away.     *)
SamplesReconstructed ==
  \A c \in Clients : \A i \in 1 .. Len(samples) :
    LET s == samples[i] list == view[c].list IN
    {s.update, s.update + 1} \subseteq view[c].got /\ list[1].time < s.time => Shows(list, s)

(* The channel had this value at this time: it was sampled then, or last   *)
(* before then.                                                            *)
Held(p) == \E i \in 1 .. Len(samples) :
  /\ samples[i].data = p.data /\ samples[i].time <= p.time
  /\ i < Len(samples) => p.time <= samples[i + 1].time

(* Nothing is invented: every point of a client that missed no update      *)
(* since its first is a value the channel had then.  For a client that     *)
(* missed some, having deactivated the channel for a while, this is false: *)
(* it maintains a value older than the one that was tossed.                *)
PointsAreHeld ==
  \A c \in Clients :
    (\A u, w \in view[c].got : u .. w \subseteq view[c].got)
      => \A i \in 1 .. Len(view[c].list) : Held(view[c].list[i])

(* Points come in the order of their times for every client, whenever it   *)
(* joins or leaves; the clearing of old data and the display rely on it.   *)
PointsInOrder ==
  \A c \in Clients : \A i \in 1 .. Len(view[c].list) - 1 :
    view[c].list[i].time <= view[c].list[i + 1].time
=============================================================================
