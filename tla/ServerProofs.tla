----------------------------- MODULE ServerProofs -----------------------------
(***************************************************************************)
(* For any number of slots, clients, channels and descriptors, and without *)
(* a bound on what is sent; whatever reads and sends fail, and whatever    *)
(* connections are reset.  A client is greeted before it is told anything  *)
(* else.  Until a failed accept or a shutdown leaves a slot with the       *)
(* number of a closed descriptor, no descriptor is leaked or in two slots, *)
(* and as long as a connection works its mask is what was obeyed of its    *)
(* own client's commands, and the client is sent no channel but those it   *)
(* has asked for.                                                          *)
(*                                                                         *)
(* The masks as they lie in memory (ChannelMask) are those sets, for any   *)
(* number of connections, any commands and any groups: with at most eight  *)
(* channels, before and after growth, and with nine to sixteen for every   *)
(* channel that has a bit.                                                 *)
(***************************************************************************)
EXTENDS Server, ChannelMask, FiniteSetTheorems, WellFoundedInduction, TLAPS

(* Whoever is behind an open descriptor has been sent the registrations,   *)
(* and select looks at tcp_socket only if there is room.                   *)
Greeted == \A f \in Fds : owner[f] # NoClient => stream[owner[f]] # << >>
Room == pc = Accepting /\ "listen" \in readable => Free # {}

(* The open descriptors are those in the slots, each in one.               *)
Held ==
  /\ \A i, j \in Taken : socket[i] = socket[j] => i = j
  /\ \A f \in Fds : owner[f] # NoClient <=> \E i \in Taken : socket[i] = f

(* A client dials once, and has one descriptor from then on at most.       *)
Dialled ==
  /\ \A f, g \in Fds : owner[f] # NoClient /\ owner[f] = owner[g] => f = g
  /\ \A k, l \in DOMAIN backlog : backlog[k] = backlog[l] => k = l
  /\ \A k \in DOMAIN backlog, f \in Fds : owner[f] # backlog[k]
  /\ \A c \in Clients : state[c] = "new" =>
       /\ \A k \in DOMAIN backlog : backlog[k] # c
       /\ \A f \in Fds : owner[f] # c

(* A slot that is yet to be served in this update and that select has      *)
(* found readable has something to read or no longer works, so that only   *)
(* reads from a connection that was reset fail.                            *)
Pending ==
  /\ pc = Accepting => \A f \in Fds \cap readable : owner[f] # NoClient
  /\ pc # Outside => \A i \in Taken : i >= pc /\ socket[i] \in readable =>
       state[Peer(i)] # "open" \/ commands[Peer(i)] # << >>

(* What the commands in q ask for: all in all, and at the end.             *)
EverAsked(q) == {ch \in Channels : \E k \in DOMAIN q : AsksFor(q[k], ch)}
StillAsked(q) == {ch \in Channels : \E k \in DOMAIN q :
  AsksFor(q[k], ch) /\ \A l \in DOMAIN q : l > k => ~LeavesOut(q[l], ch)}

(* Nothing was heard of a client that has not been accepted, so that the   *)
(* cleared mask of its slot is what it has asked for.                      *)
Unheard ==
  /\ \A c \in Clients : state[c] = "new" => heard[c] = << >> /\ stream[c] = << >>
  /\ \A k \in DOMAIN backlog : heard[backlog[k]] = << >>

Masked == \A i \in Taken : state[Peer(i)] = "open" => mask[i] = StillAsked(heard[Peer(i)])
Streamed == \A c \in Clients : state[c] = "open" =>
  \A k \in DOMAIN stream[c] : stream[c][k] \in Channels => stream[c][k] \in EverAsked(heard[c])

GreetInv == TypeOK /\ Greeted /\ Room /\ RegistrationsFirst
Kept     == Held /\ Dialled /\ Pending /\ Unheard /\ Masked /\ Streamed
AskInv   == GreetInv /\ (stale \/ Kept)

-----------------------------------------------------------------------------
(* Slots, commands and messages. *)

LEMMA SlotsFinite == ASSUME NEW S \in SUBSET Slots PROVE IsFiniteSet(S) /\ Cardinality(S) \in Nat
<1>1. IsFiniteSet(Slots)
  BY ServerAssumption, FS_Interval DEF Slots
<1>2. QED
  BY <1>1, FS_Subset, FS_CardinalityType

LEMMA FirstFreeIsFree == Free # {} => FirstFree \in Free
<1> SUFFICES ASSUME Free # {} PROVE FirstFree \in Free
  OBVIOUS
<1>1. Free \subseteq Nat
  BY ServerAssumption DEF Free, Slots
<1> DEFINE R == {ss \in Nat \X Nat : ss[1] < ss[2]}
<1>2. IsWellFoundedOn(R, Nat)
  BY NatLessThanWellFounded, Zenon DEF OpToRel
<1>3. PICK i \in Free : \A j \in Free : ~ (<<j, i>> \in R)
  BY <1>1, <1>2, WFMin
<1>4. ASSUME NEW j \in Free PROVE i <= j
  <2>1. i \in Nat /\ j \in Nat
    BY <1>1
  <2>2. ASSUME j < i PROVE FALSE
    <3>1. <<j, i>> \in R
      BY <2>1, <2>2
    <3>2. QED
      BY <1>3, <3>1
  <2>3. QED
    BY <2>1, <2>2
<1>5. QED
  BY <1>4 DEF FirstFree

LEMMA CommandTyped ==
  ASSUME NEW m \in CommandSet \cup {Unused}
  PROVE  m.channels \in SUBSET Channels
<1>1. m \in CommandSet => m.channels \in {{}, Channels} \cup {{ch} : ch \in Channels}
  BY DEF CommandSet
<1>2. Unused.channels = {}
  BY DEF Unused, Command
<1>3. QED
  BY <1>1, <1>2

LEMMA PositionsTyped ==
  /\ Slots \subseteq Int /\ \A i \in Slots : i \in Outside .. Polling /\ i + 1 \in Outside .. Polling /\ i >= 0 /\ i < Polling
  /\ Accepting \in Outside .. Polling /\ Outside \in Outside .. Polling /\ Polling \in Outside .. Polling
  /\ 0 \in Outside .. Polling /\ Polling > 0
<1>1. QED
  BY ServerAssumption DEF Slots, Outside, Polling, Accepting

-----------------------------------------------------------------------------
(* What sending comes to: descriptors are closed together with their       *)
(* slots, and those behind the slots may get m and nothing else.           *)
Closing(failed) ==
  /\ socket' = [i \in Slots |-> IF i \in failed THEN Invalid ELSE socket[i]]
  /\ owner' = [f \in Fds |-> IF \E i \in failed : socket[i] = f THEN NoClient ELSE owner[f]]

Telling(slots, m) ==
  /\ stream' \in [Clients -> Seq(Messages)]
  /\ \A c \in Clients :
       /\ Len(stream[c]) <= Len(stream'[c])
       /\ \A k \in 1 .. Len(stream[c]) : stream'[c][k] = stream[c][k]
       /\ \A k \in 1 .. Len(stream'[c]) :
            k > Len(stream[c]) => stream'[c][k] = m /\ \E i \in slots : Peer(i) = c

Told(slots, m) ==
  /\ \E failed \in SUBSET slots : Closing(failed)
  /\ Telling(slots, m)

LEMMA SendToTells ==
  ASSUME TypeOK, NEW slots \in SUBSET Taken, NEW m \in Messages, SendTo(slots, m)
  PROVE  Told(slots, m)
<1>1. PICK failed \in Sendable(slots) :
        /\ stream' = [c \in Clients |-> Receives(c, slots \ failed, m)]
        /\ Closing(failed)
  BY DEF SendTo, Closing
<1>2. failed \in SUBSET slots
  BY DEF Sendable
<1>4. ASSUME NEW c \in Clients
      PROVE  /\ stream'[c] \in Seq(Messages)
             /\ Len(stream[c]) <= Len(stream'[c])
             /\ \A k \in 1 .. Len(stream[c]) : stream'[c][k] = stream[c][k]
             /\ \A k \in 1 .. Len(stream'[c]) :
                  k > Len(stream[c]) => stream'[c][k] = m /\ \E i \in slots : Peer(i) = c
  <2> DEFINE s == stream[c]  r == stream'[c]
  <2>1. /\ s \in Seq(Messages)
        /\ r = s \/ (r = Append(s, m) /\ \E i \in slots : Peer(i) = c)
    BY <1>1 DEF Receives, TypeOK
  <2> HIDE DEF s, r
  <2>2. CASE r = s
    <3>1. Len(s) \in Nat
      BY <2>1
    <3>2. QED
      BY <2>1, <2>2, <3>1 DEF r, s
  <2>3. CASE r = Append(s, m) /\ \E i \in slots : Peer(i) = c
    <3>1. /\ Append(s, m) \in Seq(Messages) /\ Len(Append(s, m)) = Len(s) + 1 /\ Len(s) \in Nat
          /\ \A k \in 1 .. Len(s) : Append(s, m)[k] = s[k]
          /\ Append(s, m)[Len(s) + 1] = m
      BY <2>1
    <3>2. \A k \in 1 .. Len(r) : k > Len(s) => k = Len(s) + 1
      BY <2>3, <3>1
    <3>3. QED
      BY <2>3, <3>1, <3>2 DEF r, s
  <2>4. QED
    BY <2>1, <2>2, <2>3
<1>5. stream' \in [Clients -> Seq(Messages)]
  BY <1>1, <1>4
<1>6. QED
  BY <1>1, <1>2, <1>4, <1>5 DEF Told, Telling

LEMMA NobodyTold ==
  ASSUME TypeOK, UNCHANGED <<owner, socket, stream>>, NEW m
  PROVE  Told({}, m)
<1>1. Closing({})
  BY DEF Closing, TypeOK
<1>2. Telling({}, m)
  BY DEF Telling, TypeOK
<1>3. QED
  BY <1>1, <1>2 DEF Told

LEMMA MessagesTyped ==
  /\ Channels \subseteq Messages
  /\ \A m \in {"registrations", "control", "text"} : m \in Messages \ Channels
<1>1. QED
  BY ServerAssumption DEF Messages

LEMMA ObeyTells ==
  ASSUME TypeOK, NEW i \in Taken, NEW m \in CommandSet \cup {Unused}, Obey(i, m)
  PROVE  /\ \E slots \in SUBSET Taken, t \in Messages \ Channels : Told(slots, t)
         /\ mask' \in [Slots -> SUBSET Channels]
         /\ mask' = [mask EXCEPT ![i] = Asked(@, m)]
<1>1. \E slots \in SUBSET Taken, t \in Messages \ Channels : Told(slots, t)
  <2>1. CASE m.op = "registrations"
    BY <2>1, SendToTells, MessagesTyped DEF Obey, Answer
  <2>2. CASE m.op = "control"
    <3>1. Taken \ {i} \in SUBSET Taken /\ SendTo(Taken \ {i}, "control")
      BY <2>2 DEF Obey, Answer
    <3>2. QED
      BY <3>1, SendToTells, MessagesTyped
  <2>3. CASE m.op = "console"
    BY <2>3, SendToTells, MessagesTyped DEF Obey, Answer
  <2>4. CASE m.op \notin {"registrations", "control", "console"}
    BY <2>4, NobodyTold, MessagesTyped DEF Obey, Answer
  <2>5. QED
    BY <2>1, <2>2, <2>3, <2>4
<1>2. i \in Slots /\ mask[i] \in SUBSET Channels
  BY DEF Taken, TypeOK
<1>3. Asked(mask[i], m) \in SUBSET Channels
  BY <1>2, CommandTyped DEF Asked
<1>4. QED
  BY <1>1, <1>2, <1>3 DEF Obey, TypeOK

(* What holds after anyone was told anything. *)
LEMMA ToldKeeps ==
  ASSUME TypeOK, Greeted, RegistrationsFirst,
         NEW slots \in SUBSET Taken, NEW m, Told(slots, m)
  PROVE  /\ socket' \in [Slots -> Fds \cup {Invalid}] /\ owner' \in [Fds -> Clients \cup {NoClient}]
         /\ stream' \in [Clients -> Seq(Messages)]
         /\ Greeted' /\ RegistrationsFirst'
<1>1. PICK failed \in SUBSET slots : Closing(failed)
  BY DEF Told
<1>2. Telling(slots, m)
  BY DEF Told
<1>3. /\ socket' \in [Slots -> Fds \cup {Invalid}] /\ owner' \in [Fds -> Clients \cup {NoClient}]
      /\ \A f \in Fds : owner'[f] # NoClient => owner'[f] = owner[f]
  BY <1>1 DEF Closing, TypeOK
<1>4. ASSUME NEW c \in Clients, stream[c] # << >> PROVE stream'[c] # << >> /\ stream'[c][1] = stream[c][1]
  <2>1. stream[c] \in Seq(Messages) /\ Len(stream[c]) >= 1
    BY <1>4 DEF TypeOK
  <2>2. stream'[c] \in Seq(Messages) /\ Len(stream'[c]) >= 1 /\ stream'[c][1] = stream[c][1]
    BY <1>2, <2>1 DEF Telling
  <2>3. QED
    BY <2>2
<1>5. Greeted'
  <2> SUFFICES ASSUME NEW f \in Fds, owner'[f] # NoClient PROVE stream'[owner'[f]] # << >>
    BY DEF Greeted
  <2>1. owner[f] \in Clients /\ owner'[f] = owner[f] /\ stream[owner[f]] # << >>
    BY <1>3 DEF Greeted, TypeOK
  <2>2. QED
    BY <1>4, <2>1
<1>6. RegistrationsFirst'
  <2> SUFFICES ASSUME NEW c \in Clients, stream'[c] # << >> PROVE stream'[c][1] = "registrations"
    BY DEF RegistrationsFirst
  <2>1. stream[c] # << >>
    <3> SUFFICES ASSUME stream[c] = << >> PROVE FALSE
      OBVIOUS
    <3>1. 1 \in 1 .. Len(stream'[c]) /\ Len(stream[c]) = 0
      BY <1>2 DEF Telling
    <3>2. PICK i \in slots : Peer(i) = c
      BY <1>2, <3>1 DEF Telling
    <3>3. socket[i] \in Fds /\ owner[socket[i]] = c
      BY <3>2 DEF Taken, TypeOK, Peer
    <3>4. QED
      BY <3>3, ServerAssumption DEF Greeted
  <2>2. QED
    BY <1>4, <2>1 DEF RegistrationsFirst
<1>7. QED
  BY <1>2, <1>3, <1>5, <1>6 DEF Telling

-----------------------------------------------------------------------------
(* Types, and that the registrations come first. *)

LEMMA InitGreetInv == Init => GreetInv
<1> SUFFICES ASSUME Init PROVE GreetInv
  OBVIOUS
<1>1. TypeOK
  <2>1. /\ active \in BOOLEAN /\ port \in Nat /\ pc \in Outside .. Polling
        /\ readable \subseteq Fds \cup {"listen"} /\ mesg \in CommandSet \cup {Unused}
        /\ stale \in BOOLEAN /\ sends \in Nat /\ restarts \in Nat
    BY ServerAssumption, PositionsTyped DEF Init
  <2>2. /\ socket \in [Slots -> Fds \cup {Invalid}] /\ mask \in [Slots -> SUBSET Channels]
        /\ owner \in [Fds -> Clients \cup {NoClient}] /\ backlog \in Seq(Clients)
        /\ state \in [Clients -> {"new", "open", "closed", "reset"}]
    BY DEF Init
  <2>3. << >> \in Seq(CommandSet) /\ << >> \in Seq(Messages)
    OBVIOUS
  <2>4. /\ commands \in [Clients -> Seq(CommandSet)] /\ stream \in [Clients -> Seq(Messages)]
        /\ heard \in [Clients -> Seq(CommandSet)] /\ sent \in [Clients -> Nat]
    BY <2>3 DEF Init
  <2>5. QED
    BY <2>1, <2>2, <2>4 DEF TypeOK
<1>2. Greeted /\ Room /\ RegistrationsFirst
  BY DEF Init, Greeted, Room, RegistrationsFirst, Outside, Accepting
<1>3. QED
  BY <1>1, <1>2 DEF GreetInv

LEMMA AcceptGreetInv == GreetInv /\ Accept => GreetInv'
<1> SUFFICES ASSUME GreetInv, Accept PROVE GreetInv'
  OBVIOUS
<1> USE DEF GreetInv
<1> DEFINE c == Head(backlog)
<1>1. c \in Clients /\ backlog' \in Seq(Clients)
  BY DEF Accept, TypeOK
<1>2. FirstFree \in Slots
  BY FirstFreeIsFree DEF Accept, Room, Free
<1>3. /\ owner' \in [Fds -> Clients \cup {NoClient}] /\ socket' \in [Slots -> Fds \cup {Invalid}]
      /\ stream' \in [Clients -> Seq(Messages)]
      /\ Greeted' /\ RegistrationsFirst'
  <2>1. CASE UNCHANGED <<owner, socket, stream>>
    BY <2>1 DEF TypeOK, Greeted, RegistrationsFirst
  <2>2. CASE ~ UNCHANGED <<owner, socket, stream>>
    <3>1. PICK f \in Fds : /\ owner' = [owner EXCEPT ![f] = c]
                           /\ socket' = [socket EXCEPT ![FirstFree] = f]
                           /\ stream' = [stream EXCEPT ![c] = @ \o <<"registrations">>]
      BY <2>2 DEF Accept, Greet
    <3>2. owner' \in [Fds -> Clients \cup {NoClient}] /\ socket' \in [Slots -> Fds \cup {Invalid}]
      BY <1>1, <1>2, <3>1 DEF TypeOK
    <3>3. stream[c] \in Seq(Messages) /\ "registrations" \in Messages
      BY <1>1, MessagesTyped DEF TypeOK
    <3>4. /\ stream'[c] \in Seq(Messages) /\ stream'[c] # << >>
          /\ stream'[c][1] = IF stream[c] = << >> THEN "registrations" ELSE stream[c][1]
      <4>1. stream'[c] = stream[c] \o <<"registrations">>
        BY <1>1, <3>1 DEF TypeOK
      <4>2. QED
        BY <3>3, <4>1
    <3>5. \A d \in Clients : d # c => stream'[d] = stream[d]
      BY <3>1 DEF TypeOK
    <3>6. stream' \in [Clients -> Seq(Messages)]
      BY <3>1, <3>4, <3>5 DEF TypeOK
    <3>7. RegistrationsFirst'
      BY <3>4, <3>5 DEF RegistrationsFirst
    <3>8. \A g \in Fds : owner'[g] = IF g = f THEN c ELSE owner[g]
      BY <3>1 DEF TypeOK
    <3>9. Greeted'
      <4> SUFFICES ASSUME NEW g \in Fds, owner'[g] # NoClient PROVE stream'[owner'[g]] # << >>
        BY DEF Greeted
      <4>1. CASE owner'[g] = c
        BY <3>4, <4>1
      <4>2. CASE owner'[g] # c
        <5>1. owner'[g] = owner[g] /\ owner[g] \in Clients
          BY <3>8, <4>2 DEF TypeOK
        <5>2. stream[owner[g]] # << >>
          BY <5>1 DEF Greeted
        <5>3. QED
          BY <3>5, <4>2, <5>1, <5>2
      <4>3. QED
        BY <4>1, <4>2
    <3>10. QED
      BY <3>2, <3>6, <3>7, <3>9
  <2>3. QED
    BY <2>1, <2>2
<1>4. mask' \in [Slots -> SUBSET Channels]
  BY <1>2 DEF Accept, TypeOK
<1>5. pc' = 0
  BY DEF Accept
<1>6. Room'
  BY <1>5 DEF Room, Accepting
<1>7. TypeOK'
  BY <1>1, <1>3, <1>4, <1>5, PositionsTyped DEF Accept, TypeOK, gameVars
<1>8. QED
  BY <1>3, <1>6, <1>7

LEMMA ObeyGreetInv ==
  ASSUME GreetInv, NEW i \in Slots, NEW m \in CommandSet \cup {Unused}, pc = i, i \in Taken, Obey(i, m),
         Advance(i), commands' \in [Clients -> Seq(CommandSet)], mesg' \in CommandSet \cup {Unused},
         state' \in [Clients -> {"new", "open", "closed", "reset"}],
         heard' \in [Clients -> Seq(CommandSet)],
         UNCHANGED <<active, port, readable, backlog, sent, stale, sends, restarts>>
  PROVE  GreetInv'
<1> USE DEF GreetInv
<1>1. /\ \E slots \in SUBSET Taken, t \in Messages \ Channels : Told(slots, t)
      /\ mask' \in [Slots -> SUBSET Channels]
  BY ObeyTells
<1>2. /\ socket' \in [Slots -> Fds \cup {Invalid}] /\ owner' \in [Fds -> Clients \cup {NoClient}]
      /\ stream' \in [Clients -> Seq(Messages)]
      /\ Greeted' /\ RegistrationsFirst'
  BY <1>1, ToldKeeps
<1>3. pc' \in Outside .. Polling /\ pc' > 0
  BY PositionsTyped DEF Advance
<1>4. Room'
  BY <1>3 DEF Room, Accepting
<1>5. TypeOK'
  BY <1>1, <1>2, <1>3 DEF TypeOK
<1>6. QED
  BY <1>2, <1>4, <1>5

(* The game sends something, or the update ends with that. *)
LEMMA GameTells ==
  ASSUME TypeOK, Poll \/ (\E ch \in Channels : SendData(ch)) \/ SendToEverybody
  PROVE  /\ \E slots \in SUBSET Taken, m \in Messages :
              Told(slots, m) /\ (m \in Channels => slots = Active(m))
         /\ pc' = Outside /\ sends' \in Nat /\ (readable' = readable \/ readable' = {})
         /\ UNCHANGED <<active, port, mask, mesg, backlog, state, commands, sent, heard, stale, restarts>>
<1>1. CASE Poll
  <2>1. CASE UNCHANGED <<owner, socket, stream, sends>>
    BY <1>1, <2>1, NobodyTold, MessagesTyped DEF Poll, TypeOK
  <2>2. CASE SendTo(Taken, "control") /\ sends' = sends + 1
    BY <1>1, <2>2, SendToTells, MessagesTyped DEF Poll, TypeOK
  <2>3. QED
    BY <1>1, <2>1, <2>2 DEF Poll
<1>2. ASSUME NEW ch \in Channels, SendData(ch)
      PROVE  \E slots \in SUBSET Taken, m \in Messages :
               Told(slots, m) /\ (m \in Channels => slots = Active(m))
  <2>1. Active(ch) \in SUBSET Taken /\ ch \in Messages /\ SendTo(Active(ch), ch)
    BY <1>2, MessagesTyped DEF SendData, Active
  <2>2. Told(Active(ch), ch)
    BY <2>1, SendToTells
  <2>3. QED
    BY <2>1, <2>2
<1>3. ASSUME SendToEverybody
      PROVE  \E slots \in SUBSET Taken, m \in Messages :
               Told(slots, m) /\ (m \in Channels => slots = Active(m))
  BY <1>3, SendToTells, MessagesTyped DEF SendToEverybody
<1>4. (\E ch \in Channels : SendData(ch)) \/ SendToEverybody =>
        /\ pc' = Outside /\ sends' \in Nat /\ readable' = readable
        /\ UNCHANGED <<active, port, mask, mesg, backlog, state, commands, sent, heard, stale, restarts>>
  BY DEF SendData, SendToEverybody, Game, TypeOK
<1>5. QED
  BY <1>1, <1>2, <1>3, <1>4

(* The actions that keep the slots and what was sent. *)
LEMMA QuietGreetInv ==
  ASSUME GreetInv, TypeOK', UNCHANGED stream,
         \A f \in Fds : owner'[f] \in {owner[f], NoClient},
         Room'
  PROVE  GreetInv'
<1>1. Greeted'
  BY DEF GreetInv, Greeted
<1>2. RegistrationsFirst'
  BY DEF GreetInv, RegistrationsFirst
<1>3. QED
  BY <1>1, <1>2 DEF GreetInv

LEMMA ClientGreetInv ==
  ASSUME GreetInv, NEW c \in Clients, Client(c)
  PROVE  GreetInv'
<1> USE DEF GreetInv
<1>1. UNCHANGED <<serverVars, owner, stream, gameVars>>
  BY DEF Client, Dial, ClientSend, Close, Reset
<1>2. /\ state' \in [Clients -> {"new", "open", "closed", "reset"}]
      /\ backlog' \in Seq(Clients)
      /\ commands' \in [Clients -> Seq(CommandSet)] /\ sent' \in [Clients -> Nat]
  <2>1. CASE Dial(c)
    BY <2>1 DEF Dial, TypeOK
  <2>2. CASE ClientSend(c)
    <3>1. PICK m \in Repertoire : commands' = [commands EXCEPT ![c] = Append(@, m)]
      BY <2>2 DEF ClientSend
    <3>2. m \in CommandSet /\ commands[c] \in Seq(CommandSet)
      BY RepertoireAssumption DEF TypeOK
    <3>3. Append(commands[c], m) \in Seq(CommandSet)
      BY <3>2
    <3>4. QED
      BY <2>2, <3>1, <3>3 DEF ClientSend, TypeOK
  <2>3. CASE Close(c)
    BY <2>3 DEF Close, TypeOK
  <2>4. CASE Reset(c)
    <3>1. << >> \in Seq(CommandSet)
      OBVIOUS
    <3>2. QED
      BY <2>4, <3>1 DEF Reset, TypeOK
  <2>5. QED
    BY <2>1, <2>2, <2>3, <2>4 DEF Client
<1>3. TypeOK'
  BY <1>1, <1>2 DEF TypeOK, serverVars, gameVars
<1>4. Room'
  BY <1>1 DEF Room, Free, Taken, serverVars
<1>5. QED
  BY <1>1, <1>3, <1>4, QuietGreetInv DEF serverVars

LEMMA AcceptFailsGreetInv == GreetInv /\ AcceptFails => GreetInv'
<1> SUFFICES ASSUME GreetInv, AcceptFails PROVE GreetInv'
  OBVIOUS
<1> USE DEF GreetInv
<1>1. FirstFree \in Slots
  BY FirstFreeIsFree DEF AcceptFails, Room, Free
<1>2. socket' \in [Slots -> Fds \cup {Invalid}]
  BY <1>1 DEF AcceptFails, TypeOK
<1>3. backlog' \in Seq(Clients) /\ pc' = 0
  BY DEF AcceptFails, TypeOK
<1>4. TypeOK'
  BY <1>2, <1>3, PositionsTyped DEF AcceptFails, TypeOK
<1>5. Room'
  BY <1>3 DEF Room, Accepting
<1>6. QED
  BY <1>4, <1>5, QuietGreetInv DEF AcceptFails

LEMMA ServeGreetInv ==
  ASSUME GreetInv, NEW i \in Slots, Serve(i)
  PROVE  GreetInv'
<1> USE DEF GreetInv
<1>1. CASE Skip(i)
  <2>1. UNCHANGED <<active, port, socket, mask, mesg, readable, netVars, gameVars>> /\ pc' = i + 1
    BY <1>1 DEF Skip, Advance
  <2>2. pc' \in Outside .. Polling /\ pc' > 0
    BY <2>1, PositionsTyped
  <2>3. TypeOK' /\ Room'
    BY <2>1, <2>2 DEF TypeOK, netVars, gameVars, Room, Accepting
  <2>4. QED
    BY <2>1, <2>3, QuietGreetInv DEF netVars
<1>2. CASE HangUp(i)
  <2>1. i \in Taken /\ socket[i] \in Fds /\ pc' = i + 1
    BY <1>2 DEF HangUp, Readable, Taken, TypeOK, Advance
  <2>2. pc' \in Outside .. Polling /\ pc' > 0
    BY <2>1, PositionsTyped
  <2>3. TypeOK' /\ Room'
    BY <1>2, <2>1, <2>2 DEF HangUp, TypeOK, gameVars, Room, Accepting
  <2>4. \A f \in Fds : owner'[f] \in {owner[f], NoClient}
    BY <1>2, <2>1 DEF HangUp, TypeOK
  <2>5. QED
    BY <1>2, <2>3, <2>4, QuietGreetInv DEF HangUp
<1>3. CASE Receive(i)
  <2>1. i \in Taken /\ socket[i] \in Fds /\ Peer(i) \in Clients /\ pc = i
    BY <1>3 DEF Receive, Readable, Taken, TypeOK, Peer
  <2> DEFINE c == Peer(i)
  <2>2. PICK n \in 1 .. Len(commands[c]) :
          /\ commands' = [commands EXCEPT ![c] = SubSeq(@, n + 1, Len(@))]
          /\ mesg' = commands[c][1]
          /\ Obey(i, commands[c][1])
          /\ heard' = [heard EXCEPT ![c] = Append(@, commands[c][1])]
    BY <1>3 DEF Receive
  <2>3. commands[c] \in Seq(CommandSet) /\ Len(commands[c]) >= 1
    BY <2>1, <2>2 DEF TypeOK
  <2>4. commands[c][1] \in CommandSet
    BY <2>3
  <2>5. commands' \in [Clients -> Seq(CommandSet)]
    <3>1. SubSeq(commands[c], n + 1, Len(commands[c])) \in Seq(CommandSet)
      BY <2>3
    <3>2. QED
      BY <2>2, <3>1 DEF TypeOK
  <2>6. heard' \in [Clients -> Seq(CommandSet)]
    <3>1. Append(heard[c], commands[c][1]) \in Seq(CommandSet)
      BY <2>1, <2>4 DEF TypeOK
    <3>2. QED
      BY <2>2, <3>1 DEF TypeOK
  <2>7. QED
    BY <1>3, <2>1, <2>2, <2>4, <2>5, <2>6, ObeyGreetInv DEF Receive, TypeOK
<1>4. CASE ReceiveFails(i)
  <2>1. PICK m \in {mesg, Unused} : Obey(i, m)
    BY <1>4 DEF ReceiveFails
  <2>2. m \in CommandSet \cup {Unused}
    BY DEF TypeOK
  <2>3. pc = i /\ i \in Taken
    BY <1>4 DEF ReceiveFails, Readable
  <2>4. state' \in [Clients -> {"new", "open", "closed", "reset"}]
    BY <1>4 DEF ReceiveFails, TypeOK
  <2>5. QED
    BY <1>4, <2>1, <2>2, <2>3, <2>4, ObeyGreetInv DEF ReceiveFails, TypeOK
<1>5. QED
  BY <1>1, <1>2, <1>3, <1>4 DEF Serve

LEMMA NextGreetInv == GreetInv /\ [Next]_vars => GreetInv'
<1> SUFFICES ASSUME GreetInv, [Next]_vars PROVE GreetInv'
  OBVIOUS
<1> USE DEF GreetInv
<1>1. CASE Select
  <2>1. UNCHANGED <<active, port, socket, mask, mesg, netVars, gameVars>> /\ pc' = Accepting
    BY <1>1 DEF Select
  <2>2. readable' \subseteq {socket[i] : i \in Taken} \cup (IF Free # {} THEN {"listen"} ELSE {})
    BY <1>1 DEF Select
  <2>3. {socket[i] : i \in Taken} \subseteq Fds
    BY DEF Taken, TypeOK
  <2>4. TypeOK'
    BY <2>1, <2>2, <2>3, PositionsTyped DEF TypeOK, netVars, gameVars
  <2>5. Room'
    BY <2>1, <2>2, <2>3, ServerAssumption DEF Room, Free, Taken
  <2>6. QED
    BY <2>1, <2>4, <2>5, QuietGreetInv DEF netVars
<1>2. CASE AcceptNothing
  <2>1. TypeOK' /\ Room'
    BY <1>2, PositionsTyped DEF AcceptNothing, TypeOK, netVars, gameVars, Room, Accepting
  <2>2. QED
    BY <1>2, <2>1, QuietGreetInv DEF AcceptNothing, netVars
<1>3. CASE Accept
  BY <1>3, AcceptGreetInv
<1>4. ASSUME NEW i \in Slots, Serve(i) PROVE GreetInv'
  BY <1>4, ServeGreetInv
<1>5. CASE Poll \/ (\E ch \in Channels : SendData(ch)) \/ SendToEverybody
  <2>1. PICK slots \in SUBSET Taken, m \in Messages : Told(slots, m)
    BY <1>5, GameTells
  <2>2. /\ socket' \in [Slots -> Fds \cup {Invalid}] /\ owner' \in [Fds -> Clients \cup {NoClient}]
        /\ stream' \in [Clients -> Seq(Messages)]
        /\ Greeted' /\ RegistrationsFirst'
    BY <2>1, ToldKeeps
  <2>3. TypeOK'
    BY <1>5, <2>2, GameTells, PositionsTyped DEF TypeOK
  <2>4. Room'
    BY <1>5, GameTells DEF Room, Accepting, Outside
  <2>5. QED
    BY <2>2, <2>3, <2>4
<1>6. CASE Create \/ CreateFails
  <2>1. UNCHANGED <<socket, mask, mesg, pc, readable, netVars, gameVars>> /\ active' \in BOOLEAN /\ pc' = Outside
    BY <1>6 DEF Create, CreateFails, TypeOK
  <2>2. port' \in Nat
    BY <1>6 DEF Create, CreateFails, Tries, TypeOK
  <2>3. TypeOK' /\ Room'
    BY <2>1, <2>2 DEF TypeOK, netVars, gameVars, Room, Accepting, Outside
  <2>4. QED
    BY <2>1, <2>3, QuietGreetInv DEF netVars
<1>7. CASE Shutdown
  <2>1. /\ UNCHANGED <<port, socket, mask, mesg, pc, readable, state, commands, stream, sent, heard, sends>>
        /\ active' = FALSE /\ restarts' = restarts + 1 /\ backlog' = << >> /\ pc' = Outside
        /\ stale' \in BOOLEAN
        /\ owner' \in [Fds -> Clients \cup {NoClient}]
        /\ \A f \in Fds : owner'[f] \in {owner[f], NoClient}
    BY <1>7 DEF Shutdown, TypeOK
  <2>2. active' \in BOOLEAN /\ restarts' \in Nat /\ backlog' \in Seq(Clients)
    <3>1. active' \in BOOLEAN
      BY <2>1
    <3>2. restarts' \in Nat
      BY <2>1 DEF TypeOK
    <3>3. << >> \in Seq(Clients)
      OBVIOUS
    <3>4. QED
      BY <2>1, <3>1, <3>2, <3>3
  <2>3. TypeOK'
    BY <2>1, <2>2 DEF TypeOK
  <2>4. Room'
    BY <2>1 DEF Room, Accepting, Outside
  <2>5. QED
    BY <2>1, <2>3, <2>4, QuietGreetInv
<1>8. ASSUME NEW c \in Clients, Client(c) PROVE GreetInv'
  BY <1>8, ClientGreetInv
<1>9. CASE UNCHANGED vars
  <2>1. UNCHANGED <<active, port, socket, mask, mesg, pc, readable, netVars, gameVars>>
    BY <1>9 DEF vars, serverVars
  <2>2. TypeOK'
    BY <2>1 DEF TypeOK, netVars, gameVars
  <2>3. Room'
    BY <2>1 DEF Room, Free, Taken
  <2>4. QED
    BY <2>1, <2>2, <2>3, QuietGreetInv DEF netVars
<1>10. CASE AcceptFails
  BY <1>10, AcceptFailsGreetInv
<1>11. QED
  BY <1>1, <1>2, <1>3, <1>4, <1>5, <1>6, <1>7, <1>8, <1>9, <1>10 DEF Next, Update

LEMMA GreetInvHolds == Spec => []GreetInv
<1>1. QED
  BY InitGreetInv, NextGreetInv, PTL DEF Spec

(* Every variable stays within its type, whatever fails. *)
THEOREM TypeCorrect == Spec => []TypeOK
<1>1. GreetInv => TypeOK
  BY DEF GreetInv
<1>2. QED
  BY <1>1, GreetInvHolds, PTL

(* Whatever sends fail, whatever is reset, and across shutdowns: the first *)
(* a client hears is what is registered.                                   *)
THEOREM RegistrationsFirstHolds == Spec => []RegistrationsFirst
<1>1. GreetInv => RegistrationsFirst
  BY DEF GreetInv
<1>2. QED
  BY <1>1, GreetInvHolds, PTL

-----------------------------------------------------------------------------
(* Slots and descriptors, until one is left with a closed number. *)

LEMMA ToldHeld ==
  ASSUME TypeOK, Held, NEW slots \in SUBSET Taken, NEW m, Told(slots, m)
  PROVE  /\ Held'
         /\ \A i \in Taken' : i \in Taken /\ socket'[i] = socket[i] /\ Peer(i)' = Peer(i)
<1>1. PICK failed \in SUBSET slots : Closing(failed)
  BY DEF Told
<1>2. \A i \in Slots : socket'[i] = IF i \in failed THEN Invalid ELSE socket[i]
  BY <1>1 DEF Closing
<1>3. \A f \in Fds : owner'[f] = IF \E i \in failed : socket[i] = f THEN NoClient ELSE owner[f]
  BY <1>1 DEF Closing
<1>4. failed \in SUBSET Taken /\ Taken \subseteq Slots /\ \A i \in Taken : socket[i] \in Fds
  BY DEF Taken, TypeOK
<1>5. Taken' = Taken \ failed
  BY <1>2, <1>4 DEF Taken
<1>6. \A i \in Taken' : i \in Taken /\ socket'[i] = socket[i] /\ owner'[socket[i]] = owner[socket[i]]
  BY <1>2, <1>3, <1>4, <1>5 DEF Held
<1>7. \A i, j \in Taken' : socket'[i] = socket'[j] => i = j
  BY <1>6 DEF Held
<1>8. ASSUME NEW f \in Fds PROVE owner'[f] # NoClient <=> \E i \in Taken' : socket'[i] = f
  <2>1. ASSUME owner'[f] # NoClient PROVE \E i \in Taken' : socket'[i] = f
    <3>1. owner[f] # NoClient /\ ~ \E i \in failed : socket[i] = f
      BY <1>3, <2>1
    <3>2. PICK i \in Taken : socket[i] = f
      BY <3>1 DEF Held
    <3>3. i \in Taken' /\ socket'[i] = f
      BY <3>1, <3>2, <1>5, <1>6
    <3>4. QED
      BY <3>3
  <2>2. ASSUME NEW i \in Taken', socket'[i] = f PROVE owner'[f] # NoClient
    BY <1>6, <2>2 DEF Held
  <2>3. QED
    BY <2>1, <2>2
<1>9. QED
  BY <1>6, <1>7, <1>8 DEF Held, Peer

(* Who is accepted gets a descriptor that no slot has. *)
LEMMA AcceptHeld ==
  ASSUME GreetInv, Held, Accept
  PROVE  Held'
<1> USE DEF GreetInv
<1> DEFINE c == Head(backlog)
<1>1. c \in Clients /\ FirstFree \in Slots /\ FirstFree \notin Taken
  BY FirstFreeIsFree DEF Accept, Room, Free, TypeOK
<1>2. CASE UNCHANGED <<owner, socket, stream>>
  BY <1>2 DEF Held, Taken
<1>3. CASE ~ UNCHANGED <<owner, socket, stream>>
  <2>1. PICK f \in Fds : /\ owner[f] = NoClient
                         /\ owner' = [owner EXCEPT ![f] = c]
                         /\ socket' = [socket EXCEPT ![FirstFree] = f]
    BY <1>3 DEF Accept, Greet
  <2>2. \A g \in Fds : owner'[g] = IF g = f THEN c ELSE owner[g]
    BY <2>1 DEF TypeOK
  <2>3. \A i \in Slots : socket'[i] = IF i = FirstFree THEN f ELSE socket[i]
    BY <2>1 DEF TypeOK
  <2>4. Taken' = Taken \cup {FirstFree} /\ Taken \subseteq Slots
    BY <1>1, <2>3, ServerAssumption DEF Taken
  <2>5. \A i \in Taken : socket[i] # f
    BY <2>1 DEF Held
  <2>6. \A i, j \in Taken' : socket'[i] = socket'[j] => i = j
    BY <1>1, <2>3, <2>4, <2>5 DEF Held
  <2>7. ASSUME NEW g \in Fds PROVE owner'[g] # NoClient <=> \E i \in Taken' : socket'[i] = g
    <3>1. CASE g = f
      BY <1>1, <2>2, <2>3, <2>4, <3>1, ServerAssumption
    <3>2. CASE g # f
      BY <1>1, <2>2, <2>3, <2>4, <3>2 DEF Held
    <3>3. QED
      BY <3>1, <3>2
  <2>8. QED
    BY <2>6, <2>7 DEF Held
<1>4. QED
  BY <1>2, <1>3

(* Who hangs up takes the slot and the descriptor with it. *)
LEMMA HangUpHeld ==
  ASSUME TypeOK, Held, NEW i \in Slots, HangUp(i)
  PROVE  /\ Held' /\ Taken' = Taken \ {i}
         /\ \A j \in Taken' : socket'[j] = socket[j] /\ Peer(j)' = Peer(j)
<1>1. i \in Taken /\ Taken \subseteq Slots /\ \A j \in Taken : socket[j] \in Fds
  BY DEF HangUp, Readable, Taken, TypeOK
<1>2. \A j \in Slots : socket'[j] = IF j = i THEN Invalid ELSE socket[j]
  BY DEF HangUp, TypeOK
<1>3. \A f \in Fds : owner'[f] = IF f = socket[i] THEN NoClient ELSE owner[f]
  BY DEF HangUp, TypeOK
<1>4. Taken' = Taken \ {i}
  BY <1>1, <1>2 DEF Taken
<1>5. \A j \in Taken' : socket'[j] = socket[j] /\ owner'[socket[j]] = owner[socket[j]]
  BY <1>1, <1>2, <1>3, <1>4 DEF Held
<1>6. \A j, k \in Taken' : socket'[j] = socket'[k] => j = k
  BY <1>4, <1>5 DEF Held
<1>7. ASSUME NEW f \in Fds PROVE owner'[f] # NoClient <=> \E j \in Taken' : socket'[j] = f
  <2>1. CASE f = socket[i]
    BY <1>1, <1>3, <1>4, <1>5, <2>1 DEF Held
  <2>2. CASE f # socket[i]
    BY <1>1, <1>3, <1>4, <1>5, <2>2 DEF Held
  <2>3. QED
    BY <2>1, <2>2
<1>8. QED
  BY <1>4, <1>5, <1>6, <1>7 DEF Held, Peer

LEMMA SameHeld == ASSUME Held, UNCHANGED <<owner, socket>> PROVE Held'
<1>1. QED
  BY DEF Held, Taken

(* A read, which may fail, and what is obeyed. *)
LEMMA ReadTells ==
  ASSUME TypeOK, NEW i \in Slots, Receive(i) \/ ReceiveFails(i)
  PROVE  /\ i \in Taken /\ pc = i /\ pc' = i + 1
         /\ \E slots \in SUBSET Taken, t \in Messages \ Channels : Told(slots, t)
         /\ UNCHANGED <<active, port, readable, backlog, sent, stale, sends, restarts>>
<1>1. i \in Taken /\ pc = i /\ pc' = i + 1
  BY DEF Receive, ReceiveFails, Readable, Advance
<1>2. UNCHANGED <<active, port, readable, backlog, sent, stale, sends, restarts>>
  BY DEF Receive, ReceiveFails
<1>3. \E m \in CommandSet \cup {Unused} : Obey(i, m)
  <2>1. CASE Receive(i)
    <3>1. Peer(i) \in Clients
      BY <1>1, <2>1 DEF Receive, Peer, Taken, TypeOK
    <3>2. \E n \in 1 .. Len(commands[Peer(i)]) : Obey(i, commands[Peer(i)][1])
      BY <2>1 DEF Receive
    <3>3. commands[Peer(i)] \in Seq(CommandSet) /\ Len(commands[Peer(i)]) >= 1
      BY <3>1, <3>2 DEF TypeOK
    <3>4. commands[Peer(i)][1] \in CommandSet
      BY <3>3
    <3>5. QED
      BY <3>2, <3>4
  <2>2. CASE ReceiveFails(i)
    BY <2>2 DEF ReceiveFails, TypeOK
  <2>3. QED
    BY <2>1, <2>2
<1>4. QED
  BY <1>1, <1>2, <1>3, ObeyTells

LEMMA InitAskInv == Init => AskInv
<1> SUFFICES ASSUME Init PROVE AskInv
  OBVIOUS
<1>1. Taken = {}
  BY DEF Init, Taken
<1>2. Held /\ Dialled
  BY <1>1, ServerAssumption DEF Init, Held, Dialled
<1>3. Pending /\ Unheard /\ Masked /\ Streamed
  BY <1>1 DEF Init, Pending, Unheard, Masked, Streamed, Outside, Accepting
<1>4. QED
  BY <1>2, <1>3, InitGreetInv DEF AskInv, Kept

-----------------------------------------------------------------------------
(* Who is behind the slots, and what they have asked for. *)

LEMMA PeerTyped ==
  ASSUME TypeOK, Held, NEW i \in Taken
  PROVE  i \in Slots /\ socket[i] \in Fds /\ Peer(i) \in Clients /\ Peer(i) # NoClient
<1>1. i \in Slots /\ socket[i] \in Fds
  BY DEF Taken, TypeOK
<1>2. QED
  BY <1>1 DEF Held, Peer, TypeOK

LEMMA PeersDiffer ==
  ASSUME TypeOK, Held, Dialled, NEW i \in Taken, NEW j \in Taken, i # j
  PROVE  Peer(i) \in Clients /\ Peer(j) \in Clients /\ Peer(i) # Peer(j)
<1>1. socket[i] \in Fds /\ socket[j] \in Fds /\ socket[i] # socket[j]
  BY DEF Held, Taken, TypeOK
<1>2. owner[socket[i]] # NoClient /\ owner[socket[j]] # NoClient
  BY <1>1 DEF Held
<1>3. QED
  BY <1>1, <1>2 DEF Dialled, Peer, TypeOK

LEMMA PeerDialled ==
  ASSUME TypeOK, Held, Dialled, NEW i \in Taken
  PROVE  state[Peer(i)] # "new" /\ \A k \in DOMAIN backlog : backlog[k] # Peer(i)
<1>1. socket[i] \in Fds /\ Peer(i) \in Clients /\ Peer(i) = owner[socket[i]]
  BY PeerTyped DEF Peer
<1>2. QED
  BY <1>1 DEF Dialled

LEMMA StillIsEver == \A q : StillAsked(q) \subseteq EverAsked(q)
<1>1. QED
  BY DEF StillAsked, EverAsked

LEMMA NothingAsked == StillAsked(<< >>) = {}
<1>1. QED
  BY DEF StillAsked

LEMMA AskedIsMasked ==
  ASSUME NEW chs \in SUBSET Channels, NEW m \in CommandSet, NEW ch \in Channels
  PROVE  ch \in Asked(chs, m) <=> AsksFor(m, ch) \/ (ch \in chs /\ ~ LeavesOut(m, ch))
<1>1. \/ m.op \in {"registrations", "console", "control"} /\ m.channels = {}
      \/ m.op \in {"activate", "deactivate"}
      \/ m.op = "group"
  BY DEF CommandSet
<1>2. QED
  BY <1>1 DEF Asked, AsksFor, LeavesOut

(* The mask keeps up with the command that is obeyed.                      *)
LEMMA AskedOneMore ==
  ASSUME NEW q \in Seq(CommandSet), NEW m \in CommandSet
  PROVE  /\ StillAsked(Append(q, m)) = Asked(StillAsked(q), m)
         /\ EverAsked(q) \subseteq EverAsked(Append(q, m))
<1>1. PICK h \in Nat : h = Len(q)
  OBVIOUS
<1>2. PICK s : s = Append(q, m)
  OBVIOUS
<1>3. /\ DOMAIN q = 1 .. h /\ DOMAIN s = 1 .. h + 1 /\ s[h + 1] = m
      /\ \A k \in 1 .. h : s[k] = q[k]
  BY <1>1, <1>2
<1>4. 1 .. h + 1 = (1 .. h) \cup {h + 1} /\ ~ (h + 1 > h + 1)
      /\ \A k \in 1 .. h : h + 1 > k /\ ~ (k > h + 1)
  BY <1>1
<1>5. ASSUME NEW ch \in Channels
      PROVE  ch \in StillAsked(s) <=> AsksFor(m, ch) \/ (ch \in StillAsked(q) /\ ~ LeavesOut(m, ch))
  <2> DEFINE Asks(k) == AsksFor(s[k], ch)  Leaves(k) == LeavesOut(s[k], ch)
  <2>1. ch \in StillAsked(q) <=>
          \E k \in 1 .. h : Asks(k) /\ \A l \in 1 .. h : l > k => ~ Leaves(l)
    BY <1>3 DEF StillAsked
  <2>2. ch \in StillAsked(s) <=>
          \E k \in 1 .. h + 1 : Asks(k) /\ \A l \in 1 .. h + 1 : l > k => ~ Leaves(l)
    BY <1>3 DEF StillAsked
  <2>3. (\E k \in 1 .. h + 1 : Asks(k) /\ \A l \in 1 .. h + 1 : l > k => ~ Leaves(l))
        <=> Asks(h + 1) \/ ((\E k \in 1 .. h : Asks(k) /\ \A l \in 1 .. h : l > k => ~ Leaves(l)) /\ ~ Leaves(h + 1))
    <3> HIDE DEF Asks, Leaves
    <3>1. QED
      BY <1>4
  <2>4. QED
    BY <1>3, <2>1, <2>2, <2>3
<1>6. StillAsked(q) \in SUBSET Channels /\ StillAsked(s) \subseteq Channels
  BY DEF StillAsked
<1>7. Asked(StillAsked(q), m) \subseteq Channels
  BY <1>6, CommandTyped DEF Asked
<1>8. StillAsked(s) = Asked(StillAsked(q), m)
  <2>1. \A ch \in Channels : ch \in StillAsked(s) <=> ch \in Asked(StillAsked(q), m)
    BY <1>5, <1>6, AskedIsMasked
  <2>2. QED
    BY <1>6, <1>7, <2>1
<1>9. EverAsked(q) \subseteq EverAsked(s)
  BY <1>3, <1>4 DEF EverAsked
<1>10. QED
  BY <1>2, <1>8, <1>9

(* What is left of a queue when its first is taken. *)
LEMMA TailShifts ==
  ASSUME NEW S, NEW q \in Seq(S), q # << >>
  PROVE  /\ Head(q) \in S /\ Head(q) = q[1] /\ 1 \in DOMAIN q
         /\ \A k \in DOMAIN Tail(q) : k + 1 \in DOMAIN q /\ Tail(q)[k] = q[k + 1] /\ k \in Nat \ {0}
<1>1. Len(q) \in Nat /\ Len(q) > 0 /\ DOMAIN q = 1 .. Len(q) /\ q \in [1 .. Len(q) -> S]
  OBVIOUS
<1>2. Head(q) = q[1] /\ DOMAIN Tail(q) = 1 .. Len(q) - 1
      /\ \A k \in 1 .. Len(q) - 1 : Tail(q)[k] = q[k + 1]
  BY <1>1
<1>3. QED
  BY <1>1, <1>2

-----------------------------------------------------------------------------
(* What stays true where little changes. *)

LEMMA QuietDialled ==
  ASSUME TypeOK, Dialled, UNCHANGED backlog, \A f \in Fds : owner'[f] \in {owner[f], NoClient},
         \A c \in Clients : state'[c] = "new" => state[c] = "new"
  PROVE  Dialled'
<1>1. \A k \in DOMAIN backlog : backlog[k] \in Clients /\ backlog[k] # NoClient
  BY ServerAssumption DEF TypeOK
<1>2. QED
  BY <1>1, ServerAssumption DEF Dialled

(* Where every other slot keeps what it has, it stays with it. *)
LEMMA QuietPending ==
  ASSUME TypeOK, Held, Pending, UNCHANGED readable, pc' # Accepting,
         \A i \in Taken' : i \in Taken /\ socket'[i] = socket[i] /\ Peer(i)' = Peer(i),
         \A c \in Clients : /\ state'[c] = "open" => state[c] = "open"
                            /\ commands[c] # << >> => commands'[c] # << >>,
         pc' # Outside => pc # Outside /\ \A i \in Slots : i >= pc' => i >= pc
  PROVE  Pending'
<1> SUFFICES ASSUME pc' # Outside, NEW i \in Taken', i >= pc', socket'[i] \in readable'
             PROVE  state'[Peer(i)'] # "open" \/ commands'[Peer(i)'] # << >>
  BY DEF Pending
<1>1. PICK d : d = Peer(i)
  OBVIOUS
<1>2. i \in Taken /\ i \in Slots /\ d \in Clients /\ Peer(i)' = d /\ i >= pc /\ pc # Outside
  BY <1>1, PeerTyped
<1>3. state[d] # "open" \/ commands[d] # << >>
  BY <1>1, <1>2 DEF Pending
<1>4. QED
  BY <1>2, <1>3

LEMMA QuietKnown ==
  ASSUME TypeOK, Held, Dialled, Unheard, Masked, Streamed, UNCHANGED <<heard, stream>>,
         \A c \in Clients : /\ state'[c] = "new" => state[c] = "new"
                            /\ state'[c] = "open" => state[c] \in {"open", "new"},
         \A i \in Taken' : i \in Taken /\ Peer(i)' = Peer(i)
                           /\ (mask'[i] = mask[i] \/ state[Peer(i)] # "open"),
         \A k \in DOMAIN backlog' : heard[backlog'[k]] = << >>
  PROVE  Unheard' /\ Masked' /\ Streamed'
<1>1. Unheard'
  BY DEF Unheard
<1>2. Streamed'
  <2> SUFFICES ASSUME NEW c \in Clients, state'[c] = "open",
                      NEW k \in DOMAIN stream[c], stream[c][k] \in Channels
               PROVE  stream[c][k] \in EverAsked(heard[c])
    BY DEF Streamed
  <2>1. CASE state[c] = "open"
    BY <2>1 DEF Streamed
  <2>2. CASE state[c] = "new"
    BY <2>2 DEF Unheard
  <2>3. QED
    BY <2>1, <2>2
<1>3. Masked'
  <2> SUFFICES ASSUME NEW i \in Taken', state'[Peer(i)'] = "open"
               PROVE  mask'[i] = StillAsked(heard[Peer(i)'])
    BY DEF Masked
  <2>1. PICK d : d = Peer(i)
    OBVIOUS
  <2>2. i \in Taken /\ d \in Clients /\ Peer(i)' = d /\ state[d] # "new"
    BY <2>1, PeerTyped, PeerDialled
  <2>3. state[d] = "open"
    BY <2>2
  <2>4. QED
    BY <2>1, <2>2, <2>3 DEF Masked
<1>4. QED
  BY <1>1, <1>2, <1>3

(* A client is sent a channel only through a slot whose mask has it.       *)
LEMMA ToldStreamed ==
  ASSUME TypeOK, Masked, Streamed, NEW slots \in SUBSET Taken, NEW m \in Messages, Told(slots, m),
         m \in Channels => slots = Active(m),
         \A d \in Clients : /\ EverAsked(heard[d]) \subseteq EverAsked(heard'[d])
                            /\ state'[d] = "open" => state[d] = "open"
  PROVE  Streamed'
<1> SUFFICES ASSUME NEW c \in Clients, state'[c] = "open",
                    NEW k \in DOMAIN stream'[c], stream'[c][k] \in Channels
             PROVE  stream'[c][k] \in EverAsked(heard[c])
  BY DEF Streamed
<1>1. Telling(slots, m) /\ state[c] = "open"
  BY DEF Told
<1>2. stream[c] \in Seq(Messages) /\ stream'[c] \in Seq(Messages) /\ k \in 1 .. Len(stream'[c])
  BY <1>1 DEF Telling, TypeOK
<1>3. CASE k <= Len(stream[c])
  <2>1. k \in 1 .. Len(stream[c]) /\ stream'[c][k] = stream[c][k]
    BY <1>1, <1>2, <1>3 DEF Telling
  <2>2. k \in DOMAIN stream[c]
    BY <1>2, <2>1
  <2>3. QED
    BY <1>1, <2>1, <2>2 DEF Streamed
<1>4. CASE k > Len(stream[c])
  <2>1. stream'[c][k] = m /\ \E i \in slots : Peer(i) = c
    BY <1>1, <1>2, <1>4 DEF Telling
  <2>2. PICK i \in Active(m) : Peer(i) = c
    BY <2>1
  <2>3. i \in Taken /\ m \in mask[i]
    BY <2>2 DEF Active
  <2>4. mask[i] = StillAsked(heard[c])
    BY <1>1, <2>2, <2>3 DEF Masked
  <2>5. QED
    BY <2>1, <2>3, <2>4, StillIsEver
<1>5. QED
  BY <1>2, <1>3, <1>4

LEMMA ToldUnheard ==
  ASSUME TypeOK, Held, Dialled, Unheard, NEW slots \in SUBSET Taken, NEW m, Told(slots, m),
         UNCHANGED backlog,
         \A c \in Clients : state'[c] = "new" => state[c] = "new",
         \A c \in Clients : heard'[c] = heard[c]
                            \/ (state[c] # "new" /\ \A k \in DOMAIN backlog : backlog[k] # c)
  PROVE  Unheard'
<1>1. Telling(slots, m)
  BY DEF Told
<1>2. ASSUME NEW c \in Clients, state'[c] = "new" PROVE heard'[c] = << >> /\ stream'[c] = << >>
  <2>1. state[c] = "new" /\ heard'[c] = << >> /\ stream[c] = << >>
    BY <1>2 DEF Unheard
  <2>2. \A i \in slots : Peer(i) # c
    BY <2>1, PeerDialled
  <2>3. \A k \in 1 .. Len(stream'[c]) : ~(k > 0)
    BY <1>1, <2>1, <2>2 DEF Telling
  <2>4. stream'[c] \in Seq(Messages)
    BY <1>1 DEF Telling
  <2>5. QED
    BY <2>1, <2>3, <2>4
<1>3. \A k \in DOMAIN backlog : backlog[k] \in Clients
  BY DEF TypeOK
<1>4. QED
  BY <1>2, <1>3 DEF Unheard

-----------------------------------------------------------------------------
(* The steps, each from a state in which no slot was left stale. *)

LEMMA SelectKept ==
  ASSUME TypeOK, Kept, Select
  PROVE  Kept'
<1> USE DEF Kept
<1>1. UNCHANGED <<socket, mask, owner, backlog, state, commands, stream, heard>>
      /\ pc' = Accepting /\ Taken' = Taken
  BY DEF Select, netVars, gameVars, Taken
<1>2. \A i \in Taken : socket[i] \in Fds /\ owner[socket[i]] # NoClient /\ owner[socket[i]] \in Clients
  BY PeerTyped DEF Peer
<1>3. \A f \in readable' : f = "listen" \/
        \E i \in Taken : f = socket[i] /\ (~Works(f) \/ commands[owner[f]] # << >>)
  BY <1>2 DEF Select
<1>4. \A f \in Fds \cap readable' : owner[f] # NoClient /\ (~Works(f) \/ commands[owner[f]] # << >>)
  BY <1>2, <1>3, ServerAssumption
<1>5. ASSUME NEW i \in Taken, socket[i] \in readable'
      PROVE  state[Peer(i)] # "open" \/ commands[Peer(i)] # << >>
  BY <1>2, <1>4, <1>5 DEF Works, Peer
<1>6. Pending'
  BY <1>1, <1>4, <1>5 DEF Pending, Peer
<1>7. Dialled' /\ Held'
  BY <1>1, QuietDialled, SameHeld
<1>8. Unheard' /\ Masked' /\ Streamed'
  BY <1>1, QuietKnown DEF Peer, Unheard
<1>9. QED
  BY <1>6, <1>7, <1>8

(* Who is accepted has not been heard, and gets a cleared mask.            *)
LEMMA AcceptKept ==
  ASSUME GreetInv, Kept, Accept
  PROVE  Kept'
<1> USE DEF Kept
<1>1. TypeOK /\ pc = Accepting /\ pc' = 0
  BY DEF GreetInv, Accept
<1>2. Held'
  BY AcceptHeld
<1>3. PICK c : c = Head(backlog)
  OBVIOUS
<1>4. FirstFree \in Slots /\ FirstFree \notin Taken
  BY FirstFreeIsFree DEF Accept, GreetInv, Room, Free
<1>5. /\ c \in Clients /\ c = backlog[1] /\ 1 \in DOMAIN backlog
      /\ \A k \in DOMAIN backlog' : k + 1 \in DOMAIN backlog /\ backlog'[k] = backlog[k + 1] /\ k \in Nat \ {0}
  <2>1. backlog \in Seq(Clients) /\ backlog # << >> /\ backlog' = Tail(backlog)
    BY <1>1 DEF TypeOK, Accept
  <2>2. QED
    BY <1>3, <2>1, TailShifts
<1>6. UNCHANGED <<readable, state, commands, heard>> /\ mask' = [mask EXCEPT ![FirstFree] = {}]
  BY DEF Accept, gameVars
<1>7. \A i \in Slots : mask'[i] = IF i = FirstFree THEN {} ELSE mask[i]
  BY <1>1, <1>6 DEF TypeOK
<1>8. heard[c] = << >> /\ \A k \in DOMAIN backlog' : heard[backlog'[k]] = << >>
  BY <1>5 DEF Unheard
<1>9. CASE UNCHANGED <<owner, socket, stream>>
  <2>1. Taken' = Taken
    BY <1>9 DEF Taken
  <2>2. Dialled'
    BY <1>5, <1>6, <1>9 DEF Dialled
  <2>3. Pending'
    <3>1. \A i \in Slots : i >= pc
      BY <1>1, PositionsTyped DEF Accepting
    <3>2. QED
      BY <1>1, <1>6, <1>9, <2>1, <3>1, QuietPending DEF Peer, Accepting, Outside
  <2>4. Unheard' /\ Masked' /\ Streamed'
    <3>1. \A i \in Taken' : i \in Taken /\ Peer(i)' = Peer(i) /\ mask'[i] = mask[i]
      BY <1>4, <1>7, <1>9, <2>1 DEF Peer, Taken
    <3>2. QED
      BY <1>1, <1>6, <1>8, <1>9, <3>1, QuietKnown
  <2>5. QED
    BY <1>2, <2>2, <2>3, <2>4
<1>10. CASE ~ UNCHANGED <<owner, socket, stream>>
  <2>1. PICK f \in Fds : /\ owner[f] = NoClient
                         /\ owner' = [owner EXCEPT ![f] = c]
                         /\ socket' = [socket EXCEPT ![FirstFree] = f]
                         /\ stream' = [stream EXCEPT ![c] = @ \o <<"registrations">>]
    BY <1>3, <1>10 DEF Accept, Greet
  <2>2. \A g \in Fds : owner'[g] = IF g = f THEN c ELSE owner[g]
    BY <1>1, <2>1 DEF TypeOK
  <2>3. \A i \in Slots : socket'[i] = IF i = FirstFree THEN f ELSE socket[i]
    BY <1>1, <2>1 DEF TypeOK
  <2>4. Taken' = Taken \cup {FirstFree} /\ Taken \subseteq Slots
    BY <1>4, <2>3, ServerAssumption DEF Taken
  <2>5. \A i \in Taken : i # FirstFree /\ socket[i] # f /\ socket'[i] = socket[i] /\ socket[i] \in Fds
                         /\ owner'[socket[i]] = owner[socket[i]]
    BY <1>1, <1>4, <2>1, <2>2, <2>3, <2>4, PeerTyped, Zenon DEF Peer
  <2>6. f \notin readable
    BY <1>1, <2>1 DEF Pending
  <2>7. Dialled'
    <3>1. \A g, h \in Fds : owner'[g] # NoClient /\ owner'[g] = owner'[h] => g = h
      BY <1>5, <2>2 DEF Dialled
    <3>2. \A k, l \in DOMAIN backlog' : backlog'[k] = backlog'[l] => k = l
      BY <1>5 DEF Dialled
    <3>3. \A k \in DOMAIN backlog', g \in Fds : owner'[g] # backlog'[k]
      <4> SUFFICES ASSUME NEW k \in DOMAIN backlog', NEW g \in Fds PROVE owner'[g] # backlog'[k]
        OBVIOUS
      <4>1. k + 1 # 1
        BY <1>5
      <4>2. backlog'[k] # c
        BY <1>5, <4>1 DEF Dialled
      <4>3. QED
        BY <1>5, <2>2, <4>2 DEF Dialled
    <3>4. \A d \in Clients : state'[d] = "new" =>
            /\ \A k \in DOMAIN backlog' : backlog'[k] # d
            /\ \A g \in Fds : owner'[g] # d
      BY <1>5, <1>6, <2>2 DEF Dialled
    <3>5. QED
      BY <3>1, <3>2, <3>3, <3>4 DEF Dialled
  <2>8. Pending'
    <3> SUFFICES ASSUME NEW i \in Taken', socket'[i] \in readable
                 PROVE  state[Peer(i)'] # "open" \/ commands[Peer(i)'] # << >>
      BY <1>1, <1>6 DEF Pending, Accepting
    <3>1. i \in Taken
      BY <1>4, <2>3, <2>4, <2>6
    <3>2. i >= pc /\ pc # Outside
      BY <1>1, <2>4, <3>1, PositionsTyped DEF Accepting, Outside
    <3>3. QED
      BY <2>5, <3>1, <3>2 DEF Pending, Peer
  <2>9. Masked'
    <3> SUFFICES ASSUME NEW i \in Taken', state[Peer(i)'] = "open"
                 PROVE  mask'[i] = StillAsked(heard[Peer(i)'])
      BY <1>6 DEF Masked
    <3>1. CASE i = FirstFree
      <4>1. Peer(i)' = c /\ mask'[i] = {}
        BY <1>4, <1>7, <2>2, <2>3, <3>1 DEF Peer
      <4>2. QED
        BY <1>8, <4>1, NothingAsked
    <3>2. CASE i # FirstFree
      <4>1. i \in Taken /\ i \in Slots /\ Peer(i)' = Peer(i) /\ mask'[i] = mask[i]
        BY <1>7, <2>4, <2>5, <3>2 DEF Peer
      <4>2. QED
        BY <4>1 DEF Masked
    <3>3. QED
      BY <3>1, <3>2
  <2>10. /\ \A d \in Clients : d # c => stream'[d] = stream[d]
         /\ stream'[c] = stream[c] \o <<"registrations">> /\ stream[c] \in Seq(Messages)
    BY <1>1, <1>5, <2>1 DEF TypeOK
  <2>11. Unheard'
    <3>1. state[c] # "new"
      BY <1>5 DEF Dialled
    <3>2. QED
      BY <1>6, <1>8, <2>10, <3>1 DEF Unheard
  <2>12. Streamed'
    <3> SUFFICES ASSUME NEW d \in Clients, NEW k \in DOMAIN stream'[d], stream'[d][k] \in Channels
                 PROVE  k \in DOMAIN stream[d] /\ stream'[d][k] = stream[d][k]
      BY <1>6 DEF Streamed
    <3>1. CASE d # c
      BY <2>10, <3>1
    <3>2. CASE d = c
      <4>1. "registrations" \notin Channels
        BY MessagesTyped
      <4>2. QED
        BY <2>10, <3>2, <4>1
    <3>3. QED
      BY <3>1, <3>2
  <2>13. QED
    BY <1>2, <2>7, <2>8, <2>9, <2>11, <2>12
<1>11. QED
  BY <1>9, <1>10

(* The mask follows what is obeyed, in the slot that is served.            *)
LEMMA ReceiveKept ==
  ASSUME GreetInv, Kept, NEW i \in Slots, Receive(i)
  PROVE  Kept'
<1> USE DEF Kept
<1>1. TypeOK
  BY DEF GreetInv
<1>2. /\ i \in Taken /\ pc = i /\ pc' = i + 1
      /\ UNCHANGED <<readable, backlog, state>>
  BY <1>1, ReadTells DEF Receive
<1>3. PICK slots \in SUBSET Taken, t \in Messages \ Channels : Told(slots, t)
  BY <1>1, ReadTells
<1>4. Held' /\ \A j \in Taken' : j \in Taken /\ socket'[j] = socket[j] /\ Peer(j)' = Peer(j)
  BY <1>1, <1>3, ToldHeld
<1>5. PICK c \in Clients : c = Peer(i)
  BY <1>1, <1>2, PeerTyped
<1>6. PICK n \in 1 .. Len(commands[c]) :
        /\ commands' = [commands EXCEPT ![c] = SubSeq(@, n + 1, Len(@))]
        /\ Obey(i, commands[c][1])
        /\ heard' = [heard EXCEPT ![c] = Append(@, commands[c][1])]
  BY <1>5 DEF Receive
<1>7. PICK m \in CommandSet : m = commands[c][1]
  <2>1. commands[c] \in Seq(CommandSet) /\ Len(commands[c]) >= 1
    BY <1>1, <1>6 DEF TypeOK
  <2>2. QED
    BY <2>1
<1>8. /\ heard'[c] = Append(heard[c], m) /\ heard[c] \in Seq(CommandSet)
      /\ \A d \in Clients : d # c => heard'[d] = heard[d] /\ commands'[d] = commands[d]
  BY <1>1, <1>6, <1>7 DEF TypeOK
<1>9. /\ mask'[i] = Asked(mask[i], m) /\ \A j \in Slots : j # i => mask'[j] = mask[j]
  BY <1>1, <1>6, <1>7 DEF Obey, TypeOK
<1>10. Dialled'
  <2>1. \A f \in Fds : owner'[f] \in {owner[f], NoClient}
    BY <1>3 DEF Told, Closing
  <2>2. QED
    BY <1>1, <1>2, <2>1, QuietDialled
<1>11. ASSUME NEW j \in Taken', j # i PROVE Peer(j) \in Clients /\ Peer(j) # c
  BY <1>1, <1>2, <1>4, <1>5, <1>11, PeersDiffer
<1>12. Pending'
  <2> SUFFICES ASSUME NEW j \in Taken', j >= i + 1, socket[j] \in readable
               PROVE  state[Peer(j)] # "open" \/ commands'[Peer(j)] # << >>
    BY <1>2, <1>4, PositionsTyped DEF Pending, Accepting
  <2>1. j \in Taken /\ j # i /\ j >= i /\ j \in Slots
    BY <1>4, PositionsTyped DEF Taken
  <2>2. commands'[Peer(j)] = commands[Peer(j)]
    BY <1>8, <1>11, <2>1
  <2>3. QED
    BY <1>2, <2>1, <2>2, PositionsTyped DEF Pending, Outside
<1>13. Masked'
  <2> SUFFICES ASSUME NEW j \in Taken', state[Peer(j)] = "open"
               PROVE  mask'[j] = StillAsked(heard'[Peer(j)])
    BY <1>2, <1>4 DEF Masked
  <2>1. CASE j = i
    <3>1. mask[i] = StillAsked(heard[c])
      BY <1>2, <1>5, <2>1 DEF Masked
    <3>2. QED
      BY <1>5, <1>8, <1>9, <2>1, <3>1, AskedOneMore
  <2>2. CASE j # i
    <3>1. j \in Taken /\ j \in Slots
      BY <1>4 DEF Taken
    <3>2. QED
      BY <1>8, <1>9, <1>11, <2>2, <3>1 DEF Masked
  <2>3. QED
    BY <2>1, <2>2
<1>14. Streamed'
  <2>1. \A d \in Clients : EverAsked(heard[d]) \subseteq EverAsked(heard'[d])
    BY <1>8, AskedOneMore
  <2>2. QED
    BY <1>1, <1>2, <1>3, <2>1, ToldStreamed
<1>15. Unheard'
  <2>1. state[c] # "new" /\ \A k \in DOMAIN backlog : backlog[k] # c
    BY <1>1, <1>2, <1>5, PeerDialled
  <2>2. QED
    BY <1>1, <1>2, <1>3, <1>8, <2>1, ToldUnheard
<1>16. QED
  BY <1>4, <1>10, <1>12, <1>13, <1>14, <1>15

(* What another client's command does in the slot of one that was reset.   *)
LEMMA ReceiveFailsKept ==
  ASSUME GreetInv, Kept, NEW i \in Slots, ReceiveFails(i)
  PROVE  Kept'
<1> USE DEF Kept
<1>1. TypeOK
  BY DEF GreetInv
<1>2. /\ i \in Taken /\ pc = i /\ pc' = i + 1
      /\ UNCHANGED <<readable, backlog, commands, heard>>
  BY <1>1, ReadTells DEF ReceiveFails
<1>3. PICK slots \in SUBSET Taken, t \in Messages \ Channels : Told(slots, t)
  BY <1>1, ReadTells
<1>4. Held' /\ \A j \in Taken' : j \in Taken /\ socket'[j] = socket[j] /\ Peer(j)' = Peer(j)
  BY <1>1, <1>3, ToldHeld
<1>5. \A d \in Clients : state'[d] = state[d] \/ (state[d] = "reset" /\ state'[d] = "closed")
  BY DEF ReceiveFails
<1>6. Peer(i) \in Clients /\ state[Peer(i)] # "open"
  <2>1. Peer(i) \in Clients /\ Peer(i) # NoClient /\ socket[i] \in readable
    BY <1>1, <1>2, PeerTyped DEF ReceiveFails, Readable
  <2>2. state[Peer(i)] # "open" \/ commands[Peer(i)] # << >>
    BY <1>2, <2>1, PositionsTyped DEF Pending, Outside
  <2>3. QED
    BY <2>1, <2>2 DEF ReceiveFails
<1>7. \A j \in Slots : j # i => mask'[j] = mask[j]
  BY <1>1 DEF ReceiveFails, Obey, TypeOK
<1>8. Dialled'
  <2>1. \A f \in Fds : owner'[f] \in {owner[f], NoClient}
    BY <1>3 DEF Told, Closing
  <2>2. QED
    BY <1>1, <1>2, <1>5, <2>1, QuietDialled
<1>9. Pending'
  <2>1. pc' # Accepting /\ pc # Outside /\ \A j \in Slots : j >= i + 1 => j >= i
    BY <1>2, PositionsTyped DEF Accepting, Outside
  <2>2. QED
    BY <1>1, <1>2, <1>4, <1>5, <2>1, QuietPending
<1>10. Masked'
  <2> SUFFICES ASSUME NEW j \in Taken', state'[Peer(j)] = "open"
               PROVE  mask'[j] = StillAsked(heard[Peer(j)])
    BY <1>2, <1>4 DEF Masked
  <2>1. j \in Taken /\ j \in Slots /\ Peer(j) \in Clients /\ state[Peer(j)] = "open"
    BY <1>1, <1>4, <1>5, PeerTyped
  <2>2. QED
    BY <1>6, <1>7, <2>1 DEF Masked
<1>11. Streamed'
  BY <1>1, <1>2, <1>3, <1>5, ToldStreamed
<1>12. Unheard'
  BY <1>1, <1>2, <1>3, <1>5, ToldUnheard
<1>13. QED
  BY <1>4, <1>8, <1>9, <1>10, <1>11, <1>12

LEMMA ServeKept ==
  ASSUME GreetInv, Kept, NEW i \in Slots, Serve(i)
  PROVE  Kept'
<1> USE DEF Kept
<1>1. TypeOK
  BY DEF GreetInv
<1>2. pc = i /\ pc' = i + 1 => pc' # Accepting /\ pc # Outside /\ \A j \in Slots : j >= pc' => j >= pc
  BY PositionsTyped DEF Accepting, Outside
<1>3. CASE Skip(i)
  <2>1. /\ UNCHANGED <<socket, mask, owner, readable, backlog, state, commands, stream, heard>>
        /\ pc = i /\ pc' = i + 1 /\ Taken' = Taken
    BY <1>3 DEF Skip, Advance, netVars, gameVars, Taken
  <2>2. Pending'
    BY <1>1, <1>2, <2>1, QuietPending DEF Peer
  <2>3. Dialled' /\ Held'
    BY <1>1, <2>1, QuietDialled, SameHeld
  <2>4. QED
    BY <1>1, <2>1, <2>2, <2>3, QuietKnown DEF Peer, Unheard
<1>4. CASE HangUp(i)
  <2>1. /\ Held' /\ Taken' = Taken \ {i}
        /\ \A j \in Taken' : socket'[j] = socket[j] /\ Peer(j)' = Peer(j)
    BY <1>1, <1>4, HangUpHeld
  <2>2. /\ UNCHANGED <<mask, readable, backlog, state, commands, stream, heard>>
        /\ pc = i /\ pc' = i + 1
    BY <1>4 DEF HangUp, Readable, Advance, gameVars
  <2>3. Pending'
    BY <1>1, <1>2, <2>1, <2>2, QuietPending
  <2>4. Dialled'
    BY <1>1, <1>4, <2>2, QuietDialled DEF HangUp, TypeOK
  <2>5. QED
    BY <1>1, <2>1, <2>2, <2>3, <2>4, QuietKnown DEF Unheard
<1>5. CASE Receive(i)
  BY <1>5, ReceiveKept
<1>6. CASE ReceiveFails(i)
  BY <1>6, ReceiveFailsKept
<1>7. QED
  BY <1>3, <1>4, <1>5, <1>6 DEF Serve

LEMMA GameKept ==
  ASSUME TypeOK, Kept, Poll \/ (\E ch \in Channels : SendData(ch)) \/ SendToEverybody
  PROVE  Kept'
<1> USE DEF Kept
<1>1. PICK slots \in SUBSET Taken, m \in Messages : Told(slots, m) /\ (m \in Channels => slots = Active(m))
  BY GameTells
<1>2. pc' = Outside /\ UNCHANGED <<mask, backlog, state, commands, heard>>
  BY GameTells
<1>3. Held' /\ \A i \in Taken' : i \in Taken /\ socket'[i] = socket[i] /\ Peer(i)' = Peer(i)
  BY <1>1, ToldHeld
<1>4. Dialled'
  <2>1. \A f \in Fds : owner'[f] \in {owner[f], NoClient}
    BY <1>1 DEF Told, Closing
  <2>2. QED
    BY <1>2, <2>1, QuietDialled
<1>5. Pending'
  BY <1>2 DEF Pending, Accepting, Outside
<1>6. Streamed'
  BY <1>1, <1>2, ToldStreamed
<1>7. Unheard'
  BY <1>1, <1>2, ToldUnheard
<1>8. Masked'
  BY <1>2, <1>3 DEF Masked
<1>9. QED
  BY <1>3, <1>4, <1>5, <1>6, <1>7, <1>8

LEMMA ClientKept ==
  ASSUME TypeOK, Kept, NEW c \in Clients, Client(c)
  PROVE  Kept'
<1> USE DEF Kept
<1>1. UNCHANGED <<serverVars, owner, stream, heard>> /\ Taken' = Taken /\ \A i \in Taken : Peer(i)' = Peer(i)
  BY DEF Client, Dial, ClientSend, Close, Reset, serverVars, gameVars, Taken, Peer
<1>2. Held'
  BY <1>1, SameHeld DEF serverVars
<1>3. \A i \in Taken : Peer(i) \in Clients /\ state[Peer(i)] # "new"
  BY PeerTyped, PeerDialled
<1>4. CASE Dial(c)
  <2>1. /\ UNCHANGED commands
        /\ state[c] = "new" /\ state' = [state EXCEPT ![c] = "open"] /\ backlog' = Append(backlog, c)
    BY <1>4 DEF Dial
  <2>2. \A d \in Clients : state'[d] = IF d = c THEN "open" ELSE state[d]
    BY <2>1 DEF TypeOK
  <2>3. /\ backlog \in Seq(Clients) /\ DOMAIN backlog' = DOMAIN backlog \cup {Len(backlog) + 1}
        /\ Len(backlog) + 1 \notin DOMAIN backlog
        /\ backlog'[Len(backlog) + 1] = c
        /\ \A k \in DOMAIN backlog : backlog'[k] = backlog[k]
    BY <2>1, SMTT(30) DEF TypeOK
  <2>4. Dialled'
    <3>1. (\A k \in DOMAIN backlog : backlog[k] # c) /\ \A f \in Fds : owner[f] # c
      BY <2>1 DEF Dialled
    <3>2. \A k, l \in DOMAIN backlog' : backlog'[k] = backlog'[l] => k = l
      BY <2>3, <3>1 DEF Dialled
    <3>3. \A k \in DOMAIN backlog', f \in Fds : owner'[f] # backlog'[k]
      BY <1>1, <2>3, <3>1 DEF Dialled
    <3>4. \A d \in Clients : state'[d] = "new" =>
            /\ \A k \in DOMAIN backlog' : backlog'[k] # d
            /\ \A f \in Fds : owner'[f] # d
      BY <1>1, <2>2, <2>3 DEF Dialled
    <3>5. \A f, g \in Fds : owner'[f] # NoClient /\ owner'[f] = owner'[g] => f = g
      BY <1>1 DEF Dialled
    <3>6. QED
      BY <3>2, <3>3, <3>4, <3>5 DEF Dialled
  <2>5. Pending'
    BY <1>1, <1>3, <2>1, <2>2 DEF Pending, serverVars
  <2>6. \A k \in DOMAIN backlog' : heard[backlog'[k]] = << >>
    BY <2>1, <2>3 DEF Unheard
  <2>7. Unheard' /\ Masked' /\ Streamed'
    BY <1>1, <2>1, <2>2, <2>6, QuietKnown DEF serverVars
  <2>8. QED
    BY <1>2, <2>4, <2>5, <2>7
<1>5. CASE ClientSend(c)
  <2>1. UNCHANGED <<backlog, state>> /\ \A d \in Clients : commands[d] # << >> => commands'[d] # << >>
    <3>1. PICK m \in CommandSet : commands' = [commands EXCEPT ![c] = Append(@, m)]
      BY <1>5, RepertoireAssumption DEF ClientSend
    <3>2. commands[c] \in Seq(CommandSet) /\ commands'[c] = Append(commands[c], m)
          /\ \A d \in Clients : d # c => commands'[d] = commands[d]
      BY <3>1 DEF TypeOK
    <3>3. commands'[c] # << >>
      BY <3>2
    <3>4. QED
      BY <1>5, <3>2, <3>3 DEF ClientSend
  <2>2. Dialled'
    BY <1>1, <2>1, QuietDialled
  <2>3. Pending'
    BY <1>1, <1>3, <2>1 DEF Pending, serverVars
  <2>4. Unheard' /\ Masked' /\ Streamed'
    BY <1>1, <2>1, QuietKnown DEF serverVars, Unheard
  <2>5. QED
    BY <1>2, <2>2, <2>3, <2>4
<1>6. CASE Close(c) \/ Reset(c)
  <2>1. /\ UNCHANGED backlog
        /\ \A d \in Clients : /\ state'[d] = state[d] \/ (d = c /\ state'[d] \in {"closed", "reset"})
                              /\ commands'[d] = commands[d] \/ (d = c /\ state'[d] = "reset")
    BY <1>6 DEF Close, Reset, TypeOK
  <2>2. Dialled'
    BY <1>1, <2>1, QuietDialled
  <2>3. Pending'
    BY <1>1, <1>3, <2>1 DEF Pending, serverVars
  <2>4. Unheard' /\ Masked' /\ Streamed'
    BY <1>1, <2>1, QuietKnown DEF serverVars, Unheard
  <2>5. QED
    BY <1>2, <2>2, <2>3, <2>4
<1>7. QED
  BY <1>4, <1>5, <1>6 DEF Client

(* With no slot taken there is nothing that a shutdown leaves behind.      *)
LEMMA ShutdownKept ==
  ASSUME TypeOK, Kept, Shutdown, Taken = {}
  PROVE  Kept'
<1> USE DEF Kept
<1>1. /\ UNCHANGED <<socket, mask, pc, readable, state, commands, stream, heard>>
      /\ backlog' = << >> /\ pc' = Outside
      /\ \A f \in Fds : owner'[f] \in {owner[f], NoClient}
  BY DEF Shutdown
<1>2. \A f \in Fds : owner'[f] = NoClient
  BY <1>1 DEF Held
<1>3. Taken' = {}
  BY <1>1 DEF Taken
<1>4. Held' /\ Pending' /\ Masked'
  BY <1>1, <1>2, <1>3 DEF Held, Pending, Masked, Accepting, Outside
<1>5. Dialled'
  <2>1. \A c \in Clients : c # NoClient
    BY ServerAssumption
  <2>2. QED
    BY <1>1, <1>2, <2>1 DEF Dialled
<1>6. Unheard' /\ Streamed'
  BY <1>1 DEF Unheard, Streamed
<1>7. QED
  BY <1>4, <1>5, <1>6

LEMMA IdleKept ==
  ASSUME TypeOK, Kept,
         UNCHANGED <<socket, mask, pc, readable, owner, backlog, state, commands, stream, heard>>
  PROVE  Kept'
<1> USE DEF Kept
<1>1. Taken' = Taken
  BY DEF Taken
<1>2. Dialled' /\ Held'
  BY QuietDialled, SameHeld
<1>3. Pending'
  BY <1>1 DEF Pending, Peer
<1>4. QED
  BY <1>1, <1>2, <1>3, QuietKnown DEF Peer, Unheard

LEMMA NextAskInv == AskInv /\ [Next]_vars => AskInv'
<1> SUFFICES ASSUME AskInv, [Next]_vars PROVE stale' \/ Kept'
  BY NextGreetInv DEF AskInv
<1>1. GreetInv /\ TypeOK
  BY DEF AskInv, GreetInv
<1>2. CASE stale
  <2>1. CASE Select \/ AcceptNothing \/ Accept \/ AcceptFails
    BY <1>2, <2>1 DEF Select, AcceptNothing, Accept, AcceptFails, gameVars
  <2>2. ASSUME NEW i \in Slots, Serve(i) PROVE stale'
    BY <1>2, <2>2 DEF Serve, Skip, HangUp, Receive, ReceiveFails, gameVars
  <2>3. CASE Poll \/ (\E ch \in Channels : SendData(ch)) \/ SendToEverybody
    BY <1>1, <1>2, <2>3, GameTells
  <2>4. CASE Create \/ CreateFails \/ Shutdown \/ UNCHANGED vars
    BY <1>2, <2>4 DEF Create, CreateFails, Shutdown, vars, gameVars
  <2>5. ASSUME NEW c \in Clients, Client(c) PROVE stale'
    BY <1>2, <2>5 DEF Client, Dial, ClientSend, Close, Reset, gameVars
  <2>6. QED
    BY <2>1, <2>2, <2>3, <2>4, <2>5 DEF Next, Update
<1>3. CASE Kept
  <2>1. CASE Select
    BY <1>1, <1>3, <2>1, SelectKept
  <2>2. CASE AcceptNothing
    <3>1. /\ UNCHANGED <<socket, mask, readable, owner, backlog, state, commands, stream, heard>>
          /\ pc = Accepting /\ pc' = 0 /\ Taken' = Taken
      BY <2>2 DEF AcceptNothing, netVars, gameVars, Taken
    <3>2. pc' # Accepting /\ pc # Outside /\ \A i \in Slots : i >= pc
      BY <3>1, PositionsTyped DEF Accepting, Outside
    <3>3. Dialled' /\ Held' /\ Pending'
      BY <1>1, <1>3, <3>1, <3>2, QuietDialled, SameHeld, QuietPending DEF Kept, Peer
    <3>4. QED
      BY <1>1, <1>3, <3>1, <3>3, QuietKnown DEF Kept, Peer, Unheard
  <2>3. CASE Accept
    BY <1>1, <1>3, <2>3, AcceptKept
  <2>4. CASE AcceptFails
    BY <2>4 DEF AcceptFails
  <2>5. ASSUME NEW i \in Slots, Serve(i) PROVE Kept'
    BY <1>1, <1>3, <2>5, ServeKept
  <2>6. CASE Poll \/ (\E ch \in Channels : SendData(ch)) \/ SendToEverybody
    BY <1>1, <1>3, <2>6, GameKept
  <2>7. CASE Create \/ CreateFails \/ UNCHANGED vars
    BY <1>1, <1>3, <2>7, IdleKept DEF Create, CreateFails, vars, serverVars, netVars, gameVars
  <2>8. CASE Shutdown
    BY <1>1, <1>3, <2>8, ShutdownKept DEF Shutdown
  <2>9. ASSUME NEW c \in Clients, Client(c) PROVE Kept'
    BY <1>1, <1>3, <2>9, ClientKept
  <2>10. QED
    BY <2>1, <2>2, <2>3, <2>4, <2>5, <2>6, <2>7, <2>8, <2>9 DEF Next, Update
<1>4. QED
  BY <1>2, <1>3 DEF AskInv

LEMMA AskInvHolds == Spec => []AskInv
<1>1. QED
  BY InitAskInv, NextAskInv, PTL DEF Spec

(* However many clients come and go, whatever sends fail and however       *)
(* descriptor numbers are used again: none is leaked and none is in two    *)
(* slots, until a failed accept or a shutdown leaves a closed one.         *)
THEOREM OneSlotEachHolds == Spec => []OneSlotEach
<1>1. AskInv => OneSlotEach
  BY DEF AskInv, Kept, Held, OneSlotEach
<1>2. QED
  BY <1>1, AskInvHolds, PTL

(* No client whose connection works is sent a channel it has not asked     *)
(* for, whoever had its slot before, and whatever is reset or fails.       *)
THEOREM OnlyAskedChannelsHolds == Spec => []OnlyAskedChannels
<1>1. AskInv => OnlyAskedChannels
  <2> SUFFICES ASSUME AskInv, Streamed, NEW c \in Clients, NEW ch \in Channels,
                      state[c] = "open", SentBefore(c, ch)
               PROVE  \E k \in DOMAIN heard[c] : AsksFor(heard[c][k], ch)
    BY DEF OnlyAskedChannels, AskInv, Kept
  <2>1. ch \in EverAsked(heard[c])
    BY DEF Streamed, SentBefore
  <2>2. QED
    BY <2>1 DEF EverAsked
<1>2. QED
  BY <1>1, AskInvHolds, PTL

(* Whoever had the slot before, and whatever sends and reads failed: the   *)
(* mask of a connection that works is exactly what its own client's        *)
(* commands ask for, those that were obeyed since it connected.            *)
THEOREM MaskIsAskedHolds == Spec => []MaskIsAsked
<1>1. AskInv => MaskIsAsked
  <2> SUFFICES ASSUME AskInv, TypeOK, Masked, NEW i \in Taken, Works(socket[i])
               PROVE  mask[i] = AskedBy(Peer(i))
    BY DEF MaskIsAsked, AskInv, GreetInv, Kept
  <2>1. mask[i] = StillAsked(heard[Peer(i)])
    BY DEF Works, Masked, Peer
  <2>2. QED
    BY <2>1 DEF StillAsked, AskedBy
<1>2. QED
  BY <1>1, AskInvHolds, PTL

-----------------------------------------------------------------------------
(* The masks in memory (ChannelMask).                                      *)

(* The bits of a connected client's byte are the channels it asked for,    *)
(* registered or not: a channel registered later finds its bit clear.      *)
BytesExact ==
  \A k \in connected, c \in 0 .. 7 : <<k, c>> \in memory <=> c \in asked[k]

Small == MaskTypeOK /\ capacity <= 8 /\ BytesExact

MaskInv == capacity \in Nat /\ (capacity <= 8 => Small)

(* The loop of the code leaves channels 0 .. 7 in byte 0, at their number. *)
LEMMA LowChannels == \A c \in 0 .. 7 : ByteOf(c) = 0 /\ BitOf(c) = c
<1> SUFFICES ASSUME NEW c \in 0 .. 7 PROVE ByteOf(c) = 0 /\ BitOf(c) = c
  OBVIOUS
<1>1. ByteOf(c) = 0
  BY DEF ByteOf
<1>2. QED
  BY <1>1 DEF BitOf

(* With at most eight channels, channel c of connection k is bit c of byte k. *)
LEMMA LowBytes ==
  ASSUME capacity \in Nat, capacity <= 8, NEW k \in Connections, NEW c \in 0 .. 7
  PROVE  ByteAt(c, k, capacity) = k
<1>1. MaskLength(capacity) = 1
  BY DEF MaskLength
<1>2. k \in Int
  BY MaskAssumption DEF Connections
<1>3. QED
  BY <1>1, <1>2, LowChannels DEF ByteAt

(* And a set of channels is the same set of bits of that byte. *)
LEMMA LowCells ==
  ASSUME capacity \in Nat, capacity <= 8, NEW k \in Connections, NEW S \in SUBSET (0 .. 7)
  PROVE  CellsOf(S, k, capacity) = {<<k, c>> : c \in S}
<1>1. {d \in S : BitOf(d) # 8} = S
  <2>1. \A d \in S : BitOf(d) # 8
    <3>1. \A d \in S : d \in 0 .. 7 /\ d # 8
      OBVIOUS
    <3>2. QED
      BY <3>1, LowChannels
  <2>2. QED
    BY <2>1
<1>2. \A c \in S : <<ByteAt(c, k, capacity), BitOf(c)>> = <<k, c>>
  BY LowChannels, LowBytes
<1>3. CellsOf(S, k, capacity) = {<<k, c>> : c \in S}
  BY <1>1, <1>2 DEF CellsOf
<1>4. QED
  BY <1>3

(* So the strengthened invariant gives the property. *)
LEMMA MaskInvIsExact == MaskInv => MaskIsExact
<1> SUFFICES ASSUME Small, NEW k \in connected, NEW c \in Handles
             PROVE  IsActive(c, k) <=> c \in asked[k]
  BY DEF MaskInv, MaskIsExact
<1>1. k \in Connections /\ c \in 0 .. 7 /\ capacity \in Nat /\ capacity <= 8
  BY DEF Small, MaskTypeOK, Handles
<1>2. BitOf(c) = c /\ ByteAt(c, k, capacity) = k
  BY <1>1, LowChannels, LowBytes
<1>3. IsActive(c, k) <=> <<k, c>> \in memory
  BY <1>1, <1>2 DEF IsActive, BitSet
<1>4. QED
  BY <1>1, <1>3 DEF Small, BytesExact

(* A connection's set of channels may be replaced by registered channels. *)
LEMMA AskedType ==
  ASSUME MaskTypeOK, NEW k \in Connections, NEW S, S \subseteq Handles,
         asked' = [asked EXCEPT ![k] = S]
  PROVE  /\ asked' \in [Connections -> SUBSET Nat]
         /\ \A j \in Connections : asked'[j] \subseteq Handles
<1>1. S \in SUBSET Nat
  BY DEF MaskTypeOK, Handles
<1>2. asked' \in [Connections -> SUBSET Nat]
  BY <1>1 DEF MaskTypeOK
<1>3. \A j \in Connections : asked'[j] = IF j = k THEN S ELSE asked[j]
  BY DEF MaskTypeOK
<1>4. QED
  BY <1>2, <1>3 DEF MaskTypeOK

(* The strengthened invariant is inductive. *)
LEMMA InitMaskInv == MaskInit => MaskInv
BY MaskAssumption DEF MaskInit, MaskInv, Small, MaskTypeOK, BytesExact, Handles

LEMMA NextSmall ==
  ASSUME Small, [MaskNext]_maskVars, capacity' <= 8
  PROVE  Small'
<1>0. /\ capacity \in Nat /\ capacity <= 8 /\ Handles \subseteq 0 .. 7
      /\ MaskLength(capacity) = 1 /\ Connections \subseteq Nat
  BY MaskAssumption DEF Small, MaskTypeOK, Handles, MaskLength, Connections
<1>1. ASSUME NEW k \in Connections, Occupy(k) PROVE Small'
  <2>1. memory' = {cell \in memory : cell[1] # k}
    <3>1. k * MaskLength(capacity) .. (k + 1) * MaskLength(capacity) - 1 = {k}
      BY <1>0
    <3>2. QED
      BY <1>1, <3>1 DEF Occupy
  <2>2. MaskTypeOK'
    BY <1>1, <2>1 DEF Occupy, Small, MaskTypeOK, Handles
  <2>3. BytesExact'
    BY <1>1, <2>1 DEF Occupy, Small, MaskTypeOK, BytesExact
  <2>4. QED
    BY <1>1, <2>2, <2>3 DEF Occupy, Small
<1>2. ASSUME NEW k \in Connections, Drop(k) PROVE Small'
  <2>1. MaskTypeOK'
    BY <1>2 DEF Drop, Small, MaskTypeOK, Handles
  <2>2. BytesExact'
    BY <1>2 DEF Drop, Small, MaskTypeOK, BytesExact
  <2>3. QED
    BY <2>1, <2>2 DEF Small
<1>3. ASSUME NEW k \in Connections, NEW c \in CommandChannels, Activate(c, k) PROVE Small'
  <2>1. c \in 0 .. 7 /\ memory' = memory \cup {<<k, c>>}
    <3>1. c \in 0 .. 7
      BY <1>0, <1>3 DEF Activate
    <3>2. CellsOf({c}, k, capacity) = {<<k, d>> : d \in {c}}
      BY <1>0, <3>1, LowCells
    <3>3. QED
      BY <1>3, <3>1, <3>2 DEF Activate
  <2>2. MaskTypeOK'
    <3>1. memory' \subseteq Nat \X (0 .. 7)
      BY <1>0, <2>1 DEF Small, MaskTypeOK
    <3>2. asked[k] \cup {c} \subseteq Handles
      BY <1>3 DEF Activate, Small, MaskTypeOK
    <3>3. asked' \in [Connections -> SUBSET Nat]
          /\ \A j \in Connections : asked'[j] \subseteq Handles
      BY <1>3, <3>2, AskedType DEF Activate, Small
    <3>4. QED
      BY <1>3, <3>1, <3>3 DEF Activate, Small, MaskTypeOK, Handles
  <2>3. BytesExact'
    BY <1>3, <2>1 DEF Activate, Small, MaskTypeOK, BytesExact
  <2>4. QED
    BY <1>3, <2>2, <2>3 DEF Activate, Small
<1>4. ASSUME NEW k \in Connections, NEW c \in CommandChannels, Deactivate(c, k) PROVE Small'
  <2>1. c \in 0 .. 7 /\ memory' = memory \ {<<k, c>>}
    <3>1. c \in 0 .. 7
      BY <1>0, <1>4 DEF Deactivate
    <3>2. CellsOf({c}, k, capacity) = {<<k, d>> : d \in {c}}
      BY <1>0, <3>1, LowCells
    <3>3. QED
      BY <1>4, <3>1, <3>2 DEF Deactivate
  <2>2. MaskTypeOK'
    <3>1. memory' \subseteq Nat \X (0 .. 7)
      BY <1>0, <2>1 DEF Small, MaskTypeOK
    <3>2. asked[k] \ {c} \subseteq Handles
      BY <1>4 DEF Deactivate, Small, MaskTypeOK
    <3>3. asked' \in [Connections -> SUBSET Nat]
          /\ \A j \in Connections : asked'[j] \subseteq Handles
      BY <1>4, <3>2, AskedType DEF Deactivate, Small
    <3>4. QED
      BY <1>4, <3>1, <3>3 DEF Deactivate, Small, MaskTypeOK, Handles
  <2>3. BytesExact'
    BY <1>4, <2>1 DEF Deactivate, Small, MaskTypeOK, BytesExact
  <2>4. QED
    BY <1>4, <2>2, <2>3 DEF Deactivate, Small
<1>5. ASSUME NEW k \in Connections, NEW g \in Groups, ActivateGroup(g, k) PROVE Small'
  <2>1. memory' = (memory \ {<<k, c>> : c \in Handles}) \cup {<<k, c>> : c \in g \cap Handles}
    <3>1. CellsOf(Handles, k, capacity) = {<<k, c>> : c \in Handles}
      BY <1>0, LowCells
    <3>2. CellsOf(g \cap Handles, k, capacity) = {<<k, c>> : c \in g \cap Handles}
      BY <1>0, LowCells
    <3>3. QED
      BY <1>5, <3>1, <3>2 DEF ActivateGroup
  <2>2. MaskTypeOK'
    <3>1. memory' \subseteq Nat \X (0 .. 7)
      <4>1. k \in Nat /\ \A c \in g \cap Handles : c \in 0 .. 7
        BY <1>0
      <4>2. {<<k, c>> : c \in g \cap Handles} \subseteq Nat \X (0 .. 7)
        BY <4>1
      <4>3. memory \subseteq Nat \X (0 .. 7)
        BY DEF Small, MaskTypeOK
      <4>4. QED
        BY <2>1, <4>2, <4>3
    <3>2. asked' \in [Connections -> SUBSET Nat]
          /\ \A j \in Connections : asked'[j] \subseteq Handles
      <4>1. PICK S : S = g \cap Handles
        OBVIOUS
      <4>2. S \subseteq Handles /\ asked' = [asked EXCEPT ![k] = S]
        BY <1>5, <4>1 DEF ActivateGroup
      <4>3. QED
        BY <4>2, AskedType DEF Small
    <3>3. QED
      BY <1>5, <3>1, <3>2 DEF ActivateGroup, Small, MaskTypeOK, Handles
  <2>3. \A c \in 0 .. 7 : <<k, c>> \in memory => c \in Handles
    BY <1>5 DEF ActivateGroup, Small, MaskTypeOK, BytesExact
  <2>4. BytesExact'
    BY <1>0, <1>5, <2>1, <2>3 DEF ActivateGroup, Small, MaskTypeOK, BytesExact
  <2>5. QED
    BY <1>5, <2>2, <2>4 DEF ActivateGroup, Small
<1>6. ASSUME AddChannel PROVE Small'
  <2>1. Handles \subseteq Handles'
    BY <1>6 DEF AddChannel, Small, MaskTypeOK, Handles
  <2>2. nextChannel' \in Nat /\ nextChannel' <= capacity
    BY <1>6 DEF AddChannel, Small, MaskTypeOK
  <2>3. QED
    BY <1>6, <2>1, <2>2 DEF AddChannel, Small, MaskTypeOK, BytesExact
<1>7. ASSUME GrowByOneChannel PROVE Small'
  <2>1. capacity + 1 <= 8 /\ MaskLength(capacity + 1) = 1
    BY <1>0, <1>7, MaskAssumption DEF GrowByOneChannel, MaskLength
  <2>2. memory' = {cell \in (0 .. MaxSlots - 1) \X (0 .. 7) : cell \in memory}
    <3>1. \A m \in Nat : m \div 1 = m /\ m % 1 = 0
      OBVIOUS
    <3>2. memory' = {cell \in (0 .. MaxSlots - 1) \X (0 .. 7) :
                       <<(cell[1] \div 1) * 1 + (cell[1] % 1), cell[2]>> \in memory}
      BY <1>0, <1>7, <2>1, MaskAssumption DEF GrowByOneChannel
    <3>3. QED
      BY <3>1, <3>2, MaskAssumption
  <2>3. MaskTypeOK'
    BY <1>0, <1>7, <2>2, MaskAssumption DEF GrowByOneChannel, Small, MaskTypeOK, Handles
  <2>4. BytesExact'
    BY <1>7, <2>2 DEF GrowByOneChannel, Small, MaskTypeOK, BytesExact, Connections
  <2>5. QED
    BY <1>0, <1>7, <2>1, <2>3, <2>4 DEF GrowByOneChannel, Small
<1>8. ASSUME UNCHANGED maskVars PROVE Small'
  BY <1>8 DEF maskVars, Small, MaskTypeOK, BytesExact, Handles
<1>9. QED
  BY <1>1, <1>2, <1>3, <1>4, <1>5, <1>6, <1>7, <1>8 DEF MaskNext, MaskCommand

(* No step makes the number of channels smaller. *)
LEMMA NextMaskInv == MaskInv /\ [MaskNext]_maskVars => MaskInv'
<1> SUFFICES ASSUME MaskInv, [MaskNext]_maskVars PROVE MaskInv'
  OBVIOUS
<1>1. capacity' = capacity \/ capacity' = capacity + 1
  BY DEF MaskNext, MaskCommand, Occupy, Drop, Activate, Deactivate, ActivateGroup, AddChannel,
         GrowByOneChannel, maskVars
<1>2. capacity' \in Nat /\ (capacity' <= 8 => capacity <= 8)
  BY <1>1 DEF MaskInv
<1>3. QED
  BY <1>2, NextSmall DEF MaskInv

(* With at most eight channels a channel is active for a connection exactly *)
(* when that connection asked for it, whatever the number of connections,   *)
(* their commands, the slots they reuse and the channels added meanwhile.   *)
THEOREM MasksExactUpToEightChannels == MaskSpec => []MaskIsExact
<1>1. MaskInit => MaskInv
  BY InitMaskInv
<1>2. MaskInv /\ [MaskNext]_maskVars => MaskInv'
  BY NextMaskInv
<1>3. MaskInv => MaskIsExact
  BY MaskInvIsExact
<1>4. QED
  BY <1>1, <1>2, <1>3, PTL DEF MaskSpec
-----------------------------------------------------------------------------
(* Nine to sixteen channels: masks of two bytes, in which channel 8 has no *)
(* bit.  Growth from eight channels to nine lays the masks out anew in a   *)
(* way that mixes them up, so it is excluded here.                         *)

(* The bit of channel c, other than channel 8, in the mask of connection k. *)
Cell(c, k) == IF c <= 8 THEN <<2 * k, c>> ELSE <<2 * k + 1, c - 8>>

WithBit == 0 .. 15 \ {8}

WideExact == \A k \in connected, c \in WithBit : Cell(c, k) \in memory <=> c \in asked[k]

Wide == MaskTypeOK /\ capacity \in 9 .. 16 /\ WideExact

WideInv ==
  /\ capacity \in Nat
  /\ capacity <= 8 => Small /\ MaxChannels <= 8
  /\ capacity \in 9 .. 16 => Wide

(* The loop of the code finds that bit. *)
LEMMA WideCell ==
  ASSUME capacity \in 9 .. 16, NEW k \in Connections, NEW c \in 0 .. 15
  PROVE  /\ BitOf(c) = 8 <=> c = 8
         /\ c # 8 => <<ByteAt(c, k, capacity), BitOf(c)>> = Cell(c, k)
<1>1. MaskLength(capacity) = 2 /\ k \in Int
  BY MaskAssumption DEF MaskLength, Connections
<1>2. CASE c \in 0 .. 8
  <2>1. ByteOf(c) = 0
    BY <1>2 DEF ByteOf
  <2>2. QED
    BY <1>1, <1>2, <2>1 DEF BitOf, ByteAt, Cell
<1>3. CASE c \in 9 .. 15
  <2>1. ByteOf(c) = 1
    BY <1>3 DEF ByteOf
  <2>2. QED
    BY <1>1, <1>3, <2>1 DEF BitOf, ByteAt, Cell
<1>4. QED
  BY <1>2, <1>3

(* No two channels, and no two connections, share a bit. *)
LEMMA CellInjective ==
  ASSUME NEW k \in Nat, NEW j \in Nat, NEW c \in WithBit, NEW d \in WithBit,
         Cell(c, k) = Cell(d, j)
  PROVE  c = d /\ k = j
BY DEF Cell, WithBit

LEMMA WideCells ==
  ASSUME capacity \in 9 .. 16, NEW k \in Connections, NEW S \in SUBSET (0 .. 15)
  PROVE  CellsOf(S, k, capacity) = {Cell(c, k) : c \in S \cap WithBit}
<1>1. {d \in S : BitOf(d) # 8} = S \cap WithBit
  BY WideCell DEF WithBit
<1>2. \A c \in S \cap WithBit : <<ByteAt(c, k, capacity), BitOf(c)>> = Cell(c, k)
  BY WideCell DEF WithBit
<1>3. QED
  BY <1>1, <1>2 DEF CellsOf

LEMMA CellType == \A k \in Nat, c \in WithBit : Cell(c, k) \in Nat \X (0 .. 7)
BY DEF Cell, WithBit

(* Which bits a set of channels of connection k has. *)
LEMMA InCells ==
  ASSUME NEW k \in Nat, NEW j \in Nat, NEW S, NEW c \in WithBit
  PROVE  Cell(c, j) \in {Cell(d, k) : d \in S \cap WithBit} <=> j = k /\ c \in S
BY CellInjective

(* A command replaces the bits of S by those of T, and asked accordingly.  *)
LEMMA WideCommand ==
  ASSUME Wide, NEW k \in connected, NEW S, S \subseteq Handles, NEW T, T \subseteq Handles,
         memory' = (memory \ CellsOf(S, k, capacity)) \cup CellsOf(T, k, capacity),
         asked' = [asked EXCEPT ![k] = (@ \ S) \cup T],
         UNCHANGED <<capacity, nextChannel, connected>>
  PROVE  Wide'
<1>0. /\ k \in Connections /\ Connections \subseteq Nat /\ capacity \in 9 .. 16
      /\ Handles \subseteq 0 .. 15 /\ memory \subseteq Nat \X (0 .. 7)
  BY MaskAssumption DEF Wide, MaskTypeOK, Handles, Connections
<1>1. memory' = (memory \ {Cell(d, k) : d \in S \cap WithBit})
                  \cup {Cell(d, k) : d \in T \cap WithBit}
  BY <1>0, WideCells
<1>2. MaskTypeOK'
  <2>1. memory' \subseteq Nat \X (0 .. 7)
    <3>1. {Cell(d, k) : d \in T \cap WithBit} \subseteq Nat \X (0 .. 7)
      BY <1>0, CellType
    <3>2. QED
      BY <1>0, <1>1, <3>1
  <2>2. asked' \in [Connections -> SUBSET Nat]
        /\ \A j \in Connections : asked'[j] \subseteq Handles
    <3>1. PICK A : A = (asked[k] \ S) \cup T
      OBVIOUS
    <3>2. A \subseteq Handles /\ asked' = [asked EXCEPT ![k] = A]
      BY <1>0, <3>1 DEF Wide, MaskTypeOK
    <3>3. QED
      BY <1>0, <3>2, AskedType DEF Wide
  <2>3. QED
    BY <2>1, <2>2 DEF Wide, MaskTypeOK, Handles
<1>3. WideExact'
  <2> SUFFICES ASSUME NEW j \in connected, NEW c \in WithBit
               PROVE  Cell(c, j) \in memory' <=> c \in asked'[j]
    BY DEF WideExact
  <2>1. j \in Connections /\ j \in Nat /\ k \in Nat /\ (Cell(c, j) \in memory <=> c \in asked[j])
    BY <1>0 DEF Wide, WideExact, MaskTypeOK
  <2>2. Cell(c, j) \in memory' <=>
          IF j = k THEN c \in T \/ (Cell(c, j) \in memory /\ c \notin S)
          ELSE Cell(c, j) \in memory
    <3>1. Cell(c, j) \in {Cell(d, k) : d \in S \cap WithBit} <=> j = k /\ c \in S
      BY <2>1, InCells
    <3>2. Cell(c, j) \in {Cell(d, k) : d \in T \cap WithBit} <=> j = k /\ c \in T
      BY <2>1, InCells
    <3>3. QED
      BY <1>1, <3>1, <3>2, Zenon
  <2>3. asked'[j] = IF j = k THEN (asked[k] \ S) \cup T ELSE asked[j]
    BY <1>0, <2>1 DEF Wide, MaskTypeOK
  <2>4. QED
    BY <2>1, <2>2, <2>3
<1>4. QED
  BY <1>2, <1>3 DEF Wide
LEMMA NextWide ==
  ASSUME Wide, [MaskNext]_maskVars, capacity' <= 16
  PROVE  Wide'
<1>0. /\ capacity \in 9 .. 16 /\ Handles \subseteq 0 .. 15
      /\ MaskLength(capacity) = 2 /\ Connections \subseteq Nat /\ connected \subseteq Connections
  BY MaskAssumption DEF Wide, MaskTypeOK, Handles, MaskLength, Connections
<1>1. ASSUME NEW k \in Connections, Occupy(k) PROVE Wide'
  <2>1. memory' = {cell \in memory : cell[1] # 2 * k /\ cell[1] # 2 * k + 1}
    <3>1. k * MaskLength(capacity) .. (k + 1) * MaskLength(capacity) - 1 = {2 * k, 2 * k + 1}
      BY <1>0
    <3>2. QED
      BY <1>1, <3>1 DEF Occupy
  <2>2. MaskTypeOK'
    BY <1>1, <2>1 DEF Occupy, Wide, MaskTypeOK, Handles
  <2>3. WideExact'
    <3> SUFFICES ASSUME NEW j \in connected', NEW c \in WithBit
                 PROVE  Cell(c, j) \in memory' <=> c \in asked'[j]
      BY DEF WideExact
    <3>1. j \in Nat /\ k \in Nat /\ j \in Connections
      BY <1>0, <1>1 DEF Occupy
    <3>2. CASE j = k
      <4>1. Cell(c, k)[1] = 2 * k \/ Cell(c, k)[1] = 2 * k + 1
        BY DEF Cell
      <4>2. asked'[k] = {}
        BY <1>1 DEF Occupy, Wide, MaskTypeOK
      <4>3. QED
        BY <2>1, <3>2, <4>1, <4>2
    <3>3. CASE j # k
      <4>1. Cell(c, j)[1] # 2 * k /\ Cell(c, j)[1] # 2 * k + 1
        BY <3>1, <3>3 DEF Cell
      <4>2. asked'[j] = asked[j] /\ j \in connected
        BY <1>1, <3>1, <3>3 DEF Occupy, Wide, MaskTypeOK
      <4>3. QED
        BY <2>1, <4>1, <4>2 DEF Wide, WideExact
    <3>4. QED
      BY <3>2, <3>3
  <2>4. QED
    BY <1>0, <1>1, <2>2, <2>3 DEF Occupy, Wide
<1>2. ASSUME NEW k \in Connections, Drop(k) PROVE Wide'
  <2>1. MaskTypeOK'
    BY <1>2 DEF Drop, Wide, MaskTypeOK, Handles
  <2>2. WideExact'
    BY <1>2 DEF Drop, Wide, MaskTypeOK, WideExact
  <2>3. QED
    BY <1>2, <2>1, <2>2 DEF Drop, Wide
<1>3. ASSUME NEW k \in Connections, NEW c \in CommandChannels, Activate(c, k) PROVE Wide'
  <2>1. PICK T, E : T = {c} /\ E = {}
    OBVIOUS
  <2>2. CellsOf(E, k, capacity) = {}
    BY <2>1 DEF CellsOf
  <2>3. memory' = (memory \ CellsOf(E, k, capacity)) \cup CellsOf(T, k, capacity)
    BY <1>3, <2>1, <2>2 DEF Activate
  <2>4. asked' = [asked EXCEPT ![k] = (@ \ E) \cup T]
    <3>1. (asked[k] \ E) \cup T = asked[k] \cup {c}
      BY <2>1
    <3>2. QED
      BY <1>3, <3>1 DEF Activate
  <2>5. E \subseteq Handles /\ T \subseteq Handles
    BY <1>3, <2>1 DEF Activate
  <2>6. QED
    BY <1>3, <2>3, <2>4, <2>5, WideCommand DEF Activate
<1>4. ASSUME NEW k \in Connections, NEW c \in CommandChannels, Deactivate(c, k) PROVE Wide'
  <2>1. PICK S, E : S = {c} /\ E = {}
    OBVIOUS
  <2>2. CellsOf(E, k, capacity) = {}
    BY <2>1 DEF CellsOf
  <2>3. memory' = (memory \ CellsOf(S, k, capacity)) \cup CellsOf(E, k, capacity)
    BY <1>4, <2>1, <2>2 DEF Deactivate
  <2>4. asked' = [asked EXCEPT ![k] = (@ \ S) \cup E]
    <3>1. (asked[k] \ S) \cup E = asked[k] \ {c}
      BY <2>1
    <3>2. QED
      BY <1>4, <3>1 DEF Deactivate
  <2>5. S \subseteq Handles /\ E \subseteq Handles
    BY <1>4, <2>1 DEF Deactivate
  <2>6. QED
    BY <1>4, <2>3, <2>4, <2>5, WideCommand DEF Deactivate
<1>5. ASSUME NEW k \in Connections, NEW g \in Groups, ActivateGroup(g, k) PROVE Wide'
  <2>1. PICK T : T = g \cap Handles
    OBVIOUS
  <2>2. asked[k] \ Handles = {} /\ T \subseteq Handles
    BY <2>1 DEF Wide, MaskTypeOK
  <2>3. asked' = [asked EXCEPT ![k] = (@ \ Handles) \cup T]
    <3>1. (asked[k] \ Handles) \cup T = T
      BY <2>2
    <3>2. QED
      BY <1>5, <2>1, <3>1 DEF ActivateGroup
  <2>4. memory' = (memory \ CellsOf(Handles, k, capacity)) \cup CellsOf(T, k, capacity)
    BY <1>5, <2>1 DEF ActivateGroup
  <2>5. QED
    BY <1>5, <2>2, <2>3, <2>4, WideCommand DEF ActivateGroup
<1>6. ASSUME AddChannel PROVE Wide'
  <2>1. Handles \subseteq Handles'
    BY <1>6 DEF AddChannel, Wide, MaskTypeOK, Handles
  <2>2. nextChannel' \in Nat /\ nextChannel' <= capacity
    BY <1>6 DEF AddChannel, Wide, MaskTypeOK
  <2>3. QED
    BY <1>6, <2>1, <2>2 DEF AddChannel, Wide, MaskTypeOK, WideExact
<1>7. ASSUME GrowByOneChannel PROVE Wide'
  <2>1. capacity + 1 \in 9 .. 16 /\ MaskLength(capacity + 1) = 2
    BY <1>0, <1>7 DEF GrowByOneChannel, MaskLength
  <2>2. memory' = {cell \in (0 .. MaxSlots * 2 - 1) \X (0 .. 7) : cell \in memory}
    <3>1. \A m \in Nat : (m \div 2) * 2 + (m % 2) = m
      OBVIOUS
    <3>2. memory' = {cell \in (0 .. MaxSlots * 2 - 1) \X (0 .. 7) :
                       <<(cell[1] \div 2) * 2 + (cell[1] % 2), cell[2]>> \in memory}
      BY <1>0, <1>7, <2>1 DEF GrowByOneChannel
    <3>3. QED
      BY <3>1, <3>2, MaskAssumption
  <2>3. MaskTypeOK'
    BY <1>0, <1>7, <2>2, MaskAssumption DEF GrowByOneChannel, Wide, MaskTypeOK, Handles
  <2>4. \A k \in connected, c \in WithBit :
          Cell(c, k) \in (0 .. MaxSlots * 2 - 1) \X (0 .. 7)
    <3> SUFFICES ASSUME NEW k \in connected, NEW c \in WithBit
                 PROVE  Cell(c, k) \in (0 .. MaxSlots * 2 - 1) \X (0 .. 7)
      OBVIOUS
    <3>1. k \in Nat /\ k <= MaxSlots - 1 /\ MaxSlots \in Nat
      BY <1>0, MaskAssumption DEF Connections
    <3>2. 2 * k \in 0 .. MaxSlots * 2 - 1 /\ 2 * k + 1 \in 0 .. MaxSlots * 2 - 1
      BY <3>1
    <3>3. QED
      BY <3>2 DEF Cell, WithBit
  <2>5. WideExact'
    BY <1>7, <2>2, <2>4 DEF GrowByOneChannel, Wide, WideExact
  <2>6. QED
    BY <1>7, <2>1, <2>3, <2>5 DEF GrowByOneChannel, Wide
<1>8. ASSUME UNCHANGED maskVars PROVE Wide'
  BY <1>8 DEF maskVars, Wide, MaskTypeOK, WideExact, Handles
<1>9. QED
  BY <1>1, <1>2, <1>3, <1>4, <1>5, <1>6, <1>7, <1>8 DEF MaskNext, MaskCommand

(* The combined invariant, for block sizes that growth does not take from  *)
(* eight channels to nine.                                                 *)
LEMMA InitWideInv ==
  ASSUME \A s \in StartSizes : s <= 8 => MaxChannels <= 8
  PROVE  MaskInit => WideInv
<1> SUFFICES ASSUME MaskInit PROVE WideInv
  OBVIOUS
<1>1. capacity \in StartSizes /\ capacity \in Nat /\ connected = {}
  BY MaskAssumption DEF MaskInit
<1>2. capacity <= 8 => Small
  BY InitMaskInv DEF MaskInv
<1>3. MaskTypeOK /\ WideExact
  BY MaskAssumption DEF MaskInit, MaskTypeOK, WideExact, Handles
<1>4. QED
  BY <1>1, <1>2, <1>3 DEF WideInv, Wide

LEMMA NextWideInv == WideInv /\ [MaskNext]_maskVars => WideInv'
<1> SUFFICES ASSUME WideInv, [MaskNext]_maskVars PROVE WideInv'
  OBVIOUS
<1>1. capacity' = capacity \/ (capacity' = capacity + 1 /\ capacity < MaxChannels)
  BY DEF MaskNext, MaskCommand, Occupy, Drop, Activate, Deactivate, ActivateGroup, AddChannel,
         GrowByOneChannel, maskVars
<1>2. capacity \in Nat /\ capacity' \in Nat
  BY <1>1 DEF WideInv
<1>3. CASE capacity <= 8
  <2>1. capacity' <= 8
    BY <1>1, <1>2, <1>3, MaskAssumption DEF WideInv
  <2>2. QED
    BY <1>2, <1>3, <2>1, NextSmall DEF WideInv
<1>4. CASE capacity \in 9 .. 16
  <2>1. capacity' > 8
    BY <1>1, <1>4
  <2>2. QED
    BY <1>2, <1>4, <2>1, NextWide DEF WideInv
<1>5. CASE capacity > 16
  BY <1>1, <1>2, <1>5 DEF WideInv
<1>6. QED
  BY <1>2, <1>3, <1>4, <1>5

LEMMA WideInvMaskIsExact == WideInv => MaskIsExactSaveEighths
<1> SUFFICES ASSUME WideInv, capacity <= 16, NEW k \in connected, NEW c \in Handles,
                    BitOf(c) # 8
             PROVE  IsActive(c, k) <=> c \in asked[k]
  BY DEF MaskIsExactSaveEighths
<1>1. CASE capacity <= 8
  <2>1. MaskInv
    BY <1>1 DEF WideInv, MaskInv
  <2>2. QED
    BY <1>1, <2>1, MaskInvIsExact DEF MaskIsExact
<1>2. CASE capacity > 8
  <2>1. Wide /\ capacity \in 9 .. 16 /\ k \in Connections /\ c \in 0 .. 15
    BY <1>2 DEF WideInv, Wide, MaskTypeOK, Handles
  <2>2. c \in WithBit /\ <<ByteAt(c, k, capacity), BitOf(c)>> = Cell(c, k)
    BY <2>1, WideCell DEF WithBit
  <2>3. IsActive(c, k) <=> Cell(c, k) \in memory
    BY <2>2 DEF IsActive, BitSet
  <2>4. QED
    BY <2>1, <2>2, <2>3 DEF Wide, WideExact
<1>3. QED
  BY <1>1, <1>2 DEF WideInv

(* With at most sixteen channels, and no growth from eight to nine, every  *)
(* channel but 8 and 16, which have no bit, is active for a connection     *)
(* exactly when that connection asked for it.                              *)
THEOREM MasksExactUpToSixteenChannels ==
  ASSUME \A s \in StartSizes : s <= 8 => MaxChannels <= 8
  PROVE  MaskSpec => []MaskIsExactSaveEighths
<1>1. MaskInit => WideInv
  BY InitWideInv
<1>2. WideInv /\ [MaskNext]_maskVars => WideInv'
  BY NextWideInv
<1>3. WideInv => MaskIsExactSaveEighths
  BY WideInvMaskIsExact
<1>4. QED
  BY <1>1, <1>2, <1>3, PTL DEF MaskSpec
=============================================================================
