----------------------------- MODULE ClientProofs -----------------------------
(***************************************************************************)
(* For any servers, any number of connections, commands and messages: the  *)
(* client ends up with the registrations of the server it is connected to, *)
(* never handles data of a channel it has not installed, marks the         *)
(* channels the server sends, and shows every text, as long as packets are *)
(* parsed as they were sent.  IInv is about the packets on their way,      *)
(* TalkInv about the commands.                                             *)
(***************************************************************************)
EXTENDS Client, FiniteSetTheorems, WellFoundedInduction, SequenceTheorems, TLAPS

PacketSet ==
  [kind : {"text", "data", "none"}, what : Int]
    \cup [kind : {"registration"}, channels : 0 .. MaxChannels, controls : Seq(ControlTypes)]

IsRegistration(p) == p.kind = "registration"

(* No registration packet of s stands at lo .. hi. *)
NoneIn(s, lo, hi) == \A l \in lo .. hi : ~ IsRegistration(s[l])

Typed ==
  /\ inbox \in Seq(PacketSet) /\ old \in Seq(PacketSet) /\ unhandled \in Seq(PacketSet)
  /\ server \in Registered /\ mask \subseteq 0 .. server.channels - 1
  /\ channels \in Nat /\ sends \in Nat
  /\ connection \in Nat /\ table \in 0 .. connection

(* What the client has, or the last registration packet it is going to     *)
(* get, is what the server has registered.                                 *)
CaughtUp == connected /\ ~cut =>
  /\ \A i \in 1 .. Len(inbox) :
       IsRegistration(inbox[i]) /\ NoneIn(inbox, i + 1, Len(inbox)) => inbox[i] = Registration(server)
  /\ NoneIn(inbox, 1, Len(inbox)) =>
       table = connection /\ channels = server.channels /\ controls = Installed(server.controls)

(* A data packet is of a channel that is registered by the registration    *)
(* packet before it, or that the client has if there is none.              *)
Bounded == connected /\ ~cut => \A i \in 1 .. Len(inbox) : inbox[i].kind = "data" =>
  /\ NoneIn(inbox, 1, i) => inbox[i].what < channels
  /\ \A j \in 1 .. i : IsRegistration(inbox[j]) /\ NoneIn(inbox, j + 1, i) =>
       inbox[i].what < inbox[j].channels

(* Packets are put aside only while nothing is installed. *)
AsideForNothing == unhandled # << >> => channels = 0 /\ controls = << >>

(* What earlier connections left is handled before this connection's       *)
(* registrations.                                                          *)
OldFirst == connected =>
  /\ connection > 0
  /\ old # << >> =>
       /\ table # connection
       /\ ~cut => Len(inbox) > 0 /\ IsRegistration(inbox[1])

IInv == Typed /\ CaughtUp /\ Bounded /\ OldFirst /\ AsideForNothing /\ NoStrayHandle

-----------------------------------------------------------------------------
LEMMA PacketKinds ==
  /\ \A w \in Int : \A k \in {"text", "data", "none"} :
       /\ Packet(k, w) \in PacketSet /\ Packet(k, w).kind = k /\ Packet(k, w).what = w
       /\ ~ IsRegistration(Packet(k, w))
  /\ \A s \in Registered :
       /\ Registration(s) \in PacketSet /\ IsRegistration(Registration(s))
       /\ Registration(s).channels = s.channels /\ Registration(s).controls = s.controls
       /\ Registration(s).kind # "data" /\ s.channels \in Nat
  /\ \A p \in PacketSet : p.kind = "data" => p.what \in Int
  /\ \A p \in PacketSet : IsRegistration(p) => p.channels \in Nat
<1>1. \A p \in PacketSet : (p.kind = "data" => p.what \in Int) /\ (IsRegistration(p) => p.channels \in Nat)
  BY ClientAssumption DEF PacketSet, IsRegistration
<1>2. ASSUME NEW s \in Registered
      PROVE  /\ Registration(s) \in PacketSet /\ IsRegistration(Registration(s))
             /\ Registration(s).channels = s.channels /\ Registration(s).controls = s.controls
             /\ Registration(s).kind # "data" /\ s.channels \in Nat
  BY ClientAssumption DEF Registered, Registration, PacketSet, IsRegistration
<1>3. ASSUME NEW w \in Int, NEW k \in {"text", "data", "none"}
      PROVE  /\ Packet(k, w) \in PacketSet /\ Packet(k, w).kind = k /\ Packet(k, w).what = w
             /\ ~ IsRegistration(Packet(k, w))
  BY DEF Packet, PacketSet, IsRegistration
<1>4. QED
  BY <1>1, <1>2, <1>3

(* A nonempty set of positions has a last one. *)
LEMMA LastExists ==
  ASSUME NEW n \in Nat, NEW S \in SUBSET (1 .. n), S # {}
  PROVE  \E i \in S : \A j \in S : i >= j
<1> DEFINE R == {ss \in Nat \X Nat : ss[1] < ss[2]}
           T == {n - i : i \in S}
<1>1. IsWellFoundedOn(R, Nat)
  BY NatLessThanWellFounded, Zenon DEF OpToRel
<1>2. T \subseteq Nat /\ T # {}
  <2>1. \A i \in S : n - i \in Nat
    OBVIOUS
  <2>2. PICK i \in S : TRUE
    OBVIOUS
  <2>3. n - i \in T
    BY <2>2
  <2>4. QED
    BY <2>1, <2>3
<1>3. PICK t \in T : \A u \in T : ~ (<<u, t>> \in R)
  BY <1>1, <1>2, WFMin
<1>4. PICK i \in S : t = n - i
  OBVIOUS
<1>5. ASSUME NEW j \in S, j > i PROVE FALSE
  <2>1. n - j \in T /\ n - j \in Nat /\ t \in Nat /\ n - j < t
    BY <1>2, <1>4, <1>5
  <2>2. <<n - j, t>> \in R
    BY <2>1
  <2>3. QED
    BY <1>3, <2>1, <2>2
<1>6. QED
  BY <1>5

LEMMA LastRegistrationIsLast ==
  ASSUME NEW s \in Seq(PacketSet), NEW r, r = LastRegistration(s)
  PROVE  /\ r \in 0 .. Len(s) /\ NoneIn(s, r + 1, Len(s))
         /\ r > 0 => IsRegistration(s[r])
<1> DEFINE S == {i \in 1 .. Len(s) : IsRegistration(s[i])}
<1>1. r = IF S # {} THEN Max(S) ELSE 0
  BY Zenon DEF LastRegistration, SelectLastInSeq, IsRegistration
<1>2. S \in SUBSET (1 .. Len(s)) /\ Len(s) \in Nat
  OBVIOUS
<1>3. CASE S = {}
  BY <1>1, <1>2, <1>3 DEF NoneIn
<1>4. CASE S # {}
  <2>1. \E i \in S : \A j \in S : i >= j
    BY <1>2, <1>4, LastExists
  <2>2. Max(S) \in S /\ \A j \in S : Max(S) >= j
    BY <2>1, Zenon DEF Max
  <2>3. r \in S /\ \A j \in S : r >= j
    BY <1>1, <1>4, <2>2
  <2>4. QED
    BY <2>3, <1>2 DEF NoneIn
<1>5. QED
  BY <1>3, <1>4

-----------------------------------------------------------------------------
(* The server sends a packet: registrations if it registers something.     *)
LEMMA SentKeeps ==
  ASSUME IInv, connected, ~cut, NEW p \in PacketSet, inbox' = Append(inbox, p),
         UNCHANGED <<connected, cut, old, connection, channels, controls, table, unhandled, stray>>,
         server' \in Registered, mask' \subseteq 0 .. server'.channels - 1, sends' \in Nat,
         IsRegistration(p) => p = Registration(server'),
         ~ IsRegistration(p) => UNCHANGED server,
         p.kind = "data" => p.what \in mask
  PROVE  IInv'
<1> USE DEF IInv
<1> DEFINE n == Len(inbox)
<1>1. inbox \in Seq(PacketSet) /\ n \in Nat
  BY DEF Typed
<1>2. /\ inbox' \in Seq(PacketSet) /\ Len(inbox') = n + 1 /\ inbox'[n + 1] = p
      /\ \A i \in 1 .. n : inbox'[i] = inbox[i]
  BY <1>1
<1> HIDE DEF n
<1>3. Typed'
  BY <1>2 DEF Typed
<1>4. CaughtUp'
  <2>1. ASSUME NEW i \in 1 .. n + 1, IsRegistration(inbox'[i]), NoneIn(inbox', i + 1, n + 1)
        PROVE  inbox'[i] = Registration(server')
    <3>1. CASE i = n + 1
      BY <1>2, <2>1, <3>1
    <3>2. CASE i # n + 1
      <4>1. i \in 1 .. n /\ n + 1 \in i + 1 .. n + 1
        BY <1>1, <3>2
      <4>2. ~ IsRegistration(p)
        BY <1>2, <2>1, <4>1 DEF NoneIn
      <4>3. NoneIn(inbox, i + 1, n) /\ IsRegistration(inbox[i])
        BY <1>1, <1>2, <2>1, <4>1 DEF NoneIn
      <4>4. inbox[i] = Registration(server)
        BY <4>1, <4>3 DEF CaughtUp, n
      <4>5. QED
        BY <1>2, <4>1, <4>2, <4>4
    <3>3. QED
      BY <3>1, <3>2
  <2>2. ASSUME NoneIn(inbox', 1, n + 1)
        PROVE  table = connection /\ channels = server'.channels /\ controls = Installed(server'.controls)
    <3>1. n + 1 \in 1 .. n + 1
      BY <1>1
    <3>2. ~ IsRegistration(p) /\ NoneIn(inbox, 1, n)
      BY <1>1, <1>2, <2>2, <3>1 DEF NoneIn
    <3>3. QED
      BY <3>2 DEF CaughtUp, n
  <2>3. QED
    BY <1>2, <2>1, <2>2 DEF CaughtUp
<1>5. Bounded'
  <2> SUFFICES ASSUME NEW i \in 1 .. n + 1, inbox'[i].kind = "data"
               PROVE  /\ NoneIn(inbox', 1, i) => inbox'[i].what < channels
                      /\ \A j \in 1 .. i : IsRegistration(inbox'[j]) /\ NoneIn(inbox', j + 1, i) =>
                           inbox'[i].what < inbox'[j].channels
    BY <1>2 DEF Bounded
  <2>1. CASE i # n + 1
    <3>1. i \in 1 .. n /\ inbox'[i] = inbox[i] /\ \A j \in 1 .. i : inbox'[j] = inbox[j] /\ j \in 1 .. n
      BY <1>1, <1>2, <2>1
    <3>2. NoneIn(inbox', 1, i) => NoneIn(inbox, 1, i)
      BY <3>1 DEF NoneIn
    <3>3. \A j \in 1 .. i : NoneIn(inbox', j + 1, i) => NoneIn(inbox, j + 1, i)
      <4> SUFFICES ASSUME NEW j \in 1 .. i, NoneIn(inbox', j + 1, i), NEW l \in j + 1 .. i
                   PROVE  ~ IsRegistration(inbox[l])
        BY DEF NoneIn
      <4>1. l \in 1 .. i
        BY <1>1
      <4>2. ~ IsRegistration(inbox'[l]) /\ inbox'[l] = inbox[l]
        BY <3>1, <4>1 DEF NoneIn
      <4>3. QED
        BY <4>2
    <3>4. QED
      BY <3>1, <3>2, <3>3 DEF Bounded, n
  <2>2. CASE i = n + 1
    <3>1. inbox'[i] = p /\ p.kind = "data" /\ p.what \in mask /\ ~ IsRegistration(p)
      BY <1>2, <2>2 DEF IsRegistration
    <3>2. p.what \in Int /\ server.channels \in Nat /\ p.what < server.channels
      BY <3>1, PacketKinds DEF Typed
    <3>3. ASSUME NoneIn(inbox', 1, i) PROVE p.what < channels
      <4>1. NoneIn(inbox, 1, n)
        BY <1>1, <1>2, <2>2, <3>3 DEF NoneIn
      <4>2. channels = server.channels
        BY <4>1 DEF CaughtUp, n
      <4>3. QED
        BY <3>2, <4>2
    <3>4. ASSUME NEW j \in 1 .. i, IsRegistration(inbox'[j]), NoneIn(inbox', j + 1, i)
          PROVE  p.what < inbox'[j].channels
      <4>1. j \in 1 .. n /\ inbox'[j] = inbox[j]
        BY <1>1, <1>2, <2>2, <3>1, <3>4
      <4>2. NoneIn(inbox, j + 1, n)
        BY <1>1, <1>2, <2>2, <3>4, <4>1 DEF NoneIn
      <4>3. inbox[j] = Registration(server)
        BY <3>4, <4>1, <4>2 DEF CaughtUp, n
      <4>4. Registration(server).channels = server.channels
        BY PacketKinds DEF Typed
      <4>5. QED
        BY <3>2, <4>1, <4>3, <4>4
    <3>5. QED
      BY <3>1, <3>3, <3>4
  <2>3. QED
    BY <2>1, <2>2
<1>6. AsideForNothing' /\ NoStrayHandle'
  BY DEF AsideForNothing, NoStrayHandle
<1>7. OldFirst'
  <2>1. Len(inbox) > 0 => Len(inbox') > 0 /\ inbox'[1] = inbox[1]
    BY <1>1, <1>2 DEF n
  <2>2. QED
    BY <2>1 DEF OldFirst
<1>8. QED
  BY <1>3, <1>4, <1>5, <1>6, <1>7

(* The server sends a part of a packet, or something behind one: what      *)
(* comes is anything.                                                      *)
LEMMA JunkKeeps ==
  ASSUME IInv, connected, cut', NEW junk \in Junk, inbox' = inbox \o junk,
         UNCHANGED <<connected, old, connection, channels, controls, table, unhandled, stray>>,
         server' \in Registered, mask' \subseteq 0 .. server'.channels - 1, sends' \in Nat
  PROVE  IInv'
<1> USE DEF IInv
<1>1. junk \in Seq(PacketSet)
  <2>1. Packet("data", MaxChannels) \in PacketSet
    BY PacketKinds, ClientAssumption
  <2>2. << >> \in Seq(PacketSet) /\ <<Packet("data", MaxChannels)>> \in Seq(PacketSet)
    BY <2>1
  <2>3. QED
    BY <2>2 DEF Junk
<1>2. inbox' \in Seq(PacketSet)
  BY <1>1, ConcatProperties DEF Typed
<1>3. Typed'
  BY <1>2 DEF Typed
<1>4. CaughtUp' /\ Bounded' /\ OldFirst'
  BY DEF CaughtUp, Bounded, OldFirst
<1>5. AsideForNothing' /\ NoStrayHandle'
  BY DEF AsideForNothing, NoStrayHandle
<1>6. QED
  BY <1>3, <1>4, <1>5

LEMMA InstallTypes ==
  ASSUME Typed, NEW packets \in Seq(PacketSet), NEW r, r = LastRegistration(packets),
         Install(packets, r)
  PROVE  /\ channels' \in Nat /\ r \in 0 .. Len(packets)
         /\ r > 0 => table' = TableNow /\ IsRegistration(packets[r])
         /\ r = 0 => UNCHANGED <<channels, controls, table>>
<1>1. r \in 0 .. Len(packets) /\ (r > 0 => IsRegistration(packets[r]))
  BY LastRegistrationIsLast, Zenon
<1>2. CASE r = 0
  BY <1>1, <1>2 DEF Install, Typed
<1>3. CASE r > 0
  <2>1. packets[r] \in PacketSet
    BY <1>1, <1>3
  <2>2. packets[r].channels \in Nat
    BY <1>1, <1>3, <2>1, PacketKinds
  <2>3. QED
    BY <1>1, <1>3, <2>2 DEF Install
<1>4. QED
  BY <1>1, <1>2, <1>3

(* Update takes the first n packets and installs the last registrations    *)
(* among them, those at r.                                                 *)
LEMMA TakenKeeps ==
  ASSUME IInv, connected, ~cut, NEW n \in 0 .. Len(inbox), n > 0 => old = << >>,
         NEW packets, packets = SubSeq(inbox, 1, n),
         NEW r, r = LastRegistration(packets),
         inbox' = SubSeq(inbox, n + 1, Len(inbox)), Install(packets, r),
         UNCHANGED <<connected, cut, connection, server, mask, sends>>
  PROVE  /\ inbox' \in Seq(PacketSet) /\ channels' \in Nat
         /\ packets \in Seq(PacketSet) /\ r \in 0 .. n /\ Len(packets) = n
         /\ CaughtUp' /\ Bounded'
         /\ \A i \in r + 1 .. n : packets[i].kind = "data" => packets[i].what < channels'
<1> USE DEF IInv
<1> DEFINE m == Len(inbox)
<1>1. inbox \in Seq(PacketSet) /\ m \in Nat /\ n \in 0 .. m
  BY DEF Typed
<1>2. packets \in Seq(PacketSet) /\ Len(packets) = n /\ \A i \in 1 .. n : packets[i] = inbox[i]
  BY <1>1
<1>3. /\ inbox' \in Seq(PacketSet) /\ Len(inbox') = m - n
      /\ \A i \in 1 .. m - n : inbox'[i] = inbox[n + i]
  BY <1>1
<1> HIDE DEF m
<1>4. r \in 0 .. n /\ NoneIn(inbox, r + 1, n) /\ (r > 0 => IsRegistration(inbox[r]))
  <2>1. /\ r \in 0 .. Len(packets) /\ NoneIn(packets, r + 1, Len(packets))
        /\ r > 0 => IsRegistration(packets[r])
    BY <1>2, LastRegistrationIsLast, Zenon
  <2>2. r \in 0 .. n /\ NoneIn(packets, r + 1, n)
    BY <1>2, <2>1
  <2>3. \A l \in r + 1 .. n : l \in 1 .. n
    BY <1>1, <2>2
  <2>4. NoneIn(inbox, r + 1, n)
    BY <1>2, <2>2, <2>3 DEF NoneIn
  <2>5. r > 0 => r \in 1 .. n
    BY <1>1, <2>2
  <2>6. QED
    BY <1>2, <2>1, <2>2, <2>4, <2>5
<1>5. \A i \in 1 .. m - n : n + i \in 1 .. m
  BY <1>1
<1>6. \A lo \in 1 .. m - n + 1, hi \in 0 .. m - n : NoneIn(inbox', lo, hi) => NoneIn(inbox, n + lo, n + hi)
  <2> SUFFICES ASSUME NEW lo \in 1 .. m - n + 1, NEW hi \in 0 .. m - n, NoneIn(inbox', lo, hi),
                      NEW l \in n + lo .. n + hi
               PROVE  ~ IsRegistration(inbox[l])
    BY DEF NoneIn
  <2>1. l - n \in lo .. hi /\ l - n \in 1 .. m - n /\ n + (l - n) = l
    BY <1>1
  <2>2. inbox'[l - n] = inbox[l]
    BY <1>3, <2>1
  <2>3. QED
    BY <2>1, <2>2 DEF NoneIn
<1>7. \A i \in 0 .. m - n : NoneIn(inbox', 1, i) => NoneIn(inbox, r + 1, n + i)
  <2> SUFFICES ASSUME NEW i \in 0 .. m - n, NoneIn(inbox', 1, i), NEW l \in r + 1 .. n + i
               PROVE  ~ IsRegistration(inbox[l])
    BY DEF NoneIn
  <2>1. NoneIn(inbox, n + 1, n + i)
    BY <1>1, <1>6
  <2>2. l \in r + 1 .. n \/ l \in n + 1 .. n + i
    BY <1>1, <1>4
  <2>3. QED
    BY <1>4, <2>1, <2>2 DEF NoneIn
<1>8. /\ r > 0 => channels' = inbox[r].channels /\ controls' = Installed(inbox[r].controls) /\ table' = connection
      /\ r = 0 => UNCHANGED <<channels, controls, table>>
  <2>1. r > 0 => TableNow = connection
    BY <1>1, <1>4 DEF TableNow
  <2>2. QED
    BY <1>2, <1>4, <2>1 DEF Install
<1>9. r > 0 => r \in 1 .. m /\ inbox[r] \in PacketSet /\ IsRegistration(inbox[r])
  BY <1>1, <1>4
<1>10. channels' \in Nat
  BY <1>4, <1>8, <1>9, PacketKinds DEF Typed
<1>11. CaughtUp'
  <2>1. ASSUME NEW i \in 1 .. m - n, IsRegistration(inbox'[i]), NoneIn(inbox', i + 1, m - n)
        PROVE  inbox'[i] = Registration(server)
    <3>1. NoneIn(inbox, n + (i + 1), n + (m - n)) /\ n + (i + 1) = (n + i) + 1 /\ n + (m - n) = m
      BY <1>1, <1>6, <2>1
    <3>2. n + i \in 1 .. m /\ inbox'[i] = inbox[n + i] /\ NoneIn(inbox, (n + i) + 1, m)
      BY <1>3, <1>5, <3>1
    <3>3. QED
      BY <2>1, <3>2 DEF CaughtUp, m
  <2>2. ASSUME NoneIn(inbox', 1, m - n)
        PROVE  table' = connection /\ channels' = server.channels /\ controls' = Installed(server.controls)
    <3>1. NoneIn(inbox, r + 1, n + (m - n)) /\ n + (m - n) = m
      BY <1>1, <1>7, <2>2
    <3>2. CASE r > 0
      <4>1. inbox[r] = Registration(server)
        BY <1>9, <3>1, <3>2 DEF CaughtUp, m
      <4>2. inbox[r].channels = server.channels /\ inbox[r].controls = server.controls
        BY <4>1, PacketKinds DEF Typed
      <4>3. QED
        BY <1>8, <3>2, <4>2
    <3>3. CASE r = 0
      <4>1. NoneIn(inbox, 1, m)
        BY <3>1, <3>3
      <4>2. QED
        BY <1>8, <3>3, <4>1 DEF CaughtUp, m
    <3>4. QED
      BY <1>4, <3>2, <3>3
  <2>3. QED
    BY <1>3, <2>1, <2>2 DEF CaughtUp
<1>12. ASSUME NEW k \in 1 .. m, inbox[k].kind = "data", k > r, NoneIn(inbox, r + 1, k)
       PROVE  inbox[k].what < channels'
  <2>1. CASE r > 0
    <3>1. r \in 1 .. k
      BY <1>1, <1>9, <1>12, <2>1
    <3>2. inbox[k].what < inbox[r].channels
      BY <1>9, <1>12, <2>1, <3>1 DEF Bounded, m
    <3>3. QED
      BY <1>8, <2>1, <3>2
  <2>2. CASE r = 0
    BY <1>8, <1>12, <2>2 DEF Bounded, m
  <2>3. QED
    BY <1>4, <2>1, <2>2
<1>13. Bounded'
  <2> SUFFICES ASSUME NEW i \in 1 .. m - n, inbox'[i].kind = "data"
               PROVE  /\ NoneIn(inbox', 1, i) => inbox'[i].what < channels'
                      /\ \A j \in 1 .. i : IsRegistration(inbox'[j]) /\ NoneIn(inbox', j + 1, i) =>
                           inbox'[i].what < inbox'[j].channels
    BY <1>3 DEF Bounded
  <2>1. n + i \in 1 .. m /\ inbox'[i] = inbox[n + i] /\ n + i > r
    BY <1>1, <1>3, <1>4, <1>5, SMTT(30)
  <2>2. ASSUME NoneIn(inbox', 1, i) PROVE inbox'[i].what < channels'
    <3>1. NoneIn(inbox, r + 1, n + i)
      BY <1>1, <1>7, <2>2
    <3>2. QED
      BY <1>12, <2>1, <3>1
  <2>3. ASSUME NEW j \in 1 .. i, IsRegistration(inbox'[j]), NoneIn(inbox', j + 1, i)
        PROVE  inbox'[i].what < inbox'[j].channels
    <3>1. j \in 1 .. m - n /\ j + 1 \in 1 .. m - n + 1 /\ n + j \in 1 .. n + i /\ n + (j + 1) = (n + j) + 1
      BY <1>1, SMTT(30)
    <3>2. inbox'[j] = inbox[n + j]
      BY <1>3, <3>1
    <3>3. NoneIn(inbox, (n + j) + 1, n + i)
      BY <1>1, <1>6, <2>3, <3>1
    <3>4. QED
      BY <2>1, <2>3, <3>1, <3>2, <3>3 DEF Bounded, m
  <2>4. QED
    BY <2>2, <2>3
<1>14. ASSUME NEW i \in r + 1 .. n, packets[i].kind = "data" PROVE packets[i].what < channels'
  <2>1. i \in 1 .. n /\ i \in 1 .. m /\ i > r /\ packets[i] = inbox[i]
    BY <1>1, <1>2, <1>4
  <2>2. NoneIn(inbox, r + 1, i)
    BY <1>1, <1>4, <2>1 DEF NoneIn
  <2>3. QED
    BY <1>12, <1>14, <2>1, <2>2
<1>15. QED
  BY <1>2, <1>3, <1>4, <1>10, <1>11, <1>13, <1>14

(* Packets, this connection's or those before it, are put aside or         *)
(* handled; what lies outside does so only with packets of this            *)
(* connection.                                                             *)
LEMMA ProcessKeeps ==
  ASSUME IInv, NEW packets \in Seq(PacketSet), Process(packets),
         NEW r, r = LastRegistration(packets),
         Fresh => \A i \in r + 1 .. Len(packets) :
                    packets[i].kind = "data" => packets[i].what < channels'
  PROVE  unhandled' \in Seq(PacketSet) /\ AsideForNothing' /\ NoStrayHandle'
<1> USE DEF IInv
<1>1. Install(packets, r) /\ (Stash(packets, r) \/ Handle(packets, r))
  BY DEF Process
<1>2. channels' \in Nat /\ r \in 0 .. Len(packets) /\ (r = 0 => UNCHANGED <<channels, controls>>)
  BY <1>1, InstallTypes
<1> DEFINE n == Len(packets)
<1>3. CASE Stash(packets, r)
  <2>1. << >> \in Seq(PacketSet) /\ unhandled \in Seq(PacketSet)
    BY DEF Typed
  <2>2. (IF r = 0 THEN unhandled ELSE << >>) \in Seq(PacketSet)
    BY <2>1
  <2>3. unhandled' \in Seq(PacketSet)
    BY <1>3, <2>2, ConcatProperties DEF Stash
  <2>4. QED
    BY <1>3, <2>3 DEF Stash, NothingInstalled, AsideForNothing, NoStrayHandle
<1>4. CASE Handle(packets, r)
  <2> DEFINE all == (IF r = 0 THEN unhandled ELSE << >>) \o packets
             rest == SubSeq(all, r + 1, Len(all))
             outside == \E i \in 1 .. Len(rest) : rest[i].kind = "data" /\ rest[i].what >= channels'
  <2>1. ~ NothingInstalled /\ unhandled' = << >> /\ stray' = (stray \/ (Fresh /\ outside))
    BY <1>4 DEF Handle, Take
  <2>2. r = 0 => unhandled = << >>
    BY <1>2, <2>1 DEF NothingInstalled, AsideForNothing
  <2>3. all = packets
    <3>1. all = << >> \o packets
      BY <2>2
    <3>2. << >> \o packets = packets
      OBVIOUS
    <3>3. QED
      BY <3>1, <3>2
  <2> HIDE DEF all
  <2>4. rest = SubSeq(packets, r + 1, n) /\ n \in Nat /\ r \in 0 .. n
    BY <1>2, <2>3
  <2> HIDE DEF rest
  <2>5. Len(rest) = n - r /\ \A i \in 1 .. n - r : rest[i] = packets[r + i]
    BY <2>4
  <2>6. ASSUME Fresh, NEW i \in 1 .. Len(rest), rest[i].kind = "data", rest[i].what >= channels'
        PROVE  FALSE
    <3>1. i \in 1 .. n - r /\ r + i \in r + 1 .. n /\ r + i \in 1 .. n
      BY <2>4, <2>5
    <3>2. rest[i] = packets[r + i] /\ packets[r + i] \in PacketSet
      BY <2>5, <3>1
    <3>3. rest[i].what < channels' /\ rest[i].what \in Int
      BY <2>6, <3>1, <3>2, PacketKinds
    <3>4. QED
      BY <1>2, <2>6, <3>3
  <2>7. ~ (Fresh /\ outside)
    BY <2>6
  <2> HIDE DEF outside
  <2>8. ~ stray'
    BY <2>1, <2>7, Zenon DEF NoStrayHandle
  <2>9. << >> \in Seq(PacketSet)
    OBVIOUS
  <2>10. QED
    BY <2>1, <2>8, <2>9 DEF AsideForNothing, NoStrayHandle
<1>5. QED
  BY <1>1, <1>3, <1>4

LEMMA UpdateKeeps ==
  ASSUME IInv, Update
  PROVE  IInv'
<1> USE DEF IInv
<1>0. connected /\ UNCHANGED <<connected, cut, connection, server, mask, sends>>
  BY DEF Update, serverVars
<1>1. ASSUME NEW n \in 0 .. Len(inbox), n > 0 => old = << >>,
             inbox' = SubSeq(inbox, n + 1, Len(inbox)),
             Process(SubSeq(inbox, 1, n)), UNCHANGED old
      PROVE  IInv'
  <2>1. PICK packets, r : packets = SubSeq(inbox, 1, n) /\ r = LastRegistration(packets)
    OBVIOUS
  <2>2. Install(packets, r)
    BY <1>1, <2>1 DEF Process
  <2>3. /\ packets \in Seq(PacketSet) /\ Len(packets) = n /\ inbox' \in Seq(PacketSet)
        /\ n \in Nat
    BY <1>1, <2>1 DEF Typed
  <2>4. /\ channels' \in Nat /\ r \in 0 .. n
        /\ r > 0 => table' = TableNow /\ n > 0
        /\ r = 0 => table' = table
    <3>1. /\ channels' \in Nat /\ r \in 0 .. Len(packets)
          /\ r > 0 => table' = TableNow
          /\ r = 0 => UNCHANGED <<channels, controls, table>>
      BY <2>1, <2>2, <2>3, InstallTypes
    <3>2. QED
      BY <2>3, <3>1
  <2>5. ~ cut => /\ CaughtUp' /\ Bounded'
                 /\ \A i \in r + 1 .. n : packets[i].kind = "data" => packets[i].what < channels'
    BY <1>0, <1>1, <2>1, <2>2, TakenKeeps
  <2>6. CaughtUp' /\ Bounded'
    BY <1>0, <2>5 DEF CaughtUp, Bounded
  <2>7. unhandled' \in Seq(PacketSet) /\ AsideForNothing' /\ NoStrayHandle'
    BY <1>1, <2>1, <2>3, <2>5, ProcessKeeps DEF Fresh, Sane
  <2>8. table' \in 0 .. connection
    BY <2>4 DEF TableNow, Typed
  <2>9. OldFirst'
    <3>1. CASE n > 0
      BY <1>0, <1>1, <3>1 DEF OldFirst
    <3>2. CASE n = 0
      <4>1. inbox' = inbox /\ table' = table
        BY <1>1, <2>4, <3>2 DEF Typed
      <4>2. QED
        BY <1>0, <1>1, <4>1 DEF OldFirst
    <3>3. QED
      BY <2>3, <3>1, <3>2
  <2>10. Typed'
    BY <1>0, <1>1, <2>3, <2>4, <2>7, <2>8 DEF Typed
  <2>11. QED
    BY <2>6, <2>7, <2>9, <2>10
<1>2. ASSUME old # << >>, old' = << >>, Process(old), UNCHANGED inbox
      PROVE  IInv'
  <2>1. PICK r : r = LastRegistration(old)
    OBVIOUS
  <2>2. Install(old, r) /\ old \in Seq(PacketSet)
    BY <1>2, <2>1 DEF Process, Typed
  <2>3. /\ channels' \in Nat /\ r \in 0 .. Len(old)
        /\ r > 0 => table' = 0
        /\ r = 0 => UNCHANGED <<channels, controls, table>>
    BY <1>2, <2>1, <2>2, InstallTypes DEF TableNow
  <2>4. unhandled' \in Seq(PacketSet) /\ AsideForNothing' /\ NoStrayHandle'
    BY <1>2, <2>1, <2>2, ProcessKeeps DEF Fresh
  <2>5. table' \in 0 .. connection
    BY <2>2, <2>3 DEF Typed
  <2>6. << >> \in Seq(PacketSet)
    OBVIOUS
  <2>7. Typed'
    BY <1>0, <1>2, <2>3, <2>4, <2>5, <2>6 DEF Typed
  <2>8. CaughtUp' /\ Bounded'
    <3>1. ASSUME ~ cut PROVE CaughtUp' /\ Bounded'
      <4>1. Len(inbox) > 0 /\ IsRegistration(inbox[1]) /\ Len(inbox) \in Nat
        BY <1>0, <1>2, <3>1 DEF OldFirst, Typed
      <4>2. \A i \in 1 .. Len(inbox) : ~ NoneIn(inbox, 1, i)
        BY <4>1 DEF NoneIn
      <4>3. CaughtUp'
        <5>1. ~ NoneIn(inbox, 1, Len(inbox))
          BY <4>1, <4>2
        <5>2. QED
          BY <1>0, <1>2, <3>1, <5>1 DEF CaughtUp
      <4>4. Bounded'
        BY <1>0, <1>2, <3>1, <4>2 DEF Bounded
      <4>5. QED
        BY <4>3, <4>4
    <3>2. QED
      BY <1>0, <3>1 DEF CaughtUp, Bounded
  <2>9. OldFirst'
    BY <1>0, <1>2 DEF OldFirst
  <2>10. QED
    BY <2>4, <2>7, <2>8, <2>9
<1>3. QED
  BY <1>1, <1>2 DEF Update

(* What Connect leaves of packets. *)
LEMMA PartType ==
  ASSUME NEW s \in Seq(PacketSet), NEW i \in 1 .. Len(s) + 1, NEW j \in 0 .. Len(s)
  PROVE  SubSeq(s, i, j) \in Seq(PacketSet)
<1>1. \A k \in i .. j : s[k] \in PacketSet
  OBVIOUS
<1>2. QED
  BY <1>1, SubSeqProperties

LEMMA NextIInv == IInv /\ [Next]_vars => IInv'
<1> SUFFICES ASSUME IInv, [Next]_vars PROVE IInv'
  OBVIOUS
<1> USE DEF IInv
<1>1. CASE Update
  BY <1>1, UpdateKeeps
<1>2. CASE UpdateDisconnected
  <2>1. /\ UNCHANGED <<inbox, old, unhandled, server, mask, connected, connection, table, stray, sends>>
        /\ ~ connected /\ channels' \in Nat
        /\ channels = 0 /\ controls = << >> => channels' = 0 /\ controls' = << >>
    BY <1>2 DEF UpdateDisconnected, linkVars, serverVars, Typed
  <2>2. QED
    BY <2>1 DEF Typed, CaughtUp, Bounded, OldFirst, AsideForNothing, NoStrayHandle
<1>3. CASE ActivateChannel \/ DeactivateChannel \/ ActivateGroup \/ ControlCallback \/ SendConsoleCommand
  <2>1. UNCHANGED <<linkVars, serverVars, channels, controls, unhandled, table, stray>>
    BY <1>3 DEF ActivateChannel, DeactivateChannel, ActivateGroup, ControlCallback, SendConsoleCommand, Issue
  <2>2. QED
    BY <2>1 DEF linkVars, serverVars, Typed, CaughtUp, Bounded, OldFirst, AsideForNothing, NoStrayHandle
<1>4. ASSUME NEW s \in Servers, Connect(s) PROVE IInv'
  <2>1. /\ connected' = TRUE /\ connection' = connection + 1 /\ server' = s /\ mask' = {}
        /\ inbox' = IF cut' THEN << >> ELSE <<Registration(s)>>
        /\ UNCHANGED <<channels, controls, unhandled, table, stray, sends>>
    BY <1>4 DEF Connect
  <2>2. s \in Registered
    BY ClientAssumption
  <2>3. Registration(s) \in PacketSet /\ IsRegistration(Registration(s)) /\ Registration(s).kind # "data"
    BY <2>2, PacketKinds
  <2>4. inbox' \in Seq(PacketSet) /\ (~ cut' => Len(inbox') = 1 /\ inbox'[1] = Registration(s))
    BY <2>1, <2>3
  <2>5. old' \in Seq(PacketSet)
    <3>1. PICK all \in Seq(PacketSet) : all = old \o inbox
      BY ConcatProperties DEF Typed
    <3>2. PICK i \in 1 .. Len(all) + 1, j \in 0 .. Len(all) : old' = SubSeq(all, i, j)
      BY <1>4, <3>1 DEF Connect
    <3>3. QED
      BY <3>2, PartType
  <2>6. connection' \in Nat /\ connection' > 0 /\ table' \in 0 .. connection' /\ table' # connection'
    BY <2>1 DEF Typed
  <2>7. Typed'
    BY <2>1, <2>2, <2>4, <2>5, <2>6 DEF Typed
  <2>8. CaughtUp'
    BY <2>1, <2>3, <2>4 DEF CaughtUp, NoneIn
  <2>9. Bounded'
    <3>1. ASSUME ~ cut', NEW i \in 1 .. Len(inbox'), inbox'[i].kind = "data" PROVE FALSE
      <4>1. i = 1
        BY <2>4, <3>1
      <4>2. QED
        BY <2>3, <2>4, <3>1, <4>1
    <3>2. QED
      BY <3>1 DEF Bounded
  <2>10. OldFirst'
    BY <2>3, <2>4, <2>6 DEF OldFirst
  <2>11. QED
    BY <2>1, <2>7, <2>8, <2>9, <2>10 DEF AsideForNothing, NoStrayHandle
<1>5. CASE Disconnect
  <2>1. connected' = FALSE /\ UNCHANGED <<inbox, old, connection, serverVars, clientVars>>
    BY <1>5 DEF Disconnect
  <2>2. QED
    BY <2>1 DEF serverVars, clientVars, Typed, CaughtUp, Bounded, OldFirst, AsideForNothing, NoStrayHandle
<1>6. CASE SendCommand
  <2>1. UNCHANGED <<connected, inbox, old, cut, connection, serverVars, clientVars>>
    BY <1>6 DEF SendCommand
  <2>2. QED
    BY <2>1 DEF serverVars, clientVars, Typed, CaughtUp, Bounded, OldFirst, AsideForNothing, NoStrayHandle
<1>0. ASSUME NEW p \in PacketSet, ServerSends(p),
             server' \in Registered, mask \subseteq 0 .. server'.channels - 1,
             IsRegistration(p) => p = Registration(server'),
             ~ IsRegistration(p) => UNCHANGED server,
             p.kind = "data" => p.what \in mask
      PROVE  IInv'
  <2>1. /\ connected /\ mask' \subseteq 0 .. server'.channels - 1 /\ sends' \in Nat
        /\ UNCHANGED <<connected, old, connection, channels, controls, table, unhandled, stray>>
    BY <1>0 DEF ServerSends, clientVars, Typed
  <2>2. CASE ~ cut /\ UNCHANGED cut /\ inbox' = Append(inbox, p)
    BY <1>0, <2>1, <2>2, SentKeeps
  <2>3. CASE cut' = TRUE /\ \E junk \in Junk : inbox' = inbox \o junk
    BY <1>0, <2>1, <2>3, JunkKeeps
  <2>4. QED
    BY <1>0, <2>2, <2>3 DEF ServerSends
<1>7. CASE Tell
  <2>1. Packet("text", sends) \in PacketSet /\ Packet("text", sends).kind = "text"
        /\ ~ IsRegistration(Packet("text", sends))
    BY PacketKinds DEF Typed
  <2>2. ServerSends(Packet("text", sends)) /\ UNCHANGED server
    BY <1>7 DEF Tell
  <2>3. QED
    BY <1>0, <2>1, <2>2 DEF Typed
<1>8. CASE SendData
  <2>1. PICK ch \in mask : ServerSends(Packet("data", ch)) /\ UNCHANGED server
    BY <1>8 DEF SendData
  <2>2. ch \in Int
    BY PacketKinds DEF Typed
  <2>3. /\ Packet("data", ch) \in PacketSet /\ Packet("data", ch).what = ch
        /\ ~ IsRegistration(Packet("data", ch))
    BY <2>2, PacketKinds
  <2>4. QED
    BY <1>0, <2>1, <2>3 DEF Typed
<1>9. CASE AddChannel
  <2> DEFINE s == [server EXCEPT !.channels = @ + 1]
  <2>1. ServerSends(Registration(s)) /\ server' = s /\ s.channels <= MaxChannels
    BY <1>9 DEF AddChannel, Add
  <2>2. server \in Registered /\ server.channels \in Nat
    BY PacketKinds DEF Typed
  <2>3. s \in Registered /\ s.channels = server.channels + 1
    BY <2>1, <2>2, ClientAssumption DEF Registered
  <2>4. mask \subseteq 0 .. server'.channels - 1
    BY <2>1, <2>2, <2>3 DEF Typed
  <2> HIDE DEF s
  <2>5. Registration(s) \in PacketSet /\ IsRegistration(Registration(s)) /\ Registration(s).kind # "data"
    BY <2>3, PacketKinds
  <2>6. QED
    BY <1>0, <2>1, <2>3, <2>4, <2>5
<1>10. CASE Obey
  <2>1. UNCHANGED <<connected, inbox, old, cut, connection, server, sends, clientVars>>
    BY <1>10 DEF Obey
  <2>2. mask' \subseteq 0 .. server.channels - 1
    BY <1>10 DEF Obey, MaskAfter, Typed
  <2>3. QED
    BY <2>1, <2>2 DEF clientVars, Typed, CaughtUp, Bounded, OldFirst, AsideForNothing, NoStrayHandle
<1>11. CASE UNCHANGED vars
  BY <1>11 DEF vars, linkVars, serverVars, clientVars, Typed, CaughtUp, Bounded, OldFirst, AsideForNothing, NoStrayHandle
<1>12. QED
  BY <1>1, <1>2, <1>3, <1>4, <1>5, <1>6, <1>7, <1>8, <1>9, <1>10, <1>11 DEF Next, Monitor, Server

LEMMA InitIInv == Init => IInv
<1> SUFFICES ASSUME Init PROVE IInv
  OBVIOUS
<1>1. inbox = << >> /\ old = << >> /\ unhandled = << >> /\ << >> \in Seq(PacketSet) /\ Len(inbox) = 0
  BY DEF Init
<1>2. server \in Registered
  <2>1. << >> \in Seq(ControlTypes)
    OBVIOUS
  <2>2. QED
    BY <2>1, ClientAssumption DEF Init, Registered
<1>3. Typed
  BY <1>1, <1>2 DEF Init, Typed
<1>4. QED
  BY <1>1, <1>3 DEF Init, IInv, CaughtUp, Bounded, OldFirst, AsideForNothing, NoStrayHandle

LEMMA IInvHolds == Spec => []IInv
<1>1. QED
  BY InitIInv, NextIInv, PTL DEF Spec

(* Whatever the game adds, however packets come together, and whichever    *)
(* server the monitor had before: once nothing is under way the client has *)
(* what the server has registered.                                         *)
THEOREM RegistrationsCatchUpHolds == Spec => []RegistrationsCatchUp
<1>1. IInv => RegistrationsCatchUp
  <2> SUFFICES ASSUME IInv, connected, Sane, inbox = << >>
               PROVE  table = connection /\ channels = server.channels /\ controls = Installed(server.controls)
    BY DEF RegistrationsCatchUp
  <2>1. NoneIn(inbox, 1, Len(inbox))
    BY DEF NoneIn
  <2>2. QED
    BY <2>1 DEF IInv, CaughtUp, Sane
<1>2. QED
  BY <1>1, IInvHolds, PTL

(* The tables are never indexed with a handle that is not in them, not     *)
(* even with data that was on its way while others were installed.         *)
THEOREM NoStrayHandleHolds == Spec => []NoStrayHandle
<1>1. IInv => NoStrayHandle
  BY DEF IInv
<1>2. QED
  BY <1>1, IInvHolds, PTL
-----------------------------------------------------------------------------
(* What is kept of a sequence. *)

(* A set of numbers that holds 0 and every successor holds them all. *)
LEMMA Counting ==
  ASSUME NEW n \in Nat, NEW A, 0 \in A, \A i \in 0 .. n - 1 : i \in A => i + 1 \in A
  PROVE  \A i \in 0 .. n : i \in A
<1> DEFINE R == {ss \in Nat \X Nat : ss[1] < ss[2]}
           B == {i \in 0 .. n : i \notin A}
<1>1. IsWellFoundedOn(R, Nat)
  BY NatLessThanWellFounded, Zenon DEF OpToRel
<1>2. ASSUME B # {} PROVE FALSE
  <2>1. B \subseteq Nat
    OBVIOUS
  <2>2. PICK i \in B : \A j \in B : ~ (<<j, i>> \in R)
    BY <1>1, <1>2, <2>1, WFMin
  <2>3. i # 0 /\ i - 1 \in 0 .. n - 1 /\ (i - 1) + 1 = i
    OBVIOUS
  <2>4. i - 1 \notin A
    BY <2>3
  <2>5. i - 1 \in B /\ <<i - 1, i>> \in R
    BY <2>3, <2>4
  <2>6. QED
    BY <2>2, <2>5
<1>3. QED
  BY <1>2

(* f[i] is what is kept of the first i elements. *)
Follows(f, s, keep, n) ==
  /\ f[0] = << >>
  /\ \A i \in 1 .. n : f[i] = IF i \in keep THEN Append(f[i - 1], s[i]) ELSE f[i - 1]

(* The recursion of Kept has such an f, and one only. *)
LEMMA KeptFollows ==
  ASSUME NEW S, NEW s \in Seq(S), NEW keep
  PROVE  \E f \in [0 .. Len(s) -> Seq(S)] :
           Follows(f, s, keep, Len(s)) /\ Kept(s, keep) = f[Len(s)]
<1> DEFINE n == Len(s)
           A == {m \in 0 .. n : \E f \in [0 .. m -> Seq(S)] : Follows(f, s, keep, m)}
           Is(f) == f = [i \in 0 .. n |->
                      IF i = 0 THEN << >> ELSE IF i \in keep THEN Append(f[i - 1], s[i]) ELSE f[i - 1]]
<1>0. n \in Nat /\ \A i \in 1 .. n : s[i] \in S
  OBVIOUS
<1> HIDE DEF n
<1>1. 0 \in A
  <2>1. PICK f : f = [i \in 0 .. 0 |-> << >>]
    OBVIOUS
  <2>2. f \in [0 .. 0 -> Seq(S)] /\ f[0] = << >>
    BY <2>1, EmptySeq
  <2>3. Follows(f, s, keep, 0)
    BY <2>2 DEF Follows
  <2>4. 0 \in 0 .. n /\ \E e \in [0 .. 0 -> Seq(S)] : Follows(e, s, keep, 0)
    BY <1>0, <2>2, <2>3
  <2>5. QED
    BY <2>4
<1>2. ASSUME NEW m \in 0 .. n - 1, m \in A PROVE m + 1 \in A
  <2>1. PICK f \in [0 .. m -> Seq(S)] : Follows(f, s, keep, m)
    BY <1>2
  <2>2. PICK x \in Seq(S) : x = IF m + 1 \in keep THEN Append(f[m], s[m + 1]) ELSE f[m]
    <3>1. f[m] \in Seq(S) /\ s[m + 1] \in S
      BY <1>0
    <3>2. Append(f[m], s[m + 1]) \in Seq(S)
      BY <3>1
    <3>3. QED
      BY <3>1, <3>2
  <2> DEFINE g == [i \in 0 .. m + 1 |-> IF i = m + 1 THEN x ELSE f[i]]
  <2>3. g \in [0 .. m + 1 -> Seq(S)]
    <3>1. \A i \in 0 .. m + 1 : i # m + 1 => i \in 0 .. m
      BY <1>0
    <3>2. QED
      BY <3>1
  <2>4. g[m + 1] = x /\ \A i \in 0 .. m : g[i] = f[i]
    BY <1>0
  <2> HIDE DEF g
  <2>5. Follows(g, s, keep, m + 1)
    <3>1. g[0] = << >>
      BY <1>0, <2>1, <2>4 DEF Follows
    <3>2. ASSUME NEW i \in 1 .. m + 1
          PROVE  g[i] = IF i \in keep THEN Append(g[i - 1], s[i]) ELSE g[i - 1]
      <4>1. i - 1 \in 0 .. m /\ g[i - 1] = f[i - 1]
        BY <1>0, <2>4
      <4>2. CASE i = m + 1
        <5>1. i - 1 = m
          BY <1>0, <4>2
        <5>2. QED
          BY <2>2, <2>4, <4>1, <4>2, <5>1
      <4>3. CASE i # m + 1
        <5>1. i \in 1 .. m /\ i \in 0 .. m
          BY <1>0, <4>3
        <5>2. QED
          BY <2>1, <2>4, <4>1, <5>1 DEF Follows
      <4>4. QED
        BY <4>2, <4>3
    <3>3. QED
      BY <3>1, <3>2 DEF Follows
  <2>6. m + 1 \in 0 .. n
    BY <1>0
  <2>7. QED
    BY <2>3, <2>5, <2>6
<1>3. n \in A
  <2> HIDE DEF A
  <2>1. \A i \in 0 .. n : i \in A
    BY <1>0, <1>1, <1>2, Counting
  <2>2. QED
    BY <1>0, <2>1
<1>4. PICK f \in [0 .. n -> Seq(S)] : Follows(f, s, keep, n)
  BY <1>3
<1>5. Is(f)
  <2>1. \A i \in 0 .. n : i # 0 => i \in 1 .. n
    BY <1>0
  <2>2. \A i \in 0 .. n : f[i] = IF i = 0 THEN << >> ELSE IF i \in keep THEN Append(f[i - 1], s[i]) ELSE f[i - 1]
    BY <1>4, <2>1 DEF Follows
  <2>3. QED
    BY <2>2
<1>6. PICK h : h = CHOOSE g : Is(g)
  OBVIOUS
<1>7. Is(h) /\ Kept(s, keep) = h[n]
  <2>1. Is(h)
    BY <1>5, <1>6, Zenon
  <2>2. Kept(s, keep) = (CHOOSE g : Is(g))[n]
    BY DEF Kept, n
  <2>3. QED
    BY <1>6, <2>1, <2>2
<1>8. \A i \in 0 .. n : h[i] = f[i]
  <2> DEFINE C == {i \in 0 .. n : h[i] = f[i]}
  <2>1. 0 \in C
    BY <1>0, <1>5, <1>7
  <2>2. ASSUME NEW i \in 0 .. n - 1, i \in C PROVE i + 1 \in C
    <3>1. i + 1 \in 0 .. n /\ i + 1 # 0 /\ (i + 1) - 1 = i
      BY <1>0
    <3>2. h[i + 1] = IF i + 1 \in keep THEN Append(h[i], s[i + 1]) ELSE h[i]
      BY <1>7, <3>1
    <3>3. f[i + 1] = IF i + 1 \in keep THEN Append(f[i], s[i + 1]) ELSE f[i]
      BY <1>5, <3>1
    <3>4. QED
      BY <2>2, <3>1, <3>2, <3>3
  <2>3. \A i \in 0 .. n : i \in C
    <3> HIDE DEF C
    <3>1. QED
      BY <1>0, <2>1, <2>2, Counting
  <2>4. QED
    BY <2>3
<1>9. n \in 0 .. n
  BY <1>0
<1>10. QED
  BY <1>4, <1>7, <1>8, <1>9 DEF n

(* Sequences one behind the other.  (Named, so that the provers can        *)
(* instantiate it.)                                                        *)
Associates(x, y, z) == (x \o y) \o z = x \o (y \o z)

LEMMA Association ==
  \A S : \A x, y, z : x \in Seq(S) /\ y \in Seq(S) /\ z \in Seq(S) => Associates(x, y, z)
<1> SUFFICES ASSUME NEW S, NEW x \in Seq(S), NEW y \in Seq(S), NEW z \in Seq(S)
             PROVE  Associates(x, y, z)
  BY Zenon
<1>1. QED
  BY ConcatAssociative, SMTT(30) DEF Associates

(* What is kept of two sequences one behind the other. *)
LEMMA KeptConcat ==
  ASSUME NEW S, NEW a \in Seq(S), NEW b \in Seq(S), NEW ka, NEW kb, NEW k,
         \A i \in 1 .. Len(a) : i \in k <=> i \in ka,
         \A j \in 1 .. Len(b) : Len(a) + j \in k <=> j \in kb
  PROVE  /\ Kept(a \o b, k) = Kept(a, ka) \o Kept(b, kb)
         /\ Kept(a, ka) \in Seq(S) /\ Kept(b, kb) \in Seq(S)
<1> DEFINE n == Len(a)
           m == Len(b)
<1>0. n \in Nat /\ m \in Nat
  OBVIOUS
<1>1. /\ a \o b \in Seq(S) /\ Len(a \o b) = n + m
      /\ \A i \in 1 .. n : (a \o b)[i] = a[i]
      /\ \A j \in 1 .. m : (a \o b)[n + j] = b[j] /\ b[j] \in S
  BY ConcatProperties
<1> HIDE DEF n, m
<1>2. PICK f \in [0 .. n -> Seq(S)] : Follows(f, a, ka, n) /\ Kept(a, ka) = f[n]
  BY KeptFollows DEF n
<1>3. PICK g \in [0 .. m -> Seq(S)] : Follows(g, b, kb, m) /\ Kept(b, kb) = g[m]
  BY KeptFollows DEF m
<1>4. PICK h \in [0 .. n + m -> Seq(S)] : Follows(h, a \o b, k, n + m) /\ Kept(a \o b, k) = h[n + m]
  <2>1. PICK c \in Seq(S) : c = a \o b
    BY <1>1
  <2>2. \E h \in [0 .. Len(c) -> Seq(S)] : Follows(h, c, k, Len(c)) /\ Kept(c, k) = h[Len(c)]
    BY KeptFollows
  <2>3. QED
    BY <1>1, <2>1, <2>2
<1>5. \A i \in 0 .. n : h[i] = f[i]
  <2> DEFINE C == {i \in 0 .. n : h[i] = f[i]}
  <2>1. 0 \in C
    BY <1>0, <1>2, <1>4 DEF Follows
  <2>2. ASSUME NEW i \in 0 .. n - 1, i \in C PROVE i + 1 \in C
    <3>1. i + 1 \in 1 .. n /\ i + 1 \in 1 .. n + m /\ (i + 1) - 1 = i
      BY <1>0
    <3>2. h[i + 1] = IF i + 1 \in k THEN Append(h[i], (a \o b)[i + 1]) ELSE h[i]
      BY <1>4, <3>1 DEF Follows
    <3>3. f[i + 1] = IF i + 1 \in ka THEN Append(f[i], a[i + 1]) ELSE f[i]
      BY <1>2, <3>1 DEF Follows
    <3>4. i + 1 \in k <=> i + 1 \in ka
      BY <3>1 DEF n
    <3>5. QED
      BY <1>1, <2>2, <3>1, <3>2, <3>3, <3>4
  <2>3. \A i \in 0 .. n : i \in C
    <3> HIDE DEF C
    <3>1. QED
      BY <1>0, <2>1, <2>2, Counting
  <2>4. QED
    BY <2>3
<1>6. \A j \in 0 .. m : h[n + j] = f[n] \o g[j]
  <2> DEFINE C == {j \in 0 .. m : h[n + j] = f[n] \o g[j]}
  <2>0. f[n] \in Seq(S)
    BY <1>0
  <2>1. 0 \in C
    <3>1. h[n + 0] = f[n] /\ g[0] = << >>
      BY <1>0, <1>3, <1>5 DEF Follows
    <3>2. f[n] \o << >> = f[n]
      BY <2>0, ConcatEmptySeq
    <3>3. h[n + 0] = f[n] \o g[0]
      BY <3>1, <3>2, Zenon
    <3>4. QED
      BY <1>0, <3>3
  <2>2. ASSUME NEW j \in 0 .. m - 1, j \in C PROVE j + 1 \in C
    <3>1. /\ j + 1 \in 1 .. m /\ n + (j + 1) \in 1 .. n + m /\ (n + (j + 1)) - 1 = n + j
          /\ (j + 1) - 1 = j /\ j \in 0 .. m
      BY <1>0
    <3>2. h[n + (j + 1)] = IF n + (j + 1) \in k THEN Append(h[n + j], (a \o b)[n + (j + 1)]) ELSE h[n + j]
      BY <1>4, <3>1 DEF Follows
    <3>3. g[j + 1] = IF j + 1 \in kb THEN Append(g[j], b[j + 1]) ELSE g[j]
      BY <1>3, <3>1 DEF Follows
    <3>4. n + (j + 1) \in k <=> j + 1 \in kb
      BY <3>1 DEF n, m
    <3>5. (a \o b)[n + (j + 1)] = b[j + 1] /\ b[j + 1] \in S /\ g[j] \in Seq(S)
      BY <1>1, <3>1
    <3>6. Append(f[n] \o g[j], b[j + 1]) = f[n] \o Append(g[j], b[j + 1])
      <4>1. PICK x \in Seq(S), y \in Seq(S), e \in S : x = f[n] /\ y = g[j] /\ e = b[j + 1]
        BY <2>0, <3>5
      <4>2. Append(x \o y, e) = (x \o y) \o <<e>> /\ Append(y, e) = y \o <<e>> /\ <<e>> \in Seq(S)
        BY ConcatProperties
      <4>3. Associates(x, y, <<e>>)
        BY <4>2, Association, Zenon
      <4>4. QED
        BY <4>1, <4>2, <4>3, Zenon DEF Associates
    <3>7. h[n + j] = f[n] \o g[j]
      BY <2>2
    <3>8. h[n + (j + 1)] = f[n] \o g[j + 1]
      <4>1. CASE j + 1 \in kb
        BY <3>2, <3>3, <3>4, <3>5, <3>6, <3>7, <4>1, Zenon
      <4>2. CASE j + 1 \notin kb
        BY <3>2, <3>3, <3>4, <3>7, <4>2, Zenon
      <4>3. QED
        BY <4>1, <4>2
    <3>9. j + 1 \in 0 .. m
      BY <3>1
    <3>10. QED
      BY <3>8, <3>9
  <2>3. \A j \in 0 .. m : j \in C
    <3> HIDE DEF C
    <3>1. QED
      BY <1>0, <2>1, <2>2, Counting
  <2>4. QED
    BY <2>3
<1>7. n \in 0 .. n /\ m \in 0 .. m
  BY <1>0
<1>8. QED
  BY <1>2, <1>3, <1>4, <1>6, <1>7

(* The texts of packets that come one behind the other. *)
LEMMA TextsConcat ==
  ASSUME NEW S, NEW a \in Seq(S), NEW b \in Seq(S)
  PROVE  /\ Texts(a \o b) = Texts(a) \o Texts(b)
         /\ Texts(a) \in Seq(S) /\ Texts(b) \in Seq(S)
<1>1. /\ Len(a \o b) = Len(a) + Len(b) /\ Len(a) \in Nat /\ Len(b) \in Nat
      /\ \A i \in 1 .. Len(a) : (a \o b)[i] = a[i]
      /\ \A j \in 1 .. Len(b) : (a \o b)[Len(a) + j] = b[j]
  BY ConcatProperties
<1>2. PICK k, ka, kb :
        /\ k = {i \in 1 .. Len(a \o b) : (a \o b)[i].kind = "text"}
        /\ ka = {i \in 1 .. Len(a) : a[i].kind = "text"}
        /\ kb = {i \in 1 .. Len(b) : b[i].kind = "text"}
  OBVIOUS
<1>3. \A i \in 1 .. Len(a) : i \in k <=> i \in ka
  BY <1>1, <1>2
<1>4. \A j \in 1 .. Len(b) : Len(a) + j \in k <=> j \in kb
  BY <1>1, <1>2
<1>5. Texts(a \o b) = Kept(a \o b, k) /\ Texts(a) = Kept(a, ka) /\ Texts(b) = Kept(b, kb)
  BY <1>2 DEF Texts
<1>6. QED
  BY <1>3, <1>4, <1>5, KeptConcat

LEMMA TextsShort ==
  /\ Texts(<< >>) = << >>
  /\ \A S : \A p \in S : Texts(<<p>>) = IF p.kind = "text" THEN <<p>> ELSE << >>
<1>1. Texts(<< >>) = << >>
  <2>1. PICK e \in Seq({}) : e = << >>
    BY EmptySeq
  <2>2. PICK k : k = {i \in 1 .. Len(e) : e[i].kind = "text"}
    OBVIOUS
  <2>3. PICK f \in [0 .. Len(e) -> Seq({})] : Follows(f, e, k, Len(e)) /\ Kept(e, k) = f[Len(e)]
    BY KeptFollows
  <2>4. QED
    BY <2>1, <2>2, <2>3 DEF Follows, Texts
<1>2. ASSUME NEW S, NEW p \in S PROVE Texts(<<p>>) = IF p.kind = "text" THEN <<p>> ELSE << >>
  <2>1. PICK e \in Seq(S) : e = <<p>>
    <3>1. <<p>> \in Seq(S)
      OBVIOUS
    <3>2. QED
      BY <3>1
  <2>2. PICK k : k = {i \in 1 .. Len(e) : e[i].kind = "text"}
    OBVIOUS
  <2>3. PICK f \in [0 .. Len(e) -> Seq(S)] : Follows(f, e, k, Len(e)) /\ Kept(e, k) = f[Len(e)]
    BY KeptFollows
  <2>4. Len(e) = 1 /\ e[1] = p /\ f[0] = << >> /\ (1 \in k <=> p.kind = "text")
    BY <2>1, <2>2, <2>3 DEF Follows
  <2>5. f[1] = IF 1 \in k THEN Append(<< >>, p) ELSE << >>
    BY <2>3, <2>4 DEF Follows
  <2>6. Append(<< >>, p) = <<p>>
    OBVIOUS
  <2>7. QED
    BY <2>1, <2>2, <2>3, <2>4, <2>5, <2>6 DEF Texts
<1>3. QED
  BY <1>1, <1>2

-----------------------------------------------------------------------------
(* The commands and the texts of a connection. *)

CommandSet ==
  [op : {"activate", "deactivate", "group", "control", "console"}, arg : Int, for : Nat]

TalkTyped ==
  /\ received \in Seq(CommandSet) /\ pipe \in Seq(CommandSet)
  /\ drop \in Seq(CommandSet) /\ outgoing \in Seq(CommandSet)
  /\ told \in Seq(PacketSet) /\ shown \in Seq(PacketSet)
  /\ active \subseteq 0 .. channels - 1

(* Commands are written by the tables of their time, and the server of a   *)
(* connection has no channel on before it obeys one.                       *)
Past ==
  /\ \A i \in 1 .. Len(Sent) : Sent[i].for <= connection
  /\ table # connection => \A i \in 1 .. Len(Sent) : Sent[i].for # connection
  /\ received = << >> => mask = {}

(* A server that sends registrations once sends them first. *)
FirstOnly == connected /\ ~cut /\ ~renewed =>
  /\ NoneIn(inbox, 2, Len(inbox))
  /\ table = connection => NoneIn(inbox, 1, Len(inbox))

(* Command c says whether channel ch is on, and what it says. *)
Decides(c, ch) == (c.op \in {"activate", "deactivate"} /\ c.arg = ch) \/ c.op = "group"
TurnsOn(c, ch) == (c.op = "activate" /\ c.arg = ch) \/ (c.op = "group" /\ ch = 0)

(* The last of the commands s[lo], s[lo + 1], ... that decides on a channel *)
(* says what the monitor shows, and without one the mask does.              *)
NoneDecides(s, lo, ch) == \A l \in lo .. Len(s) : ~ Decides(s[l], ch)

InEffect(s, lo) == \A ch \in 0 .. channels - 1 :
  /\ \A i \in lo .. Len(s) : Decides(s[i], ch) /\ NoneDecides(s, i + 1, ch) =>
       (ch \in active <=> TurnsOn(s[i], ch))
  /\ NoneDecides(s, lo, ch) => (ch \in active <=> ch \in mask)

MarksFollow ==
  connected /\ ~cut /\ ~renewed /\ ~lost /\ table = connection /\ Own
    => InEffect(Sent, Len(received) + 1)

TalkInv == TalkTyped /\ Past /\ FirstOnly /\ MarksFollow /\ TextsShown

(* TextsShown in parts. *)
Registers == server.channels > 0 \/ Installed(server.controls) # << >>
AllShown  == told = shown \o Texts(inbox)

LEMMA ShownOrNone ==
  /\ TextsShown <=> (connected /\ Sane /\ ~renewed /\ Registers => AllShown)
  /\ (TextsShown <=> (connected /\ Sane /\ ~renewed /\ Registers => AllShown))'
<1>1. TextsShown <=> (connected /\ Sane /\ ~renewed /\ Registers => AllShown)
  BY Zenon DEF TextsShown, Registers, AllShown
<1>2. QED
  BY <1>1, PTL

(* Sent, as one sequence: moving commands along it does not change it. *)
LEMMA SentType ==
  ASSUME TalkTyped
  PROVE  /\ Sent \in Seq(CommandSet) /\ Len(received) \in Nat
         /\ Len(Sent) = Len(received) + Len(pipe) + Len(drop) + Len(outgoing)
         /\ \A i \in 1 .. Len(received) : Sent[i] = received[i]
         /\ \A i \in 1 .. Len(pipe) : Sent[Len(received) + i] = pipe[i]
<1>1. PICK a \in Seq(CommandSet), b \in Seq(CommandSet), c \in Seq(CommandSet), d \in Seq(CommandSet) :
        a = received /\ b = pipe /\ c = drop /\ d = outgoing
  BY DEF TalkTyped
<1>2. a \o b \in Seq(CommandSet) /\ (a \o b) \o c \in Seq(CommandSet)
      /\ ((a \o b) \o c) \o d \in Seq(CommandSet)
  BY ConcatProperties
<1>3. Sent = ((a \o b) \o c) \o d
  BY <1>1 DEF Sent
<1>4. /\ Len(((a \o b) \o c) \o d) = Len(a) + Len(b) + Len(c) + Len(d)
      /\ Len(a) \in Nat /\ Len(b) \in Nat /\ Len(c) \in Nat /\ Len(d) \in Nat
  BY <1>2
<1>5. /\ \A i \in 1 .. Len(a) : (((a \o b) \o c) \o d)[i] = a[i]
      /\ \A i \in 1 .. Len(b) : (((a \o b) \o c) \o d)[Len(a) + i] = b[i]
  BY <1>2
<1>6. QED
  BY <1>1, <1>2, <1>3, <1>4, <1>5

(* The data thread takes the command in the drop. *)
LEMMA SentBySendCommand ==
  ASSUME TalkTyped, pipe' = pipe \o drop, drop' = << >>, UNCHANGED <<received, outgoing>>
  PROVE  Sent' = Sent /\ pipe' \in Seq(CommandSet) /\ drop' \in Seq(CommandSet)
<1>1. PICK a \in Seq(CommandSet), b \in Seq(CommandSet), c \in Seq(CommandSet), d \in Seq(CommandSet) :
        a = received /\ b = pipe /\ c = drop /\ d = outgoing
  BY DEF TalkTyped
<1>2. a \o (b \o c) \in Seq(CommandSet) /\ b \o c \in Seq(CommandSet)
  BY ConcatProperties
<1>3. (a \o (b \o c)) \o << >> = a \o (b \o c)
  BY <1>2, ConcatEmptySeq
<1>4. Associates(a, b, c)
  BY Association, Zenon
<1>5. Sent = ((a \o b) \o c) \o d /\ Sent' = ((a \o (b \o c)) \o << >>) \o d
  BY <1>1 DEF Sent
<1>6. pipe' \in Seq(CommandSet) /\ drop' \in Seq(CommandSet)
  BY <1>1, <1>2, EmptySeq
<1>7. Sent' = Sent
  BY <1>3, <1>4, <1>5, Zenon DEF Associates
<1>8. QED
  BY <1>6, <1>7

(* Four sequences of commands one behind the other. *)
Regroups(x, y, z, u) == x \o ((y \o z) \o u) = ((x \o y) \o z) \o u

LEMMA Regrouping ==
  \A x, y, z, u :
    x \in Seq(CommandSet) /\ y \in Seq(CommandSet) /\ z \in Seq(CommandSet) /\ u \in Seq(CommandSet)
      => Regroups(x, y, z, u)
<1> SUFFICES ASSUME NEW x \in Seq(CommandSet), NEW y \in Seq(CommandSet),
                    NEW z \in Seq(CommandSet), NEW u \in Seq(CommandSet)
             PROVE  Regroups(x, y, z, u)
  BY Zenon
<1>1. PICK v \in Seq(CommandSet) : v = y \o z
  BY ConcatProperties
<1>2. Associates(x, v, u) /\ Associates(x, y, z)
  BY Association, Zenon
<1>3. QED
  BY <1>1, <1>2, Zenon DEF Regroups, Associates

(* PumpCommands moves the first k commands of the list on. *)
LEMMA SentByPump ==
  ASSUME TalkTyped, PumpCommands, UNCHANGED received
  PROVE  /\ Sent' = Sent /\ pipe' \in Seq(CommandSet) /\ drop' \in Seq(CommandSet)
         /\ outgoing' \in Seq(CommandSet)
<1>1. PICK k \in 0 .. Len(outgoing) :
        IF k = 0 THEN UNCHANGED <<drop, pipe, outgoing>>
        ELSE /\ pipe' = pipe \o drop \o SubSeq(outgoing, 1, k - 1)
             /\ drop' = <<outgoing[k]>>
             /\ outgoing' = SubSeq(outgoing, k + 1, Len(outgoing))
  BY DEF PumpCommands
<1>2. CASE k = 0
  BY <1>1, <1>2 DEF Sent, TalkTyped
<1>3. CASE k # 0
  <2>1. PICK d \in Seq(CommandSet) : d = outgoing
    BY DEF TalkTyped
  <2>2. k \in 1 .. Len(d) /\ Len(d) \in Nat /\ d[k] \in CommandSet
    BY <1>3, <2>1
  <2>3. PICK e, f, g :
          /\ e = SubSeq(d, 1, k - 1) /\ f = <<d[k]>> /\ g = SubSeq(d, k + 1, Len(d))
          /\ e \in Seq(CommandSet) /\ f \in Seq(CommandSet) /\ g \in Seq(CommandSet)
    <3>1. /\ SubSeq(d, 1, k - 1) \in Seq(CommandSet) /\ SubSeq(d, k + 1, Len(d)) \in Seq(CommandSet)
          /\ <<d[k]>> \in Seq(CommandSet)
      BY <2>2
    <3>2. QED
      BY <3>1, Zenon
  <2>4. (e \o f) \o g = d
    <3>1. SubSeq(d, 1, k) = e \o f
      BY <2>2, <2>3, SubSeqRecursiveSecond
    <3>2. SubSeq(d, 1, k) \o g = SubSeq(d, 1, Len(d))
      BY <2>2, <2>3, ConcatAdjacentSubSeq
    <3>3. SubSeq(d, 1, Len(d)) = d
      BY SubSeqFull
    <3>4. QED
      BY <3>1, <3>2, <3>3, Zenon
  <2>5. pipe' = (pipe \o drop) \o e /\ drop' = f /\ outgoing' = g
    BY <1>1, <1>3, <2>1, <2>3, Zenon
  <2>6. Sent' = ((received \o ((pipe \o drop) \o e)) \o f) \o g
    BY <2>5, Zenon DEF Sent
  <2>7. /\ received \in Seq(CommandSet) /\ pipe \in Seq(CommandSet) /\ drop \in Seq(CommandSet)
        /\ pipe \o drop \in Seq(CommandSet)
    BY DEF TalkTyped
  <2>8. PICK x : x = (received \o pipe) \o drop /\ x \in Seq(CommandSet)
    <3>1. (received \o pipe) \o drop \in Seq(CommandSet)
      BY <2>7, ConcatProperties
    <3>2. QED
      BY <3>1, Zenon
  <2>9. Regroups(received, pipe, drop, e)
    BY <2>3, <2>7, Regrouping, Zenon
  <2>10. Regroups(x, e, f, g)
    BY <2>3, <2>8, Regrouping, Zenon
  <2>11. Sent' = Sent
    BY <2>1, <2>4, <2>6, <2>8, <2>9, <2>10, Zenon DEF Sent, Regroups
  <2>12. pipe' \in Seq(CommandSet)
    BY <2>3, <2>5, <2>7, ConcatProperties
  <2>13. QED
    BY <2>3, <2>5, <2>11, <2>12
<1>4. QED
  BY <1>2, <1>3

(* Obey moves the first n commands of the pipe to those received. *)
LEMMA SentByObey ==
  ASSUME TalkTyped, NEW n \in 1 .. Len(pipe), received' = received \o SubSeq(pipe, 1, n),
         pipe' = SubSeq(pipe, n + 1, Len(pipe)), UNCHANGED <<drop, outgoing>>
  PROVE  /\ Sent' = Sent /\ received' \in Seq(CommandSet) /\ pipe' \in Seq(CommandSet)
         /\ Len(received') = Len(received) + n /\ Len(received) + 1 \in 1 .. Len(Sent)
         /\ Sent[Len(received) + 1] = Head(pipe)
<1>1. PICK a \in Seq(CommandSet), b \in Seq(CommandSet), c \in Seq(CommandSet), d \in Seq(CommandSet) :
        a = received /\ b = pipe /\ c = drop /\ d = outgoing
  BY DEF TalkTyped
<1>2. Len(b) \in Nat \ {0} /\ Head(b) = b[1] /\ n \in 1 .. Len(b) /\ n \in Nat
  BY <1>1
<1>3. PICK e, f :
        /\ e = SubSeq(b, 1, n) /\ f = SubSeq(b, n + 1, Len(b))
        /\ e \in Seq(CommandSet) /\ f \in Seq(CommandSet) /\ Len(e) = n
  <2>1. /\ SubSeq(b, 1, n) \in Seq(CommandSet) /\ SubSeq(b, n + 1, Len(b)) \in Seq(CommandSet)
        /\ Len(SubSeq(b, 1, n)) = n
    BY <1>2
  <2>2. QED
    BY <2>1, Zenon
<1>4. e \o f = b
  <2>1. SubSeq(b, 1, n) \o SubSeq(b, n + 1, Len(b)) = SubSeq(b, 1, Len(b))
    BY <1>2, ConcatAdjacentSubSeq
  <2>2. SubSeq(b, 1, Len(b)) = b
    BY SubSeqFull
  <2>3. QED
    BY <1>3, <2>1, <2>2, Zenon
<1>5. Associates(a, e, f)
  BY <1>3, Association, Zenon
<1>6. Sent = ((a \o b) \o c) \o d /\ Sent' = (((a \o e) \o f) \o c) \o d
  BY <1>1, <1>3 DEF Sent
<1>7. Sent' = Sent
  BY <1>4, <1>5, <1>6, Zenon DEF Associates
<1>8. received' \in Seq(CommandSet) /\ Len(received') = Len(received) + n /\ pipe' \in Seq(CommandSet)
  BY <1>1, <1>3, ConcatProperties
<1>9. Len(received) + 1 \in 1 .. Len(Sent) /\ Sent[Len(received) + 1] = Head(pipe)
  <2>1. 1 \in 1 .. Len(pipe) /\ Len(drop) \in Nat /\ Len(outgoing) \in Nat
    BY <1>1, <1>2
  <2>2. QED
    BY <1>1, <1>2, <2>1, SentType
<1>10. QED
  BY <1>7, <1>8, <1>9

(* The monitor issues a command. *)
LEMMA SentByIssue ==
  ASSUME TalkTyped, NEW c \in CommandSet, outgoing' = Append(outgoing, c),
         UNCHANGED <<received, pipe, drop>>
  PROVE  Sent' = Append(Sent, c) /\ outgoing' \in Seq(CommandSet)
<1>1. PICK x \in Seq(CommandSet), d \in Seq(CommandSet) :
        x = (received \o pipe) \o drop /\ d = outgoing
  <2>1. received \o pipe \in Seq(CommandSet)
    BY ConcatProperties DEF TalkTyped
  <2>2. (received \o pipe) \o drop \in Seq(CommandSet) /\ outgoing \in Seq(CommandSet)
    BY <2>1, ConcatProperties DEF TalkTyped
  <2>3. QED
    BY <2>2
<1>2. Sent = x \o d /\ Sent' = x \o Append(d, c)
  BY <1>1 DEF Sent
<1>3. Append(d, c) = d \o <<c>> /\ Append(x \o d, c) = (x \o d) \o <<c>> /\ <<c>> \in Seq(CommandSet)
  BY ConcatProperties, AppendIsConcat
<1>4. Associates(x, d, <<c>>)
  BY <1>3, Association, Zenon
<1>5. Append(d, c) \in Seq(CommandSet)
  OBVIOUS
<1>6. QED
  BY <1>1, <1>2, <1>3, <1>4, <1>5, Zenon DEF Associates

(* The monitor issues a command, and marks channels by what it says. *)
LEMMA IssueKeeps ==
  ASSUME IInv, TalkInv, NEW c \in CommandSet, Issue(c), c.for = table,
         active' \subseteq 0 .. channels - 1,
         \A ch \in 0 .. channels - 1 :
           ch \in active' <=> IF Decides(c, ch) THEN TurnsOn(c, ch) ELSE ch \in active
  PROVE  TalkInv'
<1> DEFINE N == Len(received)
           n == Len(Sent)
<1>1. /\ UNCHANGED <<connected, inbox, cut, drop, pipe, connection, server, mask, renewed, told,
                     received, lost, channels, controls, table, shown, spoiled>>
      /\ outgoing' = Append(outgoing, c)
  BY DEF Issue, linkVars, serverVars
<1>2. TalkTyped /\ Typed
  BY DEF TalkInv, IInv
<1>3. Sent' = Append(Sent, c) /\ outgoing' \in Seq(CommandSet)
  BY <1>1, <1>2, SentByIssue
<1>4. Sent \in Seq(CommandSet) /\ N \in Nat /\ n \in Nat /\ N <= n
  <2>1. Len(pipe) \in Nat /\ Len(drop) \in Nat /\ Len(outgoing) \in Nat
    BY <1>2 DEF TalkTyped
  <2>2. QED
    BY <1>2, <2>1, SentType
<1>5. /\ Len(Sent') = n + 1 /\ Sent'[n + 1] = c /\ N' = N
      /\ \A i \in 1 .. n : Sent'[i] = Sent[i] /\ Sent[i] \in CommandSet
  BY <1>1, <1>3, <1>4
<1> HIDE DEF N, n
<1>6. TalkTyped'
  BY <1>1, <1>2, <1>3 DEF TalkTyped
<1>7. \A i \in 1 .. n + 1 : i = n + 1 \/ i \in 1 .. n
  BY <1>4
<1>8. Past'
  <2>1. table \in Int /\ connection \in Int /\ table <= connection
    BY <1>2 DEF Typed
  <2>2. ASSUME NEW i \in 1 .. n + 1
        PROVE  Sent'[i].for <= connection /\ (table # connection => Sent'[i].for # connection)
    <3>1. CASE i = n + 1
      BY <1>5, <2>1, <3>1
    <3>2. CASE i \in 1 .. n
      BY <1>5, <3>2 DEF TalkInv, Past, n
    <3>3. QED
      BY <1>7, <3>1, <3>2
  <2>3. QED
    BY <1>1, <1>5, <2>2 DEF TalkInv, Past
<1>9. FirstOnly'
  BY <1>1 DEF TalkInv, FirstOnly
<1>10. MarksFollow'
  <2> SUFFICES ASSUME connected, ~cut, ~renewed, ~lost, table = connection, Own'
               PROVE  InEffect(Sent, N + 1)'
    BY <1>1 DEF MarksFollow, N
  <2>1. Own
    <3>1. \A i \in 1 .. n + 1 : Sent'[i].for = connection
      BY <1>1, <1>5 DEF Own
    <3>2. \A i \in 1 .. n : i \in 1 .. n + 1
      BY <1>4
    <3>3. \A i \in 1 .. n : Sent[i].for = connection
      BY <1>5, <3>1, <3>2
    <3>4. QED
      BY <3>3 DEF Own, n
  <2>2. InEffect(Sent, N + 1)
    BY <2>1 DEF TalkInv, MarksFollow, N
  <2> SUFFICES ASSUME NEW ch \in 0 .. channels - 1
               PROVE  /\ \A i \in N + 1 .. n + 1 :
                           Decides(Sent'[i], ch) /\ NoneDecides(Sent', i + 1, ch) =>
                             (ch \in active' <=> TurnsOn(Sent'[i], ch))
                      /\ NoneDecides(Sent', N + 1, ch) => (ch \in active' <=> ch \in mask)
    BY <1>1, <1>5 DEF InEffect
  <2>3. ASSUME NEW i \in N + 1 .. n + 1, NoneDecides(Sent', i, ch)
        PROVE  ~ Decides(c, ch) /\ NoneDecides(Sent, i, ch)
    <3>1. n + 1 \in i .. n + 1
      BY <1>4
    <3>2. ~ Decides(c, ch)
      BY <1>5, <2>3, <3>1 DEF NoneDecides
    <3>3. \A l \in i .. n : l \in 1 .. n /\ l \in i .. n + 1
      BY <1>4
    <3>4. \A l \in i .. n : ~ Decides(Sent[l], ch)
      BY <1>5, <2>3, <3>3 DEF NoneDecides
    <3>5. QED
      BY <3>2, <3>4 DEF NoneDecides, n
  <2>4. ASSUME NEW i \in N + 1 .. n + 1, Decides(Sent'[i], ch), NoneDecides(Sent', i + 1, ch)
        PROVE  ch \in active' <=> TurnsOn(Sent'[i], ch)
    <3>1. CASE i = n + 1
      BY <1>5, <2>4, <3>1
    <3>2. CASE i # n + 1
      <4>1. i + 1 \in N + 1 .. n + 1 /\ i \in 1 .. n /\ i \in N + 1 .. n
        BY <1>4, <3>2
      <4>2. ~ Decides(c, ch) /\ NoneDecides(Sent, i + 1, ch)
        BY <2>3, <2>4, <4>1
      <4>3. Sent'[i] = Sent[i] /\ (ch \in active <=> TurnsOn(Sent[i], ch))
        BY <1>5, <2>2, <2>4, <4>1, <4>2 DEF InEffect, n
      <4>4. QED
        BY <4>2, <4>3
    <3>3. QED
      BY <3>1, <3>2
  <2>5. ASSUME NoneDecides(Sent', N + 1, ch) PROVE ch \in active' <=> ch \in mask
    <3>1. N + 1 \in N + 1 .. n + 1
      BY <1>4
    <3>2. ~ Decides(c, ch) /\ NoneDecides(Sent, N + 1, ch)
      BY <2>3, <2>5, <3>1
    <3>3. QED
      BY <2>2, <3>2 DEF InEffect
  <2>6. QED
    BY <2>4, <2>5
<1>11. TextsShown'
  BY <1>1 DEF TalkInv, TextsShown, Sane
<1>12. QED
  BY <1>6, <1>8, <1>9, <1>10, <1>11 DEF TalkInv

(* The server obeys a command, and loses others that came with it. *)
LEMMA ObeyKeeps ==
  ASSUME IInv, TalkInv, Obey
  PROVE  TalkInv'
<1> DEFINE N == Len(received)
           n == Len(Sent)
<1>1. PICK k \in 1 .. Len(pipe) :
        /\ mask' = MaskAfter(Head(pipe))
        /\ received' = received \o SubSeq(pipe, 1, k) /\ pipe' = SubSeq(pipe, k + 1, Len(pipe))
        /\ lost' = (lost \/ k > 1)
  BY DEF Obey
<1>2. UNCHANGED <<connected, inbox, cut, drop, connection, server, renewed, told, outgoing,
                  active, channels, controls, table, shown, spoiled>>
  BY DEF Obey, clientVars
<1>3. TalkTyped /\ Typed
  BY DEF TalkInv, IInv
<1>4. /\ Sent' = Sent /\ received' \in Seq(CommandSet) /\ pipe' \in Seq(CommandSet)
      /\ N' = N + k /\ N + 1 \in 1 .. n /\ Sent[N + 1] = Head(pipe)
  BY <1>1, <1>2, <1>3, SentByObey
<1>5. N \in Nat /\ n \in Nat /\ Sent \in Seq(CommandSet) /\ k \in Nat /\ k > 0
  <2>1. Len(pipe) \in Nat
    BY <1>3 DEF TalkTyped
  <2>2. QED
    BY <1>3, <2>1, SentType
<1>6. PICK c : c = Head(pipe)
  OBVIOUS
<1> HIDE DEF N, n
<1>7. TalkTyped' /\ Past'
  <2>1. received' # << >>
    BY <1>4, <1>5 DEF N
  <2>2. QED
    BY <1>2, <1>3, <1>4, <2>1 DEF TalkInv, TalkTyped, Past
<1>8. FirstOnly' /\ TextsShown'
  BY <1>2 DEF TalkInv, FirstOnly, TextsShown, Sane
<1>9. MarksFollow'
  <2>0. ASSUME lost' PROVE MarksFollow'
    BY <2>0 DEF MarksFollow
  <2> SUFFICES ASSUME connected, ~cut, ~renewed, ~ lost', table = connection, Own
               PROVE  InEffect(Sent, Len(received) + 1)'
    BY <1>2, <1>4, <2>0 DEF MarksFollow, Own
  <2>00. ~ lost /\ k = 1 /\ N' = N + 1
    <3>1. ~ lost /\ ~ (k > 1)
      BY <1>1, Zenon
    <3>2. QED
      BY <1>4, <1>5, <3>1
  <2>1. InEffect(Sent, N + 1)
    BY <2>00 DEF TalkInv, MarksFollow, N
  <2>2. channels = server.channels
    BY DEF TalkInv, FirstOnly, IInv, CaughtUp
  <2> SUFFICES ASSUME NEW ch \in 0 .. channels - 1
               PROVE  /\ \A i \in N + 2 .. n :
                           Decides(Sent[i], ch) /\ NoneDecides(Sent, i + 1, ch) =>
                             (ch \in active <=> TurnsOn(Sent[i], ch))
                      /\ NoneDecides(Sent, N + 2, ch) => (ch \in active <=> ch \in mask')
    <3>1. N' + 1 = N + 2
      BY <1>5, <2>00
    <3>2. QED
      BY <1>2, <1>4, <3>1 DEF InEffect, N, n
  <2>3. ch \in mask' <=> IF Decides(c, ch) THEN TurnsOn(c, ch) ELSE ch \in mask
    <3>1. CASE c.op = "activate"
      BY <1>1, <1>6, <2>2, <3>1 DEF MaskAfter, Decides, TurnsOn
    <3>2. CASE c.op = "deactivate"
      BY <1>1, <1>6, <3>2 DEF MaskAfter, Decides, TurnsOn
    <3>3. CASE c.op = "group"
      BY <1>1, <1>6, <2>2, <3>3 DEF MaskAfter, Decides, TurnsOn
    <3>4. CASE c.op \notin {"activate", "deactivate", "group"}
      BY <1>1, <1>6, <3>4 DEF MaskAfter, Decides
    <3>5. QED
      BY <3>1, <3>2, <3>3, <3>4
  <2>4. \A i \in N + 2 .. n : i \in N + 1 .. n
    BY <1>5
  <2>5. ASSUME NoneDecides(Sent, N + 2, ch) PROVE ch \in active <=> ch \in mask'
    <3>1. (N + 1) + 1 = N + 2 /\ N + 1 \in N + 1 .. n
      BY <1>4, <1>5
    <3>2. CASE Decides(c, ch)
      <4>1. ch \in active <=> TurnsOn(c, ch)
        BY <1>4, <1>6, <2>1, <2>5, <3>1, <3>2 DEF InEffect, n
      <4>2. QED
        BY <2>3, <3>2, <4>1
    <3>3. CASE ~ Decides(c, ch)
      <4>1. \A l \in N + 1 .. n : l = N + 1 \/ l \in N + 2 .. n
        BY <1>5
      <4>2. NoneDecides(Sent, N + 1, ch)
        BY <1>4, <1>6, <2>5, <3>3, <4>1 DEF NoneDecides, n
      <4>3. QED
        BY <2>1, <2>3, <3>3, <4>2 DEF InEffect
    <3>4. QED
      BY <3>2, <3>3
  <2>6. QED
    BY <2>1, <2>4, <2>5 DEF InEffect, n
<1>10. QED
  BY <1>7, <1>8, <1>9 DEF TalkInv

(* The server sends a packet that is not a registration. *)
LEMMA ArrivalKeeps ==
  ASSUME IInv, TalkInv, NEW p \in PacketSet, ~ IsRegistration(p), ServerSends(p),
         UNCHANGED <<server, renewed>>, told' = told \o Texts(<<p>>)
  PROVE  TalkInv'
<1> DEFINE n == Len(inbox)
<1>0. /\ UNCHANGED <<connected, drop, pipe, connection, server, mask, renewed, received, lost,
                     outgoing, active, channels, controls, table, shown, spoiled>>
      /\ connected
      /\ cut' = TRUE \/ (UNCHANGED cut /\ inbox' = Append(inbox, p))
  BY DEF ServerSends, clientVars
<1>00. ASSUME cut' = TRUE PROVE TalkInv'
  <2>1. Texts(<<p>>) \in Seq(PacketSet)
    <3>1. <<p>> \in Seq(PacketSet)
      OBVIOUS
    <3>2. PICK t \in Seq(PacketSet) : t = <<p>>
      BY <3>1
    <3>3. QED
      BY <3>2, TextsConcat
  <2>2. told' \in Seq(PacketSet)
    BY <2>1, ConcatProperties DEF TalkInv, TalkTyped
  <2>3. Sent' = Sent
    BY <1>0 DEF Sent
  <2>4. TalkTyped' /\ Past'
    BY <1>0, <2>2, <2>3 DEF TalkInv, TalkTyped, Past
  <2>5. FirstOnly' /\ MarksFollow' /\ TextsShown'
    BY <1>00 DEF FirstOnly, MarksFollow, TextsShown, Sane
  <2>6. QED
    BY <2>4, <2>5 DEF TalkInv
<1> SUFFICES ASSUME UNCHANGED cut, inbox' = Append(inbox, p) PROVE TalkInv'
  BY <1>0, <1>00
<1>1. /\ UNCHANGED <<connected, cut, drop, pipe, connection, server, mask, renewed, received, lost,
                     outgoing, active, channels, controls, table, shown, spoiled>>
      /\ connected /\ inbox' = Append(inbox, p)
  BY <1>0
<1>2. TalkTyped /\ inbox \in Seq(PacketSet) /\ n \in Nat
  BY DEF TalkInv, IInv, Typed
<1>3. /\ Len(inbox') = n + 1 /\ inbox'[n + 1] = p
      /\ \A i \in 1 .. n : inbox'[i] = inbox[i]
  BY <1>1, <1>2
<1> HIDE DEF n
<1>4. Texts(<<p>>) \in Seq(PacketSet) /\ Texts(inbox) \in Seq(PacketSet)
      /\ Texts(inbox') = Texts(inbox) \o Texts(<<p>>)
  <2>1. inbox' = inbox \o <<p>> /\ <<p>> \in Seq(PacketSet)
    BY <1>1, <1>2, AppendIsConcat
  <2>2. QED
    BY <1>2, <2>1, TextsConcat
<1>5. TalkTyped'
  <2>1. told' \in Seq(PacketSet)
    BY <1>2, <1>4, ConcatProperties DEF TalkTyped
  <2>2. QED
    BY <1>1, <1>2, <2>1 DEF TalkTyped
<1>6. Sent' = Sent
  BY <1>1 DEF Sent
<1>7. Past' /\ MarksFollow'
  BY <1>1, <1>6 DEF TalkInv, Past, MarksFollow, Own, InEffect
<1>8. \A i \in 1 .. n + 1 : i = n + 1 \/ i \in 1 .. n
  BY <1>2
<1>9. FirstOnly'
  <2>1. ASSUME NEW lo \in {1, 2}, NoneIn(inbox, lo, n) PROVE NoneIn(inbox', lo, n + 1)
    <3>1. \A l \in lo .. n + 1 : l \in 1 .. n + 1 /\ (l = n + 1 \/ l \in lo .. n)
      BY <1>2
    <3>2. QED
      BY <1>3, <1>8, <2>1, <3>1 DEF NoneIn
  <2>2. QED
    BY <1>1, <1>3, <2>1 DEF TalkInv, FirstOnly, n
<1>11. TextsShown'
  <2>1. /\ connected' = connected /\ renewed' = renewed /\ shown' = shown
        /\ (Registers' <=> Registers) /\ (Sane' <=> Sane)
    BY <1>1 DEF Registers, Sane
  <2>2. ASSUME AllShown PROVE AllShown'
    <3>1. PICK x \in Seq(PacketSet), y \in Seq(PacketSet), z \in Seq(PacketSet) :
            x = shown /\ y = Texts(inbox) /\ z = Texts(<<p>>)
      BY <1>2, <1>4 DEF TalkTyped
    <3>2. Associates(x, y, z)
      BY Association, Zenon
    <3>3. told' = shown \o Texts(inbox')
      BY <1>4, <2>2, <3>1, <3>2, Zenon DEF AllShown, Associates
    <3>4. QED
      BY <2>1, <3>3 DEF AllShown
  <2>3. QED
    BY <2>1, <2>2, ShownOrNone DEF TalkInv
<1>12. QED
  BY <1>5, <1>7, <1>9, <1>11 DEF TalkInv

(* A connection starts with the registrations of its server; the commands  *)
(* in the list are for others.                                             *)
LEMMA ConnectKeeps ==
  ASSUME IInv, TalkInv, NEW s \in Servers, Connect(s)
  PROVE  TalkInv'
<1>1. /\ connection' = connection + 1 /\ connected' = TRUE /\ server' = s /\ mask' = {}
      /\ inbox' = IF cut' THEN << >> ELSE <<Registration(s)>>
      /\ drop' = << >> /\ pipe' = << >> /\ received' = << >>
      /\ told' = << >> /\ shown' = << >>
      /\ UNCHANGED <<channels, active, controls, outgoing, table>>
  BY DEF Connect
<1>2. TalkTyped /\ Typed
  BY DEF TalkInv, IInv
<1>3. s \in Registered /\ Registration(s) \in PacketSet /\ Registration(s).controls = s.controls
  BY ClientAssumption, PacketKinds
<1>4. ~ cut' => inbox' = <<Registration(s)>> /\ Len(inbox') = 1
  BY <1>1
<1>5. TalkTyped'
  <2>1. << >> \in Seq(CommandSet) /\ << >> \in Seq(PacketSet)
    BY EmptySeq
  <2>2. QED
    BY <1>1, <1>2, <2>1 DEF TalkTyped
<1>6. Sent' = outgoing /\ \A i \in 1 .. Len(Sent') : Sent'[i].for <= connection
  <2>1. PICK x \in Seq(CommandSet), d \in Seq(CommandSet) : Sent = x \o d /\ d = outgoing
    <3>1. received \o pipe \in Seq(CommandSet) /\ outgoing \in Seq(CommandSet)
      BY <1>2, ConcatProperties DEF TalkTyped
    <3>2. (received \o pipe) \o drop \in Seq(CommandSet)
      BY <1>2, <3>1, ConcatProperties DEF TalkTyped
    <3>3. QED
      BY <3>1, <3>2 DEF Sent
  <2>2. << >> \o d = d
    OBVIOUS
  <2>3. Sent' = d
    <3>1. << >> \o << >> = << >>
      OBVIOUS
    <3>2. Sent' = ((<< >> \o << >>) \o << >>) \o d
      BY <1>1, <2>1 DEF Sent
    <3>3. QED
      BY <2>2, <3>1, <3>2, Zenon
  <2>4. \A i \in 1 .. Len(d) : Len(x) + i \in 1 .. Len(Sent) /\ Sent[Len(x) + i] = d[i]
    BY <2>1, ConcatProperties
  <2>5. QED
    BY <2>1, <2>3, <2>4 DEF TalkInv, Past
<1>7. /\ table # connection'
      /\ \A i \in 1 .. Len(Sent') : Sent'[i].for <= connection' /\ Sent'[i].for # connection'
  <2>1. outgoing \in Seq(CommandSet) /\ table \in Int /\ table < connection'
        /\ connection \in Int /\ connection' = connection + 1
    BY <1>1, <1>2 DEF TalkTyped, Typed
  <2>2. \A i \in 1 .. Len(outgoing) : outgoing[i].for \in Nat
    <3>1. \A c \in CommandSet : c.for \in Nat
      BY DEF CommandSet
    <3>2. QED
      BY <2>1, <3>1
  <2>3. QED
    BY <1>6, <2>1, <2>2
<1>8. Past' /\ MarksFollow'
  BY <1>1, <1>7 DEF Past, MarksFollow
<1>9. FirstOnly'
  BY <1>1, <1>4, <1>7 DEF FirstOnly, NoneIn
<1>10. TextsShown'
  <2>1. Registration(s).kind # "text"
    BY DEF Registration
  <2>2. ~ cut' => Texts(inbox') = << >>
    BY <1>3, <1>4, <2>1, TextsShort
  <2>3. << >> \o << >> = << >>
    OBVIOUS
  <2>4. QED
    BY <1>1, <2>2, <2>3 DEF TextsShown, Sane
<1>11. QED
  BY <1>5, <1>8, <1>9, <1>10 DEF TalkInv

(* What Update does to the packets and the tables, if what is to hold of   *)
(* the talk holds before it.                                               *)
LEMMA TakenPackets ==
  ASSUME IInv, TalkInv, connected, NEW n \in 0 .. Len(inbox), n > 0 => old = << >>,
         NEW packets, packets = SubSeq(inbox, 1, n), NEW r, r = LastRegistration(packets),
         inbox' = SubSeq(inbox, n + 1, Len(inbox)), Install(packets, r)
  PROVE  /\ packets \in Seq(PacketSet) /\ Len(packets) = n /\ r \in 0 .. n
         /\ inbox' \in Seq(PacketSet) /\ inbox = packets \o inbox'
         /\ \A l \in 1 .. Len(inbox') : n + l \in 1 .. Len(inbox) /\ inbox'[l] = inbox[n + l]
         /\ NoneIn(inbox, r + 1, n)
         /\ r > 0 => packets[r] = inbox[r] /\ IsRegistration(inbox[r]) /\ r \in 1 .. Len(inbox)
         /\ r > 0 => active' = {} /\ table' = connection
         /\ r = 0 => UNCHANGED <<channels, active, controls, table>>
<1>1. inbox \in Seq(PacketSet) /\ Len(inbox) \in Nat
  BY DEF IInv, Typed
<1>2. /\ packets \in Seq(PacketSet) /\ Len(packets) = n /\ \A i \in 1 .. n : packets[i] = inbox[i]
      /\ inbox' \in Seq(PacketSet) /\ Len(inbox') = Len(inbox) - n
      /\ \A l \in 1 .. Len(inbox) - n : inbox'[l] = inbox[n + l]
  BY <1>1
<1>3. inbox = packets \o inbox'
  <2>1. SubSeq(inbox, 1, n) \o SubSeq(inbox, n + 1, Len(inbox)) = SubSeq(inbox, 1, Len(inbox))
    <3>1. PICK x \in Seq(PacketSet) : x = inbox
      BY <1>1
    <3>2. 1 \in 1 .. Len(x) + 1 /\ n \in 1 - 1 .. Len(x) /\ Len(x) \in n .. Len(x)
      BY <3>1
    <3>3. SubSeq(x, 1, n) \o SubSeq(x, n + 1, Len(x)) = SubSeq(x, 1, Len(x))
      BY <3>2, ConcatAdjacentSubSeq
    <3>4. QED
      BY <3>1, <3>3, Zenon
  <2>2. SubSeq(inbox, 1, Len(inbox)) = inbox
    BY <1>1, SubSeqFull
  <2>3. QED
    BY <2>1, <2>2, Zenon
<1>4. /\ r \in 0 .. Len(packets) /\ NoneIn(packets, r + 1, Len(packets))
      /\ r > 0 => IsRegistration(packets[r])
  BY <1>2, LastRegistrationIsLast, Zenon
<1>5. NoneIn(inbox, r + 1, n)
  <2>1. \A l \in r + 1 .. n : l \in 1 .. n
    BY <1>1, <1>2, <1>4
  <2>2. QED
    BY <1>2, <1>4, <2>1 DEF NoneIn
<1>6. ASSUME r > 0
      PROVE  /\ packets[r] = inbox[r] /\ IsRegistration(inbox[r]) /\ r \in 1 .. Len(inbox)
             /\ active' = {} /\ table' = connection
  <2>1. r \in 1 .. n /\ r \in 1 .. Len(inbox) /\ n > 0
    BY <1>1, <1>2, <1>4, <1>6
  <2>2. packets[r] = inbox[r] /\ IsRegistration(inbox[r])
    BY <1>2, <1>4, <1>6, <2>1
  <2>3. QED
    BY <1>6, <2>1, <2>2 DEF Install, TableNow
<1>7. r = 0 => UNCHANGED <<channels, active, controls, table>>
  BY DEF Install
<1>8. \A l \in 1 .. Len(inbox') : n + l \in 1 .. Len(inbox) /\ inbox'[l] = inbox[n + l]
  <2>1. \A l \in 1 .. Len(inbox) - n : n + l \in 1 .. Len(inbox)
    BY <1>1
  <2>2. QED
    BY <1>2, <2>1, Zenon
<1>9. QED
  BY <1>2, <1>3, <1>4, <1>5, <1>6, <1>7, <1>8

(* The packets behind the registration at r, which are those handled, hold *)
(* the texts of all that are taken if there is one registration at most.   *)
LEMMA TextsBehind ==
  ASSUME NEW s \in Seq(PacketSet), NEW r \in {0, 1}, r <= Len(s), r = 1 => s[1].kind # "text"
  PROVE  /\ SubSeq(s, r + 1, Len(s)) \in Seq(PacketSet)
         /\ Texts(SubSeq(s, r + 1, Len(s))) = Texts(s)
<1>1. CASE r = 0
  <2>1. SubSeq(s, 1, Len(s)) = s /\ r + 1 = 1
    BY <1>1, SubSeqFull
  <2>2. QED
    BY <2>1, Zenon
<1>2. CASE r = 1
  <2>0. Len(s) \in Nat /\ 1 <= Len(s)
    BY <1>2
  <2>1. PICK t \in Seq(PacketSet) :
          t = SubSeq(s, 2, Len(s)) /\ Len(t) = Len(s) - 1 /\ \A i \in 1 .. Len(s) - 1 : t[i] = s[i + 1]
    <3>1. /\ SubSeq(s, 2, Len(s)) \in Seq(PacketSet) /\ Len(SubSeq(s, 2, Len(s))) = Len(s) - 1
          /\ \A i \in 1 .. Len(s) - 1 : SubSeq(s, 2, Len(s))[i] = s[i + 1]
      <4>1. \A i \in 2 .. Len(s) : s[i] \in PacketSet
        BY <2>0
      <4>2. PICK v, k : k \in Nat /\ v = SubSeq(s, 2, Len(s)) /\ k = Len(s)
        BY <2>0, Zenon
      <4>3. /\ v \in Seq(PacketSet) /\ Len(v) = IF 2 <= k THEN k - 2 + 1 ELSE 0
            /\ \A i \in 1 .. k - 2 + 1 : v[i] = s[2 + i - 1]
        BY <4>1, <4>2, SubSeqProperties
      <4>4. k - 2 + 1 = k - 1 /\ \A i \in 1 .. k - 1 : 2 + i - 1 = i + 1
        BY <4>2
      <4>5. Len(v) = k - 1
        BY <2>0, <4>2, <4>3
      <4>6. QED
        BY <4>2, <4>3, <4>4, <4>5, Zenon
    <3>2. QED
      BY <3>1, Zenon
  <2>2. s[1] \in PacketSet /\ <<s[1]>> \in Seq(PacketSet) /\ <<s[1]>> \o t = s
    <3>1. s[1] \in PacketSet
      BY <1>2
    <3>2. <<s[1]>> \in Seq(PacketSet)
      BY <3>1
    <3>3. PICK u \in Seq(PacketSet) : u = <<s[1]>> \o t
      BY <3>2, ConcatProperties
    <3>4. Len(u) = Len(s) /\ \A i \in 1 .. Len(s) : u[i] = s[i]
      <4>1. Len(t) = Len(s) - 1 /\ \A i \in 1 .. Len(t) : t[i] = s[i + 1]
        BY <2>1, Zenon
      <4>2. Len(u) = 1 + Len(t) /\ u[1] = s[1] /\ \A i \in 1 .. Len(t) : u[1 + i] = t[i]
        BY <3>3
      <4>3. \A i \in 1 .. Len(s) : i = 1 \/ (i - 1 \in 1 .. Len(t) /\ 1 + (i - 1) = i /\ (i - 1) + 1 = i)
        BY <4>1
      <4>4. Len(u) = Len(s)
        BY <4>1, <4>2
      <4>5. QED
        BY <4>1, <4>2, <4>3, <4>4
    <3>5. u = s
      BY <3>4, SeqEqual
    <3>6. QED
      BY <3>1, <3>2, <3>3, <3>5
  <2>3. Texts(<<s[1]>>) = << >>
    BY <1>2, <2>2, TextsShort
  <2>4. Texts(s) = Texts(<<s[1]>>) \o Texts(t) /\ Texts(t) \in Seq(PacketSet)
    BY <2>2, TextsConcat
  <2>5. << >> \o Texts(t) = Texts(t)
    BY <2>4, ConcatEmptySeq
  <2>6. r + 1 = 2
    BY <1>2
  <2>7. QED
    BY <2>1, <2>3, <2>4, <2>5, <2>6, Zenon
<1>3. QED
  BY <1>1, <1>2

(* Packets are put aside or handled; commands only move. *)
LEMMA SentByProcess ==
  ASSUME TalkTyped, NEW packets, Process(packets), UNCHANGED received
  PROVE  /\ Sent' = Sent
         /\ pipe' \in Seq(CommandSet) /\ drop' \in Seq(CommandSet) /\ outgoing' \in Seq(CommandSet)
<1>1. PICK r : Stash(packets, r) \/ Handle(packets, r)
  BY DEF Process
<1>2. CASE Stash(packets, r)
  BY <1>2 DEF Stash, Sent, TalkTyped
<1>3. CASE Handle(packets, r)
  <2>1. PumpCommands
    BY <1>3 DEF Handle
  <2>2. QED
    BY <2>1, SentByPump
<1>4. QED
  BY <1>1, <1>2, <1>3

(* What earlier connections left shows nothing of this one's, and its      *)
(* tables are not this server's.                                           *)
LEMMA OldTalks ==
  ASSUME IInv, TalkInv, connected, old # << >>, old' = << >>, Process(old),
         UNCHANGED <<connected, inbox, cut, connection, server, mask, renewed, told, received, lost>>
  PROVE  TalkInv'
<1>1. TalkTyped /\ Typed
  BY DEF TalkInv, IInv
<1>2. PICK r : r = LastRegistration(old)
  OBVIOUS
<1>3. /\ Install(old, r) /\ (Stash(old, r) \/ Handle(old, r))
      /\ old \in Seq(PacketSet)
  BY <1>1, <1>2 DEF Process, Typed
<1>4. /\ channels' \in Nat /\ r \in 0 .. Len(old)
      /\ r > 0 => table' = 0
      /\ r = 0 => UNCHANGED <<channels, table>>
  BY <1>1, <1>2, <1>3, InstallTypes DEF TableNow
<1>5. table # connection /\ table' # connection /\ connection > 0
  <2>1. table # connection /\ connection > 0 /\ connection \in Nat
    BY <1>1 DEF IInv, OldFirst, Typed
  <2>2. r = 0 \/ r > 0
    BY <1>4
  <2>3. QED
    BY <1>4, <2>1, <2>2
<1>6. /\ Sent' = Sent
      /\ pipe' \in Seq(CommandSet) /\ drop' \in Seq(CommandSet) /\ outgoing' \in Seq(CommandSet)
  BY <1>1, SentByProcess
<1>7. shown' = shown /\ (~ spoiled' => ~ spoiled)
  <2>1. CASE Stash(old, r)
    BY <2>1 DEF Stash
  <2>2. CASE Handle(old, r)
    BY <2>2, Zenon DEF Handle, Take
  <2>3. QED
    BY <1>3, <2>1, <2>2
<1>8. TalkTyped'
  <2>1. active' \subseteq 0 .. channels' - 1
    BY <1>1, <1>3 DEF Install, TalkTyped
  <2>2. QED
    BY <1>1, <1>6, <1>7, <2>1 DEF TalkTyped
<1>9. Past'
  BY <1>5, <1>6 DEF TalkInv, Past
<1>10. FirstOnly' /\ MarksFollow'
  BY <1>5 DEF TalkInv, FirstOnly, MarksFollow
<1>11. TextsShown'
  BY <1>7 DEF TalkInv, TextsShown, Sane
<1>12. QED
  BY <1>8, <1>9, <1>10, <1>11 DEF TalkInv

(* Update installs, shows and passes on without losing a text, a mark or a *)
(* command.                                                                *)
LEMMA UpdateTalks ==
  ASSUME IInv, TalkInv, Update
  PROVE  TalkInv'
<1>0. ASSUME old # << >>, old' = << >>, Process(old), UNCHANGED inbox PROVE TalkInv'
  BY <1>0, OldTalks DEF Update, serverVars
<1>1. SUFFICES ASSUME NEW n \in 0 .. Len(inbox), n > 0 => old = << >>,
                      inbox' = SubSeq(inbox, n + 1, Len(inbox)), Process(SubSeq(inbox, 1, n))
               PROVE  TalkInv'
  BY <1>0 DEF Update
<1>2. PICK packets : packets = SubSeq(inbox, 1, n)
  OBVIOUS
<1>3. PICK r : r = LastRegistration(packets)
  OBVIOUS
<1>4. /\ inbox' = SubSeq(inbox, n + 1, Len(inbox)) /\ Process(packets)
      /\ Install(packets, r)
      /\ Stash(packets, r) \/ Handle(packets, r)
  BY <1>1, <1>2, <1>3 DEF Process
<1>5. /\ connected
      /\ UNCHANGED <<connected, cut, connection, server, mask, renewed, told, received, lost>>
  BY DEF Update, serverVars
<1>6. TalkTyped /\ Typed /\ Len(inbox) \in Nat /\ n \in Nat
  BY DEF TalkInv, IInv, Typed
<1>7. /\ packets \in Seq(PacketSet) /\ Len(packets) = n /\ r \in 0 .. n
      /\ inbox' \in Seq(PacketSet) /\ inbox = packets \o inbox'
      /\ \A l \in 1 .. Len(inbox') : n + l \in 1 .. Len(inbox) /\ inbox'[l] = inbox[n + l]
      /\ NoneIn(inbox, r + 1, n)
      /\ r > 0 => packets[r] = inbox[r] /\ IsRegistration(inbox[r]) /\ r \in 1 .. Len(inbox)
      /\ r > 0 => active' = {} /\ table' = connection
      /\ r = 0 => UNCHANGED <<channels, active, controls, table>>
  BY <1>1, <1>2, <1>3, <1>4, <1>5, TakenPackets
<1>8. channels' \in Nat
  BY <1>3, <1>4, <1>6, <1>7, InstallTypes
<1>9. /\ Sent' = Sent
      /\ pipe' \in Seq(CommandSet) /\ drop' \in Seq(CommandSet) /\ outgoing' \in Seq(CommandSet)
  BY <1>4, <1>5, <1>6, SentByProcess
(* Packets are handled when something is installed; then nothing was put   *)
(* aside before.                                                           *)
<1>10. ASSUME Handle(packets, r)
       PROVE  shown' = shown \o Texts(SubSeq(packets, r + 1, n))
  <2> DEFINE aside == IF r = 0 THEN unhandled ELSE << >>
  <2>1. aside = << >>
    <3>1. ~ NothingInstalled
      BY <1>10 DEF Handle
    <3>2. r = 0 => unhandled = << >>
      BY <1>7, <3>1 DEF NothingInstalled, IInv, AsideForNothing
    <3>3. QED
      BY <3>2
  <2>2. << >> \o packets = packets
    BY <1>7
  <2>3. shown' = IF old = << >> THEN shown \o Texts(SubSeq(aside \o packets, r + 1, Len(aside \o packets)))
                 ELSE shown
    BY <1>10, Zenon DEF Handle, Take
  <2> HIDE DEF aside
  <2>4. CASE old = << >>
    BY <1>7, <2>1, <2>2, <2>3, <2>4, Zenon
  <2>5. CASE old # << >>
    <3>1. n = 0 /\ packets = << >> /\ r + 1 = 1
      BY <1>1, <1>6, <1>7, <2>5
    <3>2. SubSeq(packets, r + 1, n) = << >>
      BY <3>1
    <3>3. PICK x \in Seq(PacketSet) : x = shown
      BY <1>6 DEF TalkTyped
    <3>4. x \o << >> = x
      BY ConcatEmptySeq
    <3>5. shown' = shown
      BY <2>3, <2>5
    <3>6. QED
      BY <3>2, <3>3, <3>4, <3>5, TextsShort, Zenon
  <2>6. QED
    BY <2>4, <2>5
<1>11. ASSUME Handle(packets, r)
       PROVE  SubSeq(packets, r + 1, n) \in Seq(PacketSet) /\ shown' \in Seq(PacketSet)
  <2>1. \A i \in r + 1 .. n : packets[i] \in PacketSet
    BY <1>6, <1>7
  <2>2. SubSeq(packets, r + 1, n) \in Seq(PacketSet)
    <3>1. PICK lo \in Int : lo = r + 1
      BY <1>6, <1>7
    <3>2. SubSeq(packets, lo, n) \in Seq(PacketSet)
      BY <1>6, <2>1, <3>1, SubSeqProperties
    <3>3. QED
      BY <3>1, <3>2
  <2>3. Texts(SubSeq(packets, r + 1, n)) \in Seq(PacketSet)
    <3>1. PICK u \in Seq(PacketSet) : u = SubSeq(packets, r + 1, n)
      BY <2>2
    <3>2. QED
      BY <3>1, TextsConcat
  <2>4. PICK x \in Seq(PacketSet), y \in Seq(PacketSet) :
          x = shown /\ y = Texts(SubSeq(packets, r + 1, n))
    BY <1>6, <2>3 DEF TalkTyped
  <2>5. x \o y \in Seq(PacketSet)
    BY ConcatProperties
  <2>6. QED
    BY <1>10, <1>11, <2>2, <2>4, <2>5, Zenon
<1>12. TalkTyped'
  <2>1. active' \subseteq 0 .. channels' - 1
    BY <1>6, <1>4 DEF Install, TalkTyped
  <2>2. shown' \in Seq(PacketSet)
    BY <1>4, <1>6, <1>11 DEF Stash, TalkTyped
  <2>3. QED
    BY <1>5, <1>6, <1>9, <2>1, <2>2 DEF TalkTyped
<1>13. r # 0 => r > 0
  BY <1>6, <1>7
<1>14. Past'
  <2>1. table' # connection => table # connection
    BY <1>7, <1>13
  <2>2. QED
    BY <1>5, <1>9, <2>1 DEF TalkInv, Past
(* A registration that comes once comes first, and belongs to this server. *)
<1>15. ASSUME ~ cut, ~ renewed, r # 0
       PROVE  r = 1 /\ table # connection
  <2>1. NoneIn(inbox, 2, Len(inbox)) /\ (table = connection => NoneIn(inbox, 1, Len(inbox)))
    BY <1>5, <1>15 DEF TalkInv, FirstOnly
  <2>2. r \in 1 .. Len(inbox) /\ IsRegistration(inbox[r])
    BY <1>7, <1>13, <1>15
  <2>3. r \notin 2 .. Len(inbox)
    BY <2>1, <2>2 DEF NoneIn
  <2>4. ~ NoneIn(inbox, 1, Len(inbox))
    BY <2>2 DEF NoneIn
  <2>5. QED
    BY <1>6, <2>1, <2>2, <2>3, <2>4
<1>16. FirstOnly'
  <2> SUFFICES ASSUME ~ cut, ~ renewed
               PROVE  /\ NoneIn(inbox', 2, Len(inbox'))
                      /\ table' = connection => NoneIn(inbox', 1, Len(inbox'))
    BY <1>5 DEF FirstOnly
  <2>1. Len(inbox') \in Nat
    BY <1>7
  <2>2. NoneIn(inbox, 2, Len(inbox)) /\ (table = connection => NoneIn(inbox, 1, Len(inbox)))
    BY <1>5 DEF TalkInv, FirstOnly
  <2>3. CASE n = 0
    <3>1. r = 0 /\ \A l \in 1 .. Len(inbox') : l \in 1 .. Len(inbox) /\ inbox'[l] = inbox[l]
      BY <1>7, <2>3
    <3>2. \A lo \in {1, 2} : NoneIn(inbox, lo, Len(inbox)) => NoneIn(inbox', lo, Len(inbox'))
      <4>1. \A lo \in {1, 2} : \A l \in lo .. Len(inbox') : l \in 1 .. Len(inbox') /\ l >= lo
        BY <2>1
      <4>2. \A lo \in {1, 2} : \A l \in lo .. Len(inbox') : l \in lo .. Len(inbox)
        BY <1>6, <3>1, <4>1
      <4>3. QED
        BY <3>1, <4>1, <4>2 DEF NoneIn
    <3>3. table' = table
      BY <1>7, <3>1
    <3>4. QED
      BY <2>2, <3>2, <3>3
  <2>4. CASE n # 0
    <3>1. \A l \in 1 .. Len(inbox') : n + l \in 2 .. Len(inbox)
      BY <1>6, <1>7, <2>4
    <3>2. NoneIn(inbox', 1, Len(inbox'))
      BY <1>7, <2>2, <3>1 DEF NoneIn
    <3>3. \A l \in 2 .. Len(inbox') : l \in 1 .. Len(inbox')
      BY <2>1
    <3>4. QED
      BY <3>2, <3>3 DEF NoneIn
  <2>5. QED
    BY <2>3, <2>4
<1>17. MarksFollow'
  <2> SUFFICES ASSUME ~ cut, ~ renewed, ~ lost, table' = connection, Own
               PROVE  InEffect(Sent, Len(received) + 1)'
    BY <1>5, <1>9 DEF MarksFollow, Own
  <2>1. CASE r = 0
    <3>1. InEffect(Sent, Len(received) + 1)
      BY <1>5, <1>7, <2>1 DEF TalkInv, MarksFollow
    <3>2. QED
      BY <1>5, <1>7, <1>9, <2>1, <3>1 DEF InEffect
  <2>2. CASE r # 0
    <3>1. table # connection
      BY <1>15, <2>2
    <3>2. Sent \in Seq(CommandSet) /\ Len(received) \in Nat /\ Len(received) <= Len(Sent)
      <4>1. Len(pipe) \in Nat /\ Len(drop) \in Nat /\ Len(outgoing) \in Nat
        BY <1>6 DEF TalkTyped
      <4>2. QED
        BY <1>6, <4>1, SentType
    <3>3. Len(Sent) = 0
      <4>1. ASSUME 1 \in 1 .. Len(Sent) PROVE FALSE
        BY <3>1, <4>1 DEF Own, TalkInv, Past
      <4>2. QED
        BY <3>2, <4>1
    <3>4. Len(received) = 0 /\ received = << >>
      BY <1>6, <3>2, <3>3 DEF TalkTyped
    <3>5. mask' = {} /\ active' = {}
      BY <1>5, <1>7, <1>13, <2>2, <3>4 DEF TalkInv, Past
    <3>6. Len(received') + 1 = 1 /\ Len(Sent') = 0
      BY <1>5, <1>9, <3>3, <3>4
    <3>7. QED
      BY <3>5, <3>6 DEF InEffect
  <2>3. QED
    BY <2>1, <2>2
<1>19. TextsShown'
  <2> SUFFICES ASSUME Sane, ~ renewed, Registers PROVE AllShown'
    <3>1. Registers' <=> Registers
      BY <1>5 DEF Registers
    <3>2. ~ spoiled' => ~ spoiled
      BY <1>4, Zenon DEF Stash, Handle, Take
    <3>3. Sane' => Sane
      BY <1>5, <3>2 DEF Sane
    <3>4. QED
      BY <1>5, <3>1, <3>3, ShownOrNone
  <2>0. ~ cut
    BY DEF Sane
  <2>1. told = shown \o Texts(inbox)
    BY <1>5, ShownOrNone DEF TalkInv, AllShown
  <2>2. /\ Texts(inbox) = Texts(packets) \o Texts(inbox')
        /\ Texts(packets) \in Seq(PacketSet) /\ Texts(inbox') \in Seq(PacketSet)
    <3>1. PICK a \in Seq(PacketSet), b \in Seq(PacketSet) : a = packets /\ b = inbox'
      BY <1>7
    <3>2. Texts(a \o b) = Texts(a) \o Texts(b) /\ Texts(a) \in Seq(PacketSet) /\ Texts(b) \in Seq(PacketSet)
      BY TextsConcat
    <3>3. QED
      BY <1>7, <3>1, <3>2, Zenon
  <2>3. shown' = shown \o Texts(packets)
    <3>1. CASE Handle(packets, r)
      <4>1. r \in {0, 1} /\ r <= n
        BY <1>6, <1>7, <1>15, <2>0
      <4>2. r = 1 => packets[1].kind # "text"
        BY <1>7, <1>13 DEF IsRegistration
      <4>3. Texts(SubSeq(packets, r + 1, Len(packets))) = Texts(packets)
        BY <1>7, <4>1, <4>2, TextsBehind
      <4>4. QED
        BY <1>7, <1>10, <3>1, <4>3, Zenon
    <3>2. CASE Stash(packets, r)
      <4>1. channels' = 0 /\ controls' = << >> /\ shown' = shown
        BY <3>2 DEF Stash, NothingInstalled
      <4>2. channels' # server.channels \/ controls' # Installed(server.controls)
        BY <1>6, <4>1, PacketKinds DEF Registers, Typed
      <4>3. CASE r # 0
        <5>1. r = 1 /\ NoneIn(inbox, 2, Len(inbox)) /\ 1 \in 1 .. Len(inbox) /\ IsRegistration(inbox[1])
          BY <1>5, <1>7, <1>13, <1>15, <2>0, <4>3 DEF TalkInv, FirstOnly
        <5>2. inbox[1] = Registration(server)
          BY <1>5, <2>0, <5>1 DEF IInv, CaughtUp
        <5>3. channels' = packets[r].channels /\ controls' = Installed(packets[r].controls)
          BY <1>4, <4>3, Zenon DEF Install
        <5>4. packets[r] = inbox[1]
          BY <1>7, <1>13, <4>3, <5>1
        <5>5. Registration(server).channels = server.channels /\ Registration(server).controls = server.controls
          BY <1>6, PacketKinds DEF Typed
        <5>6. channels' = server.channels /\ controls' = Installed(server.controls)
          BY <5>2, <5>3, <5>4, <5>5, Zenon
        <5>7. QED
          BY <4>2, <5>6
      <4>4. CASE r = 0
        <5>1. CASE n = 0
          <6>1. packets = << >>
            BY <1>7, <5>1
          <6>2. PICK x \in Seq(PacketSet) : x = shown
            BY <1>6 DEF TalkTyped
          <6>3. x \o << >> = x
            BY ConcatEmptySeq
          <6>4. QED
            BY <4>1, <6>1, <6>2, <6>3, TextsShort, Zenon
        <5>2. CASE n # 0
          <6>1. NoneIn(inbox, 2, Len(inbox)) /\ NoneIn(inbox, 1, n) /\ 1 \in 1 .. n
            BY <1>5, <1>6, <1>7, <2>0, <4>4, <5>2 DEF TalkInv, FirstOnly
          <6>2. \A l \in 1 .. Len(inbox) : l \in 1 .. n \/ l \in 2 .. Len(inbox)
            BY <1>6, <6>1
          <6>3. NoneIn(inbox, 1, Len(inbox))
            BY <6>1, <6>2 DEF NoneIn
          <6>4. channels = server.channels /\ controls = Installed(server.controls)
            BY <1>5, <2>0, <6>3 DEF IInv, CaughtUp
          <6>5. QED
            BY <1>7, <4>2, <4>4, <6>4
        <5>3. QED
          BY <5>1, <5>2
      <4>5. QED
        BY <4>3, <4>4
    <3>3. QED
      BY <1>4, <3>1, <3>2
  <2>4. PICK x \in Seq(PacketSet), y \in Seq(PacketSet), z \in Seq(PacketSet) :
          x = shown /\ y = Texts(packets) /\ z = Texts(inbox')
    BY <1>6, <2>2 DEF TalkTyped
  <2>5. Associates(x, y, z)
    BY Association, Zenon
  <2>6. told' = shown' \o Texts(inbox')
    BY <1>5, <2>1, <2>2, <2>3, <2>4, <2>5, Zenon DEF Associates
  <2>7. QED
    BY <2>6 DEF AllShown
<1>20. QED
  BY <1>12, <1>14, <1>16, <1>17, <1>19 DEF TalkInv

LEMMA NextTalkInv == IInv /\ TalkInv /\ [Next]_vars => TalkInv'
<1> SUFFICES ASSUME IInv, TalkInv, [Next]_vars PROVE TalkInv'
  OBVIOUS
<1>0. TalkTyped /\ Typed
  BY DEF TalkInv, IInv
<1>1. ASSUME NEW op \in {"activate", "deactivate", "group", "control", "console"}, NEW arg \in Int
      PROVE  /\ Command(op, arg) \in CommandSet /\ Command(op, arg).op = op
             /\ Command(op, arg).arg = arg /\ Command(op, arg).for = table
  <2>1. table \in Nat
    BY <1>0 DEF Typed
  <2>2. QED
    BY <2>1 DEF Command, CommandSet
<1>2. CASE Update
  BY <1>2, UpdateTalks
<1>3. CASE UpdateDisconnected
  <2>1. /\ ~ connected /\ ~ connected'
        /\ UNCHANGED <<inbox, drop, pipe, connection, server, mask, told, received, outgoing, table, shown>>
        /\ \/ channels' = 0 /\ active' = {} /\ controls' = << >>
           \/ UNCHANGED <<channels, active, controls>>
    BY <1>3 DEF UpdateDisconnected, linkVars, serverVars
  <2>2. Sent' = Sent
    BY <2>1 DEF Sent
  <2>3. TalkTyped' /\ Past'
    <3>1. active' \subseteq 0 .. channels' - 1
      BY <1>0, <2>1 DEF TalkTyped
    <3>2. QED
      BY <1>0, <2>1, <2>2, <3>1 DEF TalkInv, TalkTyped, Past
  <2>4. FirstOnly' /\ MarksFollow' /\ TextsShown'
    BY <2>1 DEF FirstOnly, MarksFollow, TextsShown
  <2>5. QED
    BY <2>3, <2>4 DEF TalkInv
<1>4. CASE ActivateChannel
  <2>1. PICK ch \in 0 .. channels - 1 :
          Issue(Command("activate", ch)) /\ active' = active \cup {ch}
    BY <1>4 DEF ActivateChannel
  <2>2. PICK c \in CommandSet : c = Command("activate", ch) /\ c.op = "activate" /\ c.arg = ch /\ c.for = table
    BY <1>1
  <2>3. active' \subseteq 0 .. channels - 1
    BY <1>0, <2>1 DEF TalkTyped
  <2>4. \A h \in 0 .. channels - 1 : h \in active' <=> IF Decides(c, h) THEN TurnsOn(c, h) ELSE h \in active
    BY <2>1, <2>2 DEF Decides, TurnsOn
  <2>5. QED
    BY <2>1, <2>2, <2>3, <2>4, IssueKeeps
<1>5. CASE DeactivateChannel
  <2>1. PICK ch \in 0 .. channels - 1 :
          Issue(Command("deactivate", ch)) /\ active' = active \ {ch}
    BY <1>5 DEF DeactivateChannel
  <2>2. PICK c \in CommandSet : c = Command("deactivate", ch) /\ c.op = "deactivate" /\ c.arg = ch /\ c.for = table
    BY <1>1
  <2>3. active' \subseteq 0 .. channels - 1
    BY <1>0, <2>1 DEF TalkTyped
  <2>4. \A h \in 0 .. channels - 1 : h \in active' <=> IF Decides(c, h) THEN TurnsOn(c, h) ELSE h \in active
    BY <2>1, <2>2 DEF Decides, TurnsOn
  <2>5. QED
    BY <2>1, <2>2, <2>3, <2>4, IssueKeeps
<1>6. CASE ActivateGroup
  <2>1. channels > 0 /\ Issue(Command("group", 0)) /\ active' = {0}
    BY <1>6 DEF ActivateGroup
  <2>2. PICK c \in CommandSet : c = Command("group", 0) /\ c.op = "group" /\ c.for = table
    BY <1>1
  <2>3. active' \subseteq 0 .. channels - 1
    BY <1>0, <2>1 DEF Typed
  <2>4. \A h \in 0 .. channels - 1 : h \in active' <=> IF Decides(c, h) THEN TurnsOn(c, h) ELSE h \in active
    BY <2>1, <2>2 DEF Decides, TurnsOn
  <2>5. QED
    BY <2>1, <2>2, <2>3, <2>4, IssueKeeps
<1>7. CASE ControlCallback
  <2>1. PICK j \in 1 .. Len(controls) :
          /\ Issue(Command("control", j - 1)) \/ Issue(Command("console", 0))
          /\ UNCHANGED active
    BY <1>7 DEF ControlCallback
  <2>2. PICK c \in CommandSet : Issue(c) /\ c.op \in {"control", "console"} /\ c.for = table
    BY <1>1, <2>1
  <2>3. active' \subseteq 0 .. channels - 1
    BY <1>0, <2>1 DEF TalkTyped
  <2>4. \A h \in 0 .. channels - 1 : h \in active' <=> IF Decides(c, h) THEN TurnsOn(c, h) ELSE h \in active
    BY <2>1, <2>2 DEF Decides
  <2>5. QED
    BY <2>2, <2>3, <2>4, IssueKeeps
<1>8. CASE SendConsoleCommand
  <2>1. Issue(Command("console", 0)) /\ UNCHANGED active
    BY <1>8 DEF SendConsoleCommand
  <2>2. PICK c \in CommandSet : c = Command("console", 0) /\ c.op = "console" /\ c.for = table
    BY <1>1
  <2>3. active' \subseteq 0 .. channels - 1
    BY <1>0, <2>1 DEF TalkTyped
  <2>4. \A h \in 0 .. channels - 1 : h \in active' <=> IF Decides(c, h) THEN TurnsOn(c, h) ELSE h \in active
    BY <2>1, <2>2 DEF Decides
  <2>5. QED
    BY <2>1, <2>2, <2>3, <2>4, IssueKeeps
<1>9. ASSUME NEW s \in Servers, Connect(s) PROVE TalkInv'
  BY <1>9, ConnectKeeps
<1>10. CASE Disconnect
  <2>1. /\ connected' = FALSE
        /\ UNCHANGED <<drop, pipe, connection, server, mask, told, received, channels, active, controls,
                       outgoing, table, shown>>
    BY <1>10 DEF Disconnect, serverVars, clientVars
  <2>2. Sent' = Sent
    BY <2>1 DEF Sent
  <2>3. TalkTyped' /\ Past'
    BY <1>0, <2>1, <2>2 DEF TalkInv, TalkTyped, Past
  <2>4. FirstOnly' /\ MarksFollow' /\ TextsShown'
    BY <2>1 DEF FirstOnly, MarksFollow, TextsShown
  <2>5. QED
    BY <2>3, <2>4 DEF TalkInv
<1>11. CASE SendCommand
  <2>1. /\ UNCHANGED <<connected, inbox, cut, connection, server, mask, renewed, told, received, lost,
                       channels, active, controls, outgoing, table, shown, spoiled>>
        /\ pipe' = pipe \o drop /\ drop' = << >>
    BY <1>11 DEF SendCommand, serverVars, clientVars
  <2>2. Sent' = Sent /\ pipe' \in Seq(CommandSet) /\ drop' \in Seq(CommandSet)
    BY <1>0, <2>1, SentBySendCommand
  <2>3. TalkTyped' /\ Past'
    BY <1>0, <2>1, <2>2 DEF TalkInv, TalkTyped, Past
  <2>4. FirstOnly' /\ TextsShown'
    BY <2>1 DEF TalkInv, FirstOnly, TextsShown, Sane
  <2>5. MarksFollow'
    BY <2>1, <2>2 DEF TalkInv, MarksFollow, Own, InEffect
  <2>6. QED
    BY <2>3, <2>4, <2>5 DEF TalkInv
<1>12. CASE Tell
  <2>1. PICK p \in PacketSet : p = Packet("text", sends) /\ p.kind = "text" /\ ~ IsRegistration(p)
    BY <1>0, PacketKinds DEF Typed
  <2>2. ServerSends(p) /\ UNCHANGED <<server, renewed>> /\ told' = Append(told, p)
    BY <1>12, <2>1 DEF Tell
  <2>3. Texts(<<p>>) = <<p>>
    BY <2>1, TextsShort
  <2>4. Append(told, p) = told \o <<p>>
    BY <1>0, AppendIsConcat DEF TalkTyped
  <2>5. QED
    BY <2>1, <2>2, <2>3, <2>4, ArrivalKeeps
<1>13. CASE SendData
  <2>1. PICK ch \in mask : ServerSends(Packet("data", ch)) /\ UNCHANGED <<server, renewed, told>>
    BY <1>13 DEF SendData
  <2>2. ch \in Int
    BY <1>0, PacketKinds DEF Typed
  <2>3. PICK p \in PacketSet : p = Packet("data", ch) /\ p.kind # "text" /\ ~ IsRegistration(p)
    BY <2>2, PacketKinds
  <2>4. Texts(<<p>>) = << >>
    BY <2>3, TextsShort
  <2>5. told = told \o << >>
    BY <1>0, ConcatEmptySeq DEF TalkTyped
  <2>6. QED
    BY <2>1, <2>3, <2>4, <2>5, ArrivalKeeps
<1>14. CASE AddChannel
  <2> DEFINE s == [server EXCEPT !.channels = @ + 1]
  <2>1. ServerSends(Registration(s)) /\ server' = s /\ renewed' = TRUE /\ UNCHANGED told
    BY <1>14 DEF AddChannel, Add
  <2> HIDE DEF s
  <2>2. UNCHANGED <<connected, drop, pipe, connection, mask, told, received, channels, active, controls,
                    outgoing, table, shown>>
    BY <2>1 DEF ServerSends, clientVars
  <2>3. Sent' = Sent
    BY <2>2 DEF Sent
  <2>4. TalkTyped' /\ Past'
    BY <1>0, <2>2, <2>3 DEF TalkInv, TalkTyped, Past
  <2>5. FirstOnly' /\ MarksFollow' /\ TextsShown'
    BY <2>1 DEF FirstOnly, MarksFollow, TextsShown
  <2>6. QED
    BY <2>4, <2>5 DEF TalkInv
<1>15. CASE Obey
  BY <1>15, ObeyKeeps
<1>16. CASE UNCHANGED vars
  <2>1. UNCHANGED <<connected, inbox, cut, drop, pipe, server, mask, channels, active, controls, outgoing,
                    connection, table, renewed, told, shown, spoiled, received, lost>>
    BY <1>16 DEF vars, linkVars, serverVars, clientVars
  <2>2. Sent' = Sent
    BY <2>1 DEF Sent
  <2>3. TalkTyped' /\ Past'
    BY <1>0, <2>1, <2>2 DEF TalkInv, TalkTyped, Past
  <2>4. FirstOnly' /\ TextsShown'
    BY <2>1 DEF TalkInv, FirstOnly, TextsShown, Sane
  <2>5. MarksFollow'
    BY <2>1, <2>2 DEF TalkInv, MarksFollow, Own, InEffect
  <2>6. QED
    BY <2>3, <2>4, <2>5 DEF TalkInv
<1>17. QED
  BY <1>2, <1>3, <1>4, <1>5, <1>6, <1>7, <1>8, <1>9, <1>10, <1>11, <1>12, <1>13, <1>14, <1>15, <1>16
     DEF Next, Monitor, Server

LEMMA InitTalkInv == Init => TalkInv
<1> SUFFICES ASSUME Init PROVE TalkInv
  OBVIOUS
<1>1. << >> \in Seq(CommandSet) /\ << >> \in Seq(PacketSet)
  BY EmptySeq
<1>2. TalkTyped
  BY <1>1 DEF Init, TalkTyped
<1>3. Len(Sent) = 0
  <2>1. Len(received) = 0 /\ Len(pipe) = 0 /\ Len(drop) = 0 /\ Len(outgoing) = 0
    BY DEF Init
  <2>2. QED
    BY <1>2, <2>1, SentType
<1>4. Past
  BY <1>3 DEF Init, Past
<1>5. FirstOnly /\ MarksFollow /\ TextsShown
  BY DEF Init, FirstOnly, MarksFollow, TextsShown
<1>6. QED
  BY <1>2, <1>4, <1>5 DEF TalkInv

LEMMA TalkInvHolds == Spec => [](IInv /\ TalkInv)
<1>1. Init => IInv /\ TalkInv
  BY InitIInv, InitTalkInv
<1>2. (IInv /\ TalkInv) /\ [Next]_vars => (IInv /\ TalkInv)'
  BY NextIInv, NextTalkInv
<1>3. QED
  BY <1>1, <1>2, PTL DEF Spec

(* Whatever is switched on and off, one by one and by the group, through   *)
(* lists, drops and pipes of any length: when all commands are through and *)
(* none was lost by coming together with another, the server sends the     *)
(* channels the monitor marks active, no more and no fewer.                *)
THEOREM ActiveAgreesHolds == Spec => []ActiveAgrees
<1>1. IInv /\ TalkInv => ActiveAgrees
  <2> SUFFICES ASSUME IInv, TalkInv, Settled, Sane, ~ renewed, ~ lost, Own PROVE active = mask
    BY DEF ActiveAgrees
  <2>1. connected /\ inbox = << >> /\ outgoing = << >> /\ drop = << >> /\ pipe = << >>
    BY DEF Settled
  <2>2. table = connection /\ channels = server.channels
    BY <2>1 DEF IInv, CaughtUp, NoneIn, Sane
  <2>3. InEffect(Sent, Len(received) + 1)
    BY <2>1, <2>2 DEF TalkInv, MarksFollow, Sane
  <2>4. Len(Sent) = Len(received) /\ Len(received) \in Nat
    <3>1. Len(pipe) = 0 /\ Len(drop) = 0 /\ Len(outgoing) = 0
      BY <2>1
    <3>2. QED
      BY <3>1, SentType DEF TalkInv
  <2>5. \A ch \in 0 .. channels - 1 : ch \in active <=> ch \in mask
    BY <2>3, <2>4 DEF InEffect, NoneDecides
  <2>6. active \subseteq 0 .. channels - 1 /\ mask \subseteq 0 .. channels - 1
    BY <2>2 DEF TalkInv, TalkTyped, IInv, Typed
  <2>7. QED
    BY <2>5, <2>6
<1>2. QED
  BY <1>1, TalkInvHolds, PTL

(* No text is lost, doubled or out of order between the data thread's drop *)
(* and the console, whichever way packets come together in an Update.      *)
THEOREM TextsShownHolds == Spec => []TextsShown
<1>1. TalkInv => TextsShown
  BY DEF TalkInv
<1>2. QED
  BY <1>1, TalkInvHolds, PTL
=============================================================================
