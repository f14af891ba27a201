--------------------------- MODULE ServerListProofs ---------------------------
(***************************************************************************)
(* For any servers, keys and bounds: what the thread publishes is what is  *)
(* fresh in its table, the table has every server it has heard from, and   *)
(* nothing else gets into either.                                          *)
(***************************************************************************)
EXTENDS ServerList, FiniteSetTheorems, TLAPS

OnAir    == {s \in Servers : last_multicast[s] > 0}
Known    == {k \in Keys : m_aServers[k] # Unknown}

(* Wherever a server can be read from, it has advertised itself.           *)
Advertised ==
  /\ lan \cap Servers \subseteq OnAir
  /\ msgbuf \in Servers => msgbuf \in OnAir
  /\ \A k \in Known : m_aServers[k].server \in OnAir
  /\ Listed \subseteq OnAir

(* An entry of the table is of a server with that key, and not from the    *)
(* future.                                                                 *)
Entered ==
  /\ \A k \in Known : Index[m_aServers[k].server] = k /\ m_aServers[k].last_ping <= clock
  /\ \A s \in Servers : heard[s] <= clock

(* The table is behind nothing that was heard; and a buffer that is looked *)
(* at again holds the server heard last, so that it hides no other.        *)
HeardKept ==
  /\ thread # "none" => \A s \in Servers : heard[s] > 0 =>
       /\ Index[s] \in Known
       /\ m_aServers[Index[s]].last_ping >= heard[s]
       /\ heard[m_aServers[Index[s]].server] >= heard[s]
  /\ msgbuf \in Servers => \A s \in Servers : heard[msgbuf] >= heard[s]

(* The published list is that of time t. *)
Current(t) ==
  /\ ToSet(s_servers_drop) = Fresh(t)
  /\ \A i, j \in DOMAIN s_servers_drop :
       i < j => /\ s_servers_drop[i] # s_servers_drop[j]
                /\ s_servers_drop[i].last_ping >= s_servers_drop[j].last_ping

(* The list is that of the second in which it was made, unless it is to be *)
(* made anew.                                                              *)
Published == thread # "none" =>
  /\ m_iNextServerListUpdate <= clock + 1
  /\ thread = "receive" => now <= clock /\ m_iNextServerListUpdate = now + 1
  /\ m_iNextServerListUpdate # 0 => Current(m_iNextServerListUpdate - 1)

IInv == TypeOK /\ Advertised /\ Entered /\ HeardKept /\ Published

-----------------------------------------------------------------------------
LEMMA IndexInKeys == \A s \in Servers : Index[s] \in Keys
<1>1. QED
  BY DEF Keys

(* There are finitely many keys, and so finitely many fresh listings.      *)
LEMMA FreshFinite == ASSUME TypeOK, NEW t \in Nat PROVE IsFiniteSet(Fresh(t))
<1>1. IsFiniteSet(Keys)
  <2>1. Index \in Surjection(Servers, Keys)
    BY ServerListAssumption, Zenon DEF Surjection, Keys
  <2>2. QED
    BY <2>1, ServerListAssumption, FS_Surjection
<1> DEFINE Entries == {m_aServers[k] : k \in Keys}
<1>2. IsFiniteSet(Entries)
  <2>1. m_aServers \in Surjection(Keys, Entries)
    BY Zenon DEF Surjection, TypeOK
  <2>2. QED
    BY <2>1, <1>1, FS_Surjection
<1>3. Fresh(t) \in SUBSET Entries
  BY DEF Fresh
<1>4. QED
  BY <1>2, <1>3, FS_Subset

(* A list sorted from a finite set has every element once. *)
LEMMA SortedLists ==
  ASSUME NEW S, IsFiniteSet(S), NEW list \in Sorted(S)
  PROVE  /\ list \in Seq(S) /\ ToSet(list) = S
         /\ \A i, j \in DOMAIN list :
              i < j => list[i] # list[j] /\ list[i].last_ping >= list[j].last_ping
<1> DEFINE D == 1 .. Cardinality(S)
<1>1. /\ list \in [D -> S]
      /\ \A i, j \in D : i # j => list[i] # list[j]
      /\ \A i, j \in DOMAIN list : i < j => list[i].last_ping >= list[j].last_ping
  BY DEF Sorted, SetToSeqs, last_ping_sort
<1>2. Cardinality(S) \in Nat
  BY FS_CardinalityType
<1>3. list \in Injection(D, S)
  BY <1>1, Zenon DEF Injection, IsInjective
<1>4. Cardinality(D) = Cardinality(S)
  BY <1>2, FS_Interval
<1>5. list \in Surjection(D, S)
  BY <1>3, <1>4, FS_Injection
<1>6. ToSet(list) = S
  BY <1>1, <1>5, ZenonT(30) DEF ToSet, Surjection
<1>7. list \in Seq(S)
  BY <1>1, <1>2
<1>8. \A i, j \in DOMAIN list : i < j => list[i] # list[j]
  BY <1>1, <1>2
<1>9. QED
  BY <1>1, <1>6, <1>7, <1>8

LEMMA FreshListings == ASSUME TypeOK, NEW t \in Nat PROVE Fresh(t) \subseteq Listing
<1>1. QED
  BY Zenon DEF Fresh, TypeOK

-----------------------------------------------------------------------------
LEMMA InitIInv == Init => IInv
<1> SUFFICES ASSUME Init PROVE IInv
  OBVIOUS
<1>1. TypeOK
  <2>1. NoServers \in [Keys -> Listing \cup {Unknown}]
    BY DEF NoServers
  <2>2. s_bShutdown \in BOOLEAN /\ caller \in {"idle", "joining"} /\ thread \in {"none", "loop", "receive"}
    BY Zenon DEF Init
  <2>3. s_servers_drop \in Seq(Listing) /\ lan \subseteq Datagrams /\ msgbuf \in Datagrams
    BY DEF Init, Datagrams
  <2>4. last_multicast \in [Servers -> Nat] /\ heard \in [Servers -> Nat]
    BY DEF Init
  <2>5. QED
    BY <2>1, <2>2, <2>3, <2>4 DEF Init, TypeOK
<1>2. Known = {}
  BY DEF Init, Known, NoServers
<1>3. msgbuf \notin Servers /\ lan = {} /\ Listed = {}
  BY ServerListAssumption DEF Init, Listed
<1>4. QED
  BY <1>1, <1>2, <1>3 DEF Init, IInv, Advertised, Entered, HeardKept, Published

-----------------------------------------------------------------------------
(* What a parsed datagram does to the table.                               *)
Entry(d) == [server |-> d, last_ping |-> clock]

(* A server that has just been heard, or is seen again in the buffer and   *)
(* was the last one heard, is entered: h is what is heard by then.         *)
LEMMA EnteringIInv ==
  ASSUME IInv, thread = "receive", NEW d \in OnAir, Parse(d), thread' = "loop", now' = 0,
         msgbuf' = d, lan' \subseteq lan,
         heard' = heard \/ heard' = [s \in Servers |-> IF s = d THEN clock ELSE heard[s]],
         \A s \in Servers : heard'[d] >= heard'[s],
         UNCHANGED <<clock, last_multicast, s_servers_drop, mainVars>>
  PROVE  IInv'
<1> USE DEF mainVars
<1>1. d \in Servers /\ Index[d] \in Keys
  BY IndexInKeys DEF OnAir
<1>2. m_aServers' = [m_aServers EXCEPT ![Index[d]] = Entry(d)] /\ m_iNextServerListUpdate' = 0
  BY <1>1 DEF Parse, Entry
<1>3. Entry(d) \in Listing /\ Entry(d) # Unknown /\ Entry(d).server = d /\ Entry(d).last_ping = clock
  BY <1>1, UnknownAssumption DEF Entry, Listing, IInv, TypeOK
<1>4. heard' \in [Servers -> Nat] /\ \A s \in Servers : heard'[s] <= clock /\ heard[s] <= heard'[s]
  <2>1. heard \in [Servers -> Nat] /\ clock \in Nat /\ \A s \in Servers : heard[s] <= clock
    BY DEF IInv, TypeOK, Entered
  <2>2. CASE heard' = heard
    BY <2>1, <2>2
  <2>3. CASE heard' = [s \in Servers |-> IF s = d THEN clock ELSE heard[s]]
    BY <2>1, <2>3
  <2>4. QED
    BY <2>2, <2>3
<1>5. TypeOK'
  <2>1. m_aServers' \in [Keys -> Listing \cup {Unknown}]
    BY <1>2, <1>3 DEF IInv, TypeOK
  <2>2. lan' \subseteq Datagrams /\ msgbuf' \in Datagrams
    BY <1>1 DEF IInv, TypeOK, Datagrams
  <2>3. QED
    BY <1>2, <1>4, <2>1, <2>2 DEF IInv, TypeOK
<1>6. /\ Known' = Known \cup {Index[d]}
      /\ m_aServers'[Index[d]] = Entry(d)
      /\ \A k \in Keys \ {Index[d]} : m_aServers'[k] = m_aServers[k]
  BY <1>1, <1>2, <1>3 DEF Known, IInv, TypeOK
<1>7. Advertised'
  BY <1>3, <1>6 DEF IInv, Advertised, OnAir, Listed, Known
<1>8. Entered'
  <2>1. ASSUME NEW k \in Known'
        PROVE  Index[m_aServers'[k].server] = k /\ m_aServers'[k].last_ping <= clock
    <3>1. CASE k = Index[d]
      BY <3>1, <1>3, <1>6 DEF IInv, TypeOK
    <3>2. CASE k # Index[d]
      BY <2>1, <3>2, <1>6 DEF IInv, Entered, Known
    <3>3. QED
      BY <3>1, <3>2
  <2>2. QED
    BY <2>1, <1>4 DEF Entered
<1>9. HeardKept'
  <2>1. SUFFICES ASSUME NEW s \in Servers, heard'[s] > 0
                 PROVE  /\ Index[s] \in Known'
                        /\ m_aServers'[Index[s]].last_ping >= heard'[s]
                        /\ heard'[m_aServers'[Index[s]].server] >= heard'[s]
    BY DEF HeardKept
  <2>2. CASE Index[s] = Index[d]
    BY <2>2, <1>3, <1>4, <1>6 DEF HeardKept
  <2>3. CASE Index[s] # Index[d]
    <3>1. s # d /\ heard'[s] = heard[s]
      BY <2>3, Zenon
    <3>2. /\ Index[s] \in Known
          /\ m_aServers[Index[s]].last_ping >= heard[s]
          /\ heard[m_aServers[Index[s]].server] >= heard[s]
      BY <2>1, <3>1 DEF IInv, HeardKept
    <3>3. m_aServers'[Index[s]] = m_aServers[Index[s]]
      BY <2>3, <1>6, <3>2 DEF Known
    <3>4. m_aServers[Index[s]].server \in Servers
      BY <3>2 DEF IInv, Advertised, OnAir
    <3>5. heard'[m_aServers[Index[s]].server] >= heard[m_aServers[Index[s]].server]
      BY <3>4, <1>4 DEF IInv, TypeOK
    <3>6. QED
      BY <3>1, <3>2, <3>3, <3>4, <3>5, <1>4, <1>6 DEF IInv, TypeOK
  <2>4. QED
    BY <2>2, <2>3
<1>10. Published'
  BY <1>2 DEF Published, IInv, TypeOK
<1>11. QED
  BY <1>5, <1>7, <1>8, <1>9, <1>10 DEF IInv

(* A buffer that holds no server leaves the table alone.                   *)
LEMMA PassingIInv ==
  ASSUME IInv, thread = "receive", thread' = "loop", now' = 0,
         msgbuf' \in Strangers \/ msgbuf' = msgbuf, lan' \subseteq lan,
         UNCHANGED <<clock, last_multicast, m_aServers, m_iNextServerListUpdate, s_servers_drop,
                     heard, mainVars>>
  PROVE  IInv'
<1>1. msgbuf' \in Datagrams /\ (msgbuf' \in Servers => msgbuf' = msgbuf)
  BY ServerListAssumption DEF IInv, TypeOK, Datagrams
<1>2. TypeOK'
  BY <1>1 DEF IInv, TypeOK, mainVars
<1>3. Advertised' /\ Entered' /\ HeardKept'
  BY <1>1 DEF IInv, Advertised, Entered, HeardKept, OnAir, Listed, Known
<1>4. Published'
  BY DEF IInv, TypeOK, Published, Current, Fresh
<1>5. QED
  BY <1>2, <1>3, <1>4 DEF IInv

(* The second half of Pump, whatever recvfrom says. *)
LEMMA ReceiveIInv == ASSUME IInv, Receive \/ ReceiveNothing \/ ReceiveFails PROVE IInv'
<1>1. ASSUME NEW d \in Strangers, Parse(d) PROVE UNCHANGED <<m_aServers, m_iNextServerListUpdate>>
  BY <1>1, ServerListAssumption DEF Parse
<1>2. CASE Receive
  <2>1. PICK d \in lan :
          /\ lan' \subseteq lan /\ msgbuf' = d /\ Parse(d)
          /\ heard' = [s \in Servers |-> IF s = d THEN clock ELSE heard[s]]
    BY <1>2 DEF Receive
  <2>2. /\ thread = "receive" /\ thread' = "loop" /\ now' = 0
        /\ UNCHANGED <<clock, last_multicast, s_servers_drop, mainVars>>
    BY <1>2 DEF Receive
  <2>3. CASE d \in Servers
    <3>1. d \in OnAir
      BY <2>3 DEF IInv, Advertised
    <3>2. \A s \in Servers : heard'[d] >= heard'[s]
      BY <2>1, <2>3 DEF IInv, TypeOK, Entered
    <3>3. QED
      BY <2>1, <2>2, <3>1, <3>2, EnteringIInv
  <2>4. CASE d \in Strangers
    <3>1. UNCHANGED <<m_aServers, m_iNextServerListUpdate>>
      BY <1>1, <2>1, <2>4
    <3>2. heard' = heard
      BY <2>1, <2>4, ServerListAssumption DEF IInv, TypeOK
    <3>3. QED
      BY <2>1, <2>2, <2>4, <3>1, <3>2, PassingIInv
  <2>5. QED
    BY <2>3, <2>4 DEF IInv, TypeOK, Datagrams
<1>3. CASE ReceiveNothing
  <2>1. PICK d \in {msgbuf} \cup Strangers : msgbuf' = d /\ Parse(d)
    BY <1>3 DEF ReceiveNothing
  <2>2. /\ thread = "receive" /\ thread' = "loop" /\ now' = 0
        /\ UNCHANGED <<clock, last_multicast, lan, s_servers_drop, heard, mainVars>>
    BY <1>3 DEF ReceiveNothing, netVars
  <2>3. CASE d \in Servers
    <3>1. d = msgbuf
      BY <2>1, <2>3, ServerListAssumption
    <3>2. d \in OnAir /\ \A s \in Servers : heard[d] >= heard[s]
      BY <2>3, <3>1 DEF IInv, Advertised, HeardKept
    <3>3. QED
      BY <2>1, <2>2, <3>2, EnteringIInv
  <2>4. CASE d \in Strangers
    <3>1. UNCHANGED <<m_aServers, m_iNextServerListUpdate>>
      BY <1>1, <2>1, <2>4
    <3>2. QED
      BY <2>1, <2>2, <2>4, <3>1, PassingIInv
  <2>5. QED
    BY <2>1, <2>3, <2>4 DEF IInv, TypeOK, Datagrams
<1>4. CASE ReceiveFails
  BY <1>4, PassingIInv DEF ReceiveFails, netVars
<1>5. QED
  BY <1>2, <1>3, <1>4

LEMMA PublishIInv == ASSUME IInv, Publish PROVE IInv'
<1>1. /\ thread' = "receive" /\ now' = clock
      /\ UNCHANGED <<clock, last_multicast, lan, m_aServers, msgbuf, heard, s_bShutdown, caller>>
      /\ thread = "loop"
  BY DEF Publish, netVars, mainVars
<1>2. Known' = Known /\ OnAir' = OnAir /\ Fresh(clock)' = Fresh(clock)
  BY <1>1 DEF Known, OnAir, Fresh
<1>3. Current(clock)' /\ s_servers_drop' \in Seq(Listing) /\ m_iNextServerListUpdate' = clock + 1
  <2>1. CASE clock >= m_iNextServerListUpdate
    <3>1. s_servers_drop' \in Sorted(Fresh(clock)) /\ m_iNextServerListUpdate' = clock + 1
      BY <2>1 DEF Publish
    <3>2. clock \in Nat
      BY DEF IInv, TypeOK
    <3>3. IsFiniteSet(Fresh(clock)) /\ Fresh(clock) \subseteq Listing
      BY <3>2, FreshFinite, FreshListings DEF IInv
    <3>4. /\ s_servers_drop' \in Seq(Fresh(clock)) /\ ToSet(s_servers_drop') = Fresh(clock)
          /\ \A i, j \in DOMAIN s_servers_drop' :
               i < j => /\ s_servers_drop'[i] # s_servers_drop'[j]
                        /\ s_servers_drop'[i].last_ping >= s_servers_drop'[j].last_ping
      BY <3>1, <3>3, SortedLists
    <3>5. s_servers_drop' \in Seq(Listing)
      BY <3>3, <3>4
    <3>6. QED
      BY <1>1, <1>2, <3>1, <3>4, <3>5 DEF Current
  <2>2. CASE ~(clock >= m_iNextServerListUpdate)
    <3>1. UNCHANGED <<s_servers_drop, m_iNextServerListUpdate>>
      BY <2>2 DEF Publish
    <3>2. m_iNextServerListUpdate = clock + 1 /\ Current(clock)
      <4>1. m_iNextServerListUpdate = clock + 1 /\ m_iNextServerListUpdate - 1 = clock
        BY <1>1, <2>2 DEF IInv, TypeOK, Published
      <4>2. Current(m_iNextServerListUpdate - 1)
        BY <1>1, <4>1 DEF IInv, TypeOK, Published
      <4>3. QED
        BY <4>1, <4>2
    <3>3. QED
      BY <1>1, <1>2, <3>1, <3>2 DEF Current, IInv, TypeOK
  <2>3. QED
    BY <2>1, <2>2
<1>4. TypeOK'
  BY <1>1, <1>3 DEF IInv, TypeOK
<1>5. Advertised'
  <2>1. ASSUME NEW i \in DOMAIN s_servers_drop' PROVE s_servers_drop'[i].server \in OnAir
    <3>1. s_servers_drop'[i] \in Fresh(clock)
      BY <1>2, <1>3 DEF Current, ToSet
    <3>2. PICK k \in Known : s_servers_drop'[i] = m_aServers[k]
      BY <3>1 DEF Fresh, Known
    <3>3. QED
      BY <3>2 DEF IInv, Advertised
  <2>2. QED
    BY <1>1, <1>2, <2>1 DEF IInv, Advertised, Listed
<1>6. Entered' /\ HeardKept'
  BY <1>1, <1>2 DEF IInv, Entered, HeardKept
<1>7. Published'
  <2>1. m_iNextServerListUpdate' - 1 = clock /\ clock' = clock /\ clock \in Nat
    BY <1>1, <1>3 DEF IInv, TypeOK
  <2>2. Current(m_iNextServerListUpdate - 1)'
    BY <1>3, <2>1 DEF Current, Fresh
  <2>3. QED
    BY <1>1, <1>3, <2>1, <2>2 DEF Published
<1>8. QED
  BY <1>4, <1>5, <1>6, <1>7 DEF IInv

LEMMA Later ==
  \A t, u \in Nat : t <= u => \A n \in Nat : (n <= t => n <= u) /\ (n <= t + 1 => n <= u + 1)
<1>1. QED
  OBVIOUS

(* The network: time passes, servers advertise, others send.               *)
LEMMA NetworkIInv ==
  ASSUME IInv, clock' \in Nat, clock <= clock', last_multicast' \in [Servers -> Nat],
         OnAir \subseteq OnAir', lan' \subseteq Datagrams, lan' \cap Servers \subseteq OnAir',
         UNCHANGED <<threadVars, mainVars>>
  PROVE  IInv'
<1> USE DEF threadVars, mainVars
<1>1. clock \in Nat /\ clock' \in Nat /\ clock <= clock' /\ clock' # 0
  BY DEF IInv, TypeOK
<1>2. TypeOK'
  BY <1>1 DEF IInv, TypeOK
<1>3. Advertised'
  BY DEF IInv, Advertised, Known, Listed
<1>4. Entered'
  <2>1. ASSUME NEW k \in Known'
        PROVE  Index[m_aServers'[k].server] = k /\ m_aServers'[k].last_ping <= clock'
    <3>1. m_aServers'[k] = m_aServers[k] /\ k \in Known
      BY <2>1 DEF Known
    <3>2. m_aServers[k].last_ping \in Nat
      BY <3>1 DEF Known, IInv, TypeOK, Listing
    <3>3. Index[m_aServers[k].server] = k /\ m_aServers[k].last_ping <= clock
      BY <3>1 DEF IInv, Entered
    <3>4. QED
      BY <1>1, <3>1, <3>2, <3>3
  <2>2. ASSUME NEW s \in Servers PROVE heard'[s] <= clock'
    BY <1>1 DEF IInv, TypeOK, Entered
  <2>3. QED
    BY <2>1, <2>2 DEF Entered
<1>5. HeardKept'
  BY DEF IInv, HeardKept, Known
<1>6. Published'
  <2>1. m_iNextServerListUpdate \in Nat /\ now \in Nat
    BY DEF IInv, TypeOK
  <2>2. SUFFICES ASSUME thread # "none"
                 PROVE  /\ m_iNextServerListUpdate <= clock' + 1
                        /\ thread = "receive" => now <= clock' /\ m_iNextServerListUpdate = now + 1
                        /\ m_iNextServerListUpdate # 0 => Current(m_iNextServerListUpdate - 1)'
    BY Zenon DEF Published, threadVars
  <2>3. Current(m_iNextServerListUpdate - 1)' <=> Current(m_iNextServerListUpdate - 1)
    BY DEF Current, Fresh
  <2>4. m_iNextServerListUpdate <= clock + 1 /\ (thread = "receive" => now <= clock)
    BY <2>2 DEF IInv, Published
  <2>5. m_iNextServerListUpdate <= clock' + 1 /\ (thread = "receive" => now <= clock')
    BY <1>1, <2>1, <2>4, Later, Zenon
  <2>6. (thread = "receive" => m_iNextServerListUpdate = now + 1)
        /\ (m_iNextServerListUpdate # 0 => Current(m_iNextServerListUpdate - 1))
    BY <2>2 DEF IInv, Published
  <2>7. QED
    BY <2>3, <2>5, <2>6, Zenon
<1>7. QED
  BY <1>2, <1>3, <1>4, <1>5, <1>6 DEF IInv

(* The thread starts or ends, with an empty table where there is one.      *)
LEMMA EmptyIInv ==
  ASSUME IInv, m_aServers' = NoServers, m_iNextServerListUpdate' = 0 \/ thread' = "none",
         m_iNextServerListUpdate' \in Nat, now' \in Nat,
         thread' \in {"loop", "none"}, msgbuf' \in Strangers, heard' = [s \in Servers |-> 0],
         s_bShutdown' \in BOOLEAN, caller' \in {"idle", "joining"},
         UNCHANGED <<netVars, s_servers_drop>>
  PROVE  IInv'
<1> USE DEF netVars
<1>1. msgbuf' \notin Servers /\ msgbuf' \in Datagrams
  BY ServerListAssumption DEF Datagrams
<1>2. NoServers \in [Keys -> Listing \cup {Unknown}] /\ Known' = {}
  BY DEF NoServers, Known
<1>3. TypeOK'
  BY <1>1, <1>2 DEF IInv, TypeOK
<1>4. Advertised' /\ Entered' /\ HeardKept'
  BY <1>1, <1>2 DEF IInv, TypeOK, Advertised, Entered, HeardKept, OnAir, Listed
<1>5. Published'
  <2>1. clock \in Nat /\ clock' = clock
    BY DEF IInv, TypeOK
  <2>2. CASE thread' = "none"
    BY <2>2 DEF Published
  <2>3. CASE thread' = "loop" /\ m_iNextServerListUpdate' = 0
    BY <2>1, <2>3 DEF Published
  <2>4. QED
    BY <2>2, <2>3
<1>6. QED
  BY <1>3, <1>4, <1>5 DEF IInv

LEMMA NextIInv == IInv /\ [Next]_vars => IInv'
<1> SUFFICES ASSUME IInv, [Next]_vars PROVE IInv'
  OBVIOUS
<1>1. CASE Tick
  <2>1. clock' = clock + 1 /\ clock \in Nat /\ OnAir' = OnAir
    BY <1>1 DEF Tick, IInv, TypeOK, OnAir
  <2>2. QED
    BY <1>1, <2>1, NetworkIInv DEF Tick, IInv, TypeOK, Advertised
<1>2. ASSUME NEW s \in Servers, Advertise(s) PROVE IInv'
  <2>1. /\ last_multicast' = [last_multicast EXCEPT ![s] = clock]
        /\ lan' \subseteq lan \cup {s}
        /\ UNCHANGED <<clock, threadVars, mainVars>>
    BY <1>2 DEF Advertise
  <2>2. clock \in Nat /\ clock > 0 /\ last_multicast' \in [Servers -> Nat] /\ lan' \subseteq Datagrams
    BY <2>1 DEF IInv, TypeOK, Datagrams
  <2>3. OnAir \cup {s} \subseteq OnAir'
    BY <2>1, <2>2 DEF OnAir, IInv, TypeOK
  <2>4. lan' \cap Servers \subseteq OnAir'
    BY <2>1, <2>3 DEF IInv, Advertised
  <2>5. QED
    BY <2>1, <2>2, <2>3, <2>4, NetworkIInv
<1>3. CASE Stranger
  <2>1. PICK d \in Strangers : lan' = lan \cup {d}
    BY <1>3 DEF Stranger
  <2>2. lan' \subseteq Datagrams /\ lan' \cap Servers = lan \cap Servers
    BY <2>1, ServerListAssumption DEF IInv, TypeOK, Datagrams
  <2>3. OnAir' = OnAir /\ UNCHANGED <<clock, last_multicast, threadVars, mainVars>>
    BY <1>3 DEF Stranger, OnAir
  <2>4. QED
    BY <2>2, <2>3, NetworkIInv DEF IInv, TypeOK, Advertised
<1>4. CASE Receive \/ ReceiveNothing \/ ReceiveFails
  BY <1>4, ReceiveIInv
<1>5. CASE Publish
  BY <1>5, PublishIInv
<1>6. CASE Exit
  <2>1. TypeOK'
    BY <1>6 DEF Exit, IInv, TypeOK, netVars, mainVars
  <2>2. Advertised' /\ Entered' /\ HeardKept' /\ Published'
    BY <1>6 DEF Exit, IInv, netVars, Advertised, Entered, HeardKept, Published, OnAir, Known, Listed
  <2>3. QED
    BY <2>1, <2>2 DEF IInv
<1>7. CASE Run
  BY <1>7, EmptyIInv DEF Run, IInv, TypeOK
<1>8. CASE Shutdown
  <2>1. TypeOK'
    BY <1>8 DEF Shutdown, IInv, TypeOK, netVars, threadVars
  <2>2. Advertised' /\ Entered' /\ HeardKept' /\ Published'
    BY <1>8 DEF Shutdown, IInv, netVars, threadVars, Advertised, Entered, HeardKept, Published,
                OnAir, Known, Listed, Current, Fresh
  <2>3. QED
    BY <2>1, <2>2 DEF IInv
<1>9. CASE Join
  <2>1. TypeOK'
    <3>1. NoServers \in [Keys -> Listing \cup {Unknown}]
      BY DEF NoServers
    <3>2. QED
      BY <1>9, <3>1 DEF Join, IInv, TypeOK, netVars
  <2>2. Known' = {}
    BY <1>9 DEF Join, Known, NoServers
  <2>3. Advertised' /\ Entered' /\ HeardKept' /\ Published'
    BY <1>9, <2>2 DEF Join, IInv, netVars, Advertised, Entered, HeardKept, Published, OnAir, Listed
  <2>4. QED
    BY <2>1, <2>3 DEF IInv
<1>10. CASE UNCHANGED vars
  <2>1. OnAir' = OnAir /\ UNCHANGED <<clock, last_multicast, lan, threadVars, mainVars>>
    BY <1>10 DEF vars, netVars, OnAir
  <2>2. QED
    BY <2>1, NetworkIInv DEF IInv, TypeOK, Advertised
<1>11. QED
  BY <1>1, <1>2, <1>3, <1>4, <1>5, <1>6, <1>7, <1>8, <1>9, <1>10 DEF Next, Thread

-----------------------------------------------------------------------------
LEMMA IInvListIsCurrent == IInv => ListIsCurrent
<1> SUFFICES ASSUME IInv, thread = "receive" PROVE Current(now)
  BY DEF ListIsCurrent, Current
<1>1. now \in Nat /\ m_iNextServerListUpdate = now + 1 /\ m_iNextServerListUpdate - 1 = now
  BY DEF IInv, TypeOK, Published
<1>2. Current(m_iNextServerListUpdate - 1)
  BY <1>1 DEF IInv, Published
<1>3. QED
  BY <1>1, <1>2

LEMMA IInvHeardIsListed == IInv => HeardIsListed
<1> SUFFICES ASSUME IInv, thread = "receive", NEW s \in Servers,
                    heard[s] > 0, now - heard[s] <= Expiry
             PROVE  s \in Listed \/ \E r \in Servers \ {s} : Index[r] = Index[s] /\ heard[r] >= heard[s]
  BY DEF HeardIsListed
<1> DEFINE entry == m_aServers[Index[s]]
<1>1. /\ Index[s] \in Known /\ entry.last_ping >= heard[s] /\ heard[entry.server] >= heard[s]
  BY DEF IInv, HeardKept
<1>2. entry \in Listing /\ Index[entry.server] = Index[s]
  BY <1>1 DEF Known, IInv, TypeOK, Entered
<1>3. entry \in Fresh(now)
  <2>1. now - entry.last_ping <= Expiry
    <3>1. /\ now \in Nat /\ heard[s] \in Nat /\ entry.last_ping \in Nat
          /\ entry.last_ping >= heard[s] /\ now - heard[s] <= Expiry
      BY <1>1, <1>2 DEF IInv, TypeOK, Listing
    <3>2. QED
      BY <3>1, ServerListAssumption
  <2>2. QED
    BY <1>1, <2>1 DEF Fresh, Known
<1>4. entry.server \in Listed
  BY <1>3, IInvListIsCurrent DEF ListIsCurrent, ToSet, Listed
<1>5. QED
  BY <1>1, <1>2, <1>4 DEF Listing

(* Spec types its variables. *)
THEOREM TypeCorrect == Spec => []TypeOK
<1>1. QED
  BY InitIInv, NextIInv, PTL DEF Spec, IInv

(* What the main thread reads is what is fresh in the table whenever the   *)
(* thread is past the publication.  The list is made only when it is due,  *)
(* so the invariant ties it to the second in which it was made.            *)
THEOREM ListIsCurrentHolds == Spec => []ListIsCurrent
<1>1. QED
  BY InitIInv, NextIInv, IInvListIsCurrent, PTL DEF Spec

(* A server that was received lately is listed, if it does not share its   *)
(* key with another that was: reading an old buffer again hides nobody.    *)
THEOREM HeardIsListedHolds == Spec => []HeardIsListed
<1>1. QED
  BY InitIInv, NextIInv, IInvHeardIsListed, PTL DEF Spec

(* Nothing but servers that have advertised themselves is ever listed.     *)
THEOREM ListedAdvertisedHolds == Spec => []ListedAdvertised
<1>1. IInv => ListedAdvertised
  BY DEF IInv, Advertised, ListedAdvertised, OnAir
<1>2. QED
  BY InitIInv, NextIInv, <1>1, PTL DEF Spec
=============================================================================
