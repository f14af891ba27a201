------------------------------ MODULE ServerList ------------------------------
(***************************************************************************)
(* The list of servers a client can connect to.  Every running server      *)
(* advertises itself by multicast once per second (vb_server_update in     *)
(* server/viewback.c); a thread of the client (client/viewback_servers.cpp)*)
(* receives the datagrams, keeps the servers it has heard from, and        *)
(* publishes those that are still fresh under a mutex, for the main thread *)
(* to read.  Datagrams are lost, duplicated and reordered, and other       *)
(* programs may send to the same group.                                    *)
(*                                                                         *)
(* A server is a pair of an address and a port; its name is left out.      *)
(***************************************************************************)
EXTENDS Integers, Sequences, FiniteSets, SequencesExt

CONSTANTS
  Servers,      \* pairs of an address and a port
  Index,        \* port ^ address, the key of a server in m_aServers
  Strangers,    \* buffers that hold no advertisement of version 1
  Unknown,      \* a key that is not in m_aServers
  Expiry,       \* seconds after which a server is left out, 10 in the code
  MaxTime,      \* bound: seconds that pass
  MaxInFlight   \* bound: datagrams under way at once

ASSUME ServerListAssumption ==
  /\ IsFiniteSet(Servers) /\ Index \in [Servers -> {Index[s] : s \in Servers}]
  /\ Expiry \in Nat /\ MaxTime \in Nat /\ MaxInFlight \in Nat
  /\ Strangers \cap Servers = {}

Keys      == {Index[s] : s \in Servers}
Datagrams == Servers \cup Strangers
Listing   == [server : Servers, last_ping : Nat]

ASSUME UnknownAssumption == Unknown \notin Listing

VARIABLES
  clock,           \* time(), in seconds
  last_multicast,  \* of every server
  lan,             \* datagrams that may still arrive, once or more often
  thread,          \* the thread: none, at its loop test, or about to receive
  now,             \* Pump's local variable, 0 outside
  m_aServers, m_iNextServerListUpdate, s_bShutdown, s_servers_drop,
  msgbuf,          \* what the stack holds where Pump receives: buffer and address
  caller,          \* the main thread: idle, or in the join of Shutdown
  heard            \* history: when the thread last received each server, 0 for never

netVars    == <<clock, last_multicast, lan>>
threadVars == <<thread, now, m_aServers, m_iNextServerListUpdate, s_servers_drop, msgbuf, heard>>
mainVars   == <<s_bShutdown, caller>>
vars       == <<netVars, threadVars, mainVars>>

TypeOK ==
  /\ clock \in Nat \ {0}
  /\ last_multicast \in [Servers -> Nat]
  /\ lan \subseteq Datagrams
  /\ thread \in {"none", "loop", "receive"} /\ now \in Nat
  /\ m_aServers \in [Keys -> Listing \cup {Unknown}]
  /\ m_iNextServerListUpdate \in Nat
  /\ s_servers_drop \in Seq(Listing)
  /\ msgbuf \in Datagrams
  /\ heard \in [Servers -> Nat]
  /\ s_bShutdown \in BOOLEAN /\ caller \in {"idle", "joining"}

NoServers == [k \in Keys |-> Unknown]

Init ==
  /\ clock = 1 /\ last_multicast = [s \in Servers |-> 0] /\ lan = {}
  /\ thread = "none" /\ now = 0
  /\ m_aServers = NoServers /\ m_iNextServerListUpdate = 0
  /\ s_servers_drop = << >> /\ msgbuf \in Strangers /\ heard = [s \in Servers |-> 0]
  /\ s_bShutdown = FALSE /\ caller = "idle"

-----------------------------------------------------------------------------
(* The servers and the network. *)

Tick ==
  /\ clock < MaxTime /\ clock' = clock + 1
  /\ UNCHANGED <<last_multicast, lan, threadVars, mainVars>>

(* At most once per second, while it runs and its game calls               *)
(* vb_server_update; sendto may fail, and the datagram may be lost.        *)
Advertise(s) ==
  /\ clock > last_multicast[s]
  /\ last_multicast' = [last_multicast EXCEPT ![s] = clock]
  /\ \/ lan' = lan
     \/ Cardinality(lan) < MaxInFlight /\ lan' = lan \cup {s}
  /\ UNCHANGED <<clock, threadVars, mainVars>>

Stranger ==
  /\ \E d \in Strangers : Cardinality(lan) < MaxInFlight /\ lan' = lan \cup {d}
  /\ UNCHANGED <<clock, last_multicast, threadVars, mainVars>>

-----------------------------------------------------------------------------
(* The thread. *)

Exit ==
  /\ thread = "loop" /\ s_bShutdown
  /\ thread' = "none"
  /\ UNCHANGED <<netVars, now, m_aServers, m_iNextServerListUpdate, s_servers_drop, msgbuf,
                 heard, mainVars>>

Fresh(time) == {m_aServers[k] : k \in {j \in Keys : /\ m_aServers[j] # Unknown
                                                    /\ time - m_aServers[j].last_ping <= Expiry}}

last_ping_sort(l, r) == l.last_ping >= r.last_ping

(* std::sort, which may put equal elements in either order. *)
Sorted(listings) ==
  {list \in SetToSeqs(listings) : \A i, j \in DOMAIN list : i < j => last_ping_sort(list[i], list[j])}

(* The first half of Pump.  The list is made from m_aServers, which no     *)
(* other thread uses, and handed over with the mutex held.                 *)
Publish ==
  /\ thread = "loop" /\ ~s_bShutdown
  /\ thread' = "receive" /\ now' = clock
  /\ IF clock >= m_iNextServerListUpdate
     THEN /\ s_servers_drop' \in Sorted(Fresh(clock))
          /\ m_iNextServerListUpdate' = clock + 1
     ELSE UNCHANGED <<s_servers_drop, m_iNextServerListUpdate>>
  /\ UNCHANGED <<netVars, m_aServers, msgbuf, heard, mainVars>>

(* Faulty variants: the list is not made anew; a server is entered under   *)
(* its address; any datagram is taken for an advertisement.                *)
ParseLater(d) ==
  IF d \in Servers
  THEN /\ m_aServers' = [m_aServers EXCEPT ![Index[d]] = [server |-> d, last_ping |-> clock]]
       /\ UNCHANGED m_iNextServerListUpdate
  ELSE UNCHANGED <<m_aServers, m_iNextServerListUpdate>>

ParseByAddress(d) ==
  IF d \in Servers
  THEN LET first == CHOOSE s \in Servers : s[1] = d[1]
       IN  /\ m_aServers' = [m_aServers EXCEPT ![Index[first]] = [server |-> d, last_ping |-> clock]]
           /\ m_iNextServerListUpdate' = 0
  ELSE UNCHANGED <<m_aServers, m_iNextServerListUpdate>>

ParseAnything(d) ==
  LET s == IF d \in Servers THEN d ELSE CHOOSE s \in Servers : TRUE
  IN  /\ m_aServers' = [m_aServers EXCEPT ![Index[s]] = [server |-> s, last_ping |-> clock]]
      /\ m_iNextServerListUpdate' = 0

(* What Pump makes of its buffer: "VB" and version 1, or nothing.          *)
Parse(d) ==
  IF d \in Servers
  THEN /\ m_aServers' = [m_aServers EXCEPT ![Index[d]] = [server |-> d, last_ping |-> clock]]
       /\ m_iNextServerListUpdate' = 0
  ELSE UNCHANGED <<m_aServers, m_iNextServerListUpdate>>

(* recvfrom has something.  A datagram can come a second time.             *)
Receive ==
  /\ thread = "receive" /\ thread' = "loop" /\ now' = 0
  /\ \E d \in lan :
       /\ \/ lan' = lan \ {d}
          \/ lan' = lan
       /\ msgbuf' = d /\ Parse(d)
       /\ heard' = [s \in Servers |-> IF s = d THEN clock ELSE heard[s]]
  /\ UNCHANGED <<clock, last_multicast, s_servers_drop, mainVars>>

(* Faulty variant: the socket blocks, so there is no such step. *)
ReceiveBlocks == FALSE /\ UNCHANGED vars

(* recvfrom would block.  Pump goes on as if something had come: the       *)
(* buffer, which is not initialised, holds what came last, or other data   *)
(* that has used the stack since.                                          *)
ReceiveNothing ==
  /\ thread = "receive" /\ thread' = "loop" /\ now' = 0
  /\ \E d \in {msgbuf} \cup Strangers : msgbuf' = d /\ Parse(d)
  /\ UNCHANGED <<netVars, s_servers_drop, heard, mainVars>>

(* Any other error of recvfrom: Pump returns at once. *)
ReceiveFails ==
  /\ thread = "receive" /\ thread' = "loop" /\ now' = 0
  /\ UNCHANGED <<netVars, m_aServers, m_iNextServerListUpdate, s_servers_drop, msgbuf,
                 heard, mainVars>>

Thread == Exit \/ Publish \/ Receive \/ ReceiveNothing

-----------------------------------------------------------------------------
(* The main thread. *)

(* Initialize, which may fail at the socket, the bind, the group or the    *)
(* thread.  s_bShutdown is left as it is, and so is the published list.    *)
Run ==
  /\ thread = "none" /\ caller = "idle"
  /\ m_aServers' = NoServers /\ m_iNextServerListUpdate' = 0
  /\ thread' \in {"loop", "none"}
  /\ msgbuf' \in Strangers /\ heard' = [s \in Servers |-> 0]
  /\ UNCHANGED <<netVars, now, s_servers_drop, s_bShutdown, caller>>

Shutdown ==
  /\ thread # "none" /\ caller = "idle"
  /\ s_bShutdown' = TRUE /\ caller' = "joining"
  /\ UNCHANGED <<netVars, threadVars>>

(* The thread has ended: the join returns. *)
Join ==
  /\ caller = "joining" /\ thread = "none"
  /\ caller' = "idle" /\ m_aServers' = NoServers
  /\ UNCHANGED <<netVars, thread, now, m_iNextServerListUpdate, s_servers_drop, msgbuf, heard,
                 s_bShutdown>>

Next ==
  \/ Tick \/ Stranger \/ \E s \in Servers : Advertise(s)
  \/ Thread \/ ReceiveFails
  \/ Run \/ Shutdown \/ Join

(* The thread runs and the join returns once it can; recvfrom need never   *)
(* fail.                                                                   *)
Spec == Init /\ [][Next]_vars /\ WF_vars(Thread) /\ WF_vars(Join)

-----------------------------------------------------------------------------
(* What GetServers copies with the mutex held; FindServer connects to the  *)
(* first of them.                                                          *)
Listed == {s_servers_drop[i].server : i \in DOMAIN s_servers_drop}

(* Whenever the thread has passed the publication, the list the main       *)
(* thread reads holds exactly the servers whose last ping is fresh, the    *)
(* latest first: the list is made only when due, and must not miss what    *)
(* came, or what grew old, since the last time.                            *)
ListIsCurrent ==
  thread = "receive" =>
    /\ ToSet(s_servers_drop) = Fresh(now)
    /\ \A i, j \in DOMAIN s_servers_drop :
         i < j => /\ s_servers_drop[i] # s_servers_drop[j]
                  /\ s_servers_drop[i].last_ping >= s_servers_drop[j].last_ping

(* A server that was received in the last seconds is on the list, unless   *)
(* another has the same key: port ^ address is not one to one.             *)
HeardIsListed ==
  thread = "receive" =>
    \A s \in Servers :
      heard[s] > 0 /\ now - heard[s] <= Expiry =>
        s \in Listed \/ \E r \in Servers \ {s} : Index[r] = Index[s] /\ heard[r] >= heard[s]

(* Nothing but a server that has advertised itself is listed, whatever     *)
(* else is sent to the group and however often the buffer is looked at     *)
(* again.                                                                  *)
ListedAdvertised ==
  \A s \in Listed : last_multicast[s] > 0

(* Shutdown waits for the thread, which must not wait for a datagram.      *)
ShutdownReturns == (caller = "joining") ~> (caller = "idle")
=============================================================================
