-------------------------- MODULE DataStreamProofs --------------------------
(***************************************************************************)
(* What holds of the data stream for every number of clients, every set of *)
(* values and without the bounds of the model checking.                    *)
(***************************************************************************)
EXTENDS DataStream, WellFoundedInduction, TLAPS

(* A data packet adds points from its maintain time on, or from its own    *)
(* time if it has none.                                                    *)
IsData(p) == p # Registration
Start(p) == IF p.maintain # 0 THEN p.maintain ELSE p.time

(* A time a list or a packet under way may have, at time t and with        *)
(* maintain time m.                                                        *)
Past(time, t, m) == time <= t /\ (m # 0 => time <= m)

Ordered(list) == \A i, j \in 1 .. Len(list) : i < j => list[i].time <= list[j].time

(* What keeps one client's points in order: nothing it has, or has under   *)
(* way, is later than the server's time and maintain time, and each packet *)
(* starts where the packets before it, and the list, have ended.           *)
Timed(list, w, t, m) ==
  /\ list \in Seq(Points) /\ w \in Seq(Packets \cup {Registration})
  /\ Ordered(list)
  /\ \A i \in 1 .. Len(list) : Past(list[i].time, t, m)
  /\ \A i \in 1 .. Len(w) : IsData(w[i]) => Past(w[i].time, t, m) /\ Start(w[i]) <= w[i].time
  /\ \A i \in 1 .. Len(list), j \in 1 .. Len(w) : IsData(w[j]) => list[i].time <= Start(w[j])
  /\ \A i, j \in 1 .. Len(w) : i < j /\ IsData(w[i]) /\ IsData(w[j]) => w[i].time <= Start(w[j])

Typed ==
  /\ now \in Nat /\ maintain \in Nat /\ maintain <= now
  /\ updates \in Nat /\ last \in Values
  /\ wire \in [Clients -> Seq(Packets \cup {Registration})]
  /\ view \in [Clients -> Views]

IInv == Typed /\ \A c \in Clients : Timed(view[c].list, wire[c], now, maintain)

LEMMA PointTimes == ASSUME NEW list \in Seq(Points) PROVE \A i \in 1 .. Len(list) : list[i].time \in Nat
<1> SUFFICES ASSUME NEW i \in 1 .. Len(list) PROVE list[i].time \in Nat
  OBVIOUS
<1>1. list[i] \in Points
  OBVIOUS
<1>2. QED
  BY <1>1 DEF Points, Times

LEMMA PacketTimes ==
  ASSUME NEW w \in Seq(Packets \cup {Registration})
  PROVE  \A i \in 1 .. Len(w) : IsData(w[i]) =>
           w[i] \in Packets /\ w[i].time \in Nat /\ Start(w[i]) \in Nat
<1> SUFFICES ASSUME NEW i \in 1 .. Len(w), IsData(w[i])
             PROVE  w[i] \in Packets /\ w[i].time \in Nat /\ Start(w[i]) \in Nat
  OBVIOUS
<1>1. w[i] \in Packets
  BY DEF IsData
<1>2. w[i].time \in Nat /\ w[i].maintain \in Nat
  BY <1>1 DEF Packets, Times
<1>3. QED
  BY <1>1, <1>2 DEF Start

(* The server's time moves on; its maintain time is kept, forgotten, or    *)
(* set to the time.                                                        *)
LEMMA TimePasses ==
  ASSUME NEW list, NEW w, NEW t \in Nat, NEW m \in Nat, NEW t2 \in Nat, NEW m2 \in Nat,
         Timed(list, w, t, m), t <= t2, m2 \in {0, m, t2}
  PROVE  Timed(list, w, t2, m2)
<1>1. \A time \in Nat : Past(time, t, m) => Past(time, t2, m2)
  BY DEF Past
<1>2. \A i \in 1 .. Len(list) : list[i].time \in Nat
  BY PointTimes DEF Timed
<1>3. \A i \in 1 .. Len(w) : IsData(w[i]) => w[i].time \in Nat
  BY PacketTimes DEF Timed
<1>4. QED
  BY <1>1, <1>2, <1>3 DEF Timed

(* A packet made now may follow the packets under way. *)
LEMMA PacketSent ==
  ASSUME NEW list, NEW w, NEW t \in Nat, NEW m \in Nat, NEW p \in Packets,
         Timed(list, w, t, m), m <= t, p.time = t, p.maintain = m
  PROVE  Timed(list, Append(w, p), t, 0)
<1> DEFINE w2 == Append(w, p)
<1>1. /\ w2 \in Seq(Packets \cup {Registration}) /\ Len(w2) = Len(w) + 1
      /\ w2[Len(w) + 1] = p /\ \A i \in 1 .. Len(w) : w2[i] = w[i]
  BY DEF Timed
<1>2. Start(p) \in {m, t} /\ Start(p) <= p.time /\ (m # 0 => Start(p) = m) /\ (m = 0 => Start(p) = t)
  BY DEF Start
<1>3. \A time \in Nat : Past(time, t, m) => Past(time, t, 0) /\ time <= Start(p)
  BY <1>2 DEF Past
<1>4. \A i \in 1 .. Len(list) : list[i].time \in Nat
  BY PointTimes DEF Timed
<1>5. \A i \in 1 .. Len(w) : IsData(w[i]) => w[i].time \in Nat
  BY PacketTimes DEF Timed
<1>6. Past(p.time, t, 0)
  BY DEF Past
<1>7. \A i \in 1 .. Len(w2) : i \in 1 .. Len(w) \/ (i = Len(w) + 1 /\ w2[i] = p)
  BY <1>1 DEF Timed
<1>8. \A i \in 1 .. Len(list) : Past(list[i].time, t, 0) /\ list[i].time <= Start(p)
  BY <1>3, <1>4 DEF Timed
<1>9. \A i \in 1 .. Len(w) : IsData(w[i]) =>
        Past(w[i].time, t, 0) /\ w[i].time <= Start(p) /\ Start(w[i]) <= w[i].time
  BY <1>3, <1>5 DEF Timed
<1>10. \A i \in 1 .. Len(w2) : IsData(w2[i]) =>
         Past(w2[i].time, t, 0) /\ Start(w2[i]) <= w2[i].time
  BY <1>1, <1>2, <1>6, <1>7, <1>9
<1>11. \A i \in 1 .. Len(list), j \in 1 .. Len(w2) : IsData(w2[j]) => list[i].time <= Start(w2[j])
  BY <1>1, <1>7, <1>8 DEF Timed
<1>12. \A i, j \in 1 .. Len(w2) :
         i < j /\ IsData(w2[i]) /\ IsData(w2[j]) => w2[i].time <= Start(w2[j])
  <2> SUFFICES ASSUME NEW i \in 1 .. Len(w2), NEW j \in 1 .. Len(w2),
                      i < j, IsData(w2[i]), IsData(w2[j])
               PROVE  w2[i].time <= Start(w2[j])
    OBVIOUS
  <2>1. i \in 1 .. Len(w) /\ w2[i] = w[i]
    BY <1>1, <1>7 DEF Timed
  <2>2. CASE j \in 1 .. Len(w)
    BY <2>1, <2>2, <1>1 DEF Timed
  <2>3. CASE j = Len(w) + 1 /\ w2[j] = p
    BY <2>1, <2>3, <1>9
  <2>4. QED
    BY <2>2, <2>3, <1>7
<1>13. QED
  BY <1>1, <1>8, <1>10, <1>11, <1>12 DEF Timed

(* A registration packet may follow at any time. *)
LEMMA RegistrationSent ==
  ASSUME NEW list, NEW w, NEW t \in Nat, NEW m \in Nat, Timed(list, w, t, m)
  PROVE  Timed(list, Append(w, Registration), t, m)
<1> DEFINE w2 == Append(w, Registration)
<1>1. /\ w2 \in Seq(Packets \cup {Registration}) /\ Len(w2) = Len(w) + 1
      /\ \A i \in 1 .. Len(w2) : IsData(w2[i]) => i \in 1 .. Len(w) /\ w2[i] = w[i]
  BY DEF Timed, IsData
<1>2. QED
  BY <1>1 DEF Timed

LEMMA Connected ==
  ASSUME NEW list, NEW w, NEW t \in Nat, NEW m \in Nat, Timed(list, w, t, m)
  PROVE  Timed(list, <<Registration>>, t, m)
<1>1. \A i \in 1 .. Len(<<Registration>>) : ~IsData(<<Registration>>[i])
  BY DEF IsData
<1>2. <<Registration>> \in Seq(Packets \cup {Registration})
  OBVIOUS
<1>3. QED
  BY <1>1, <1>2 DEF Timed

(* A point that ends a list keeps it in order if it is not earlier than    *)
(* any point before it.                                                    *)
LEMMA OrderedAppend ==
  ASSUME NEW list \in Seq(Points), NEW x \in Points, Ordered(list),
         \A i \in 1 .. Len(list) : list[i].time <= x.time
  PROVE  /\ list \o <<x>> \in Seq(Points) /\ Ordered(list \o <<x>>)
         /\ Len(list \o <<x>>) = Len(list) + 1
         /\ (list \o <<x>>)[Len(list) + 1] = x
         /\ \A i \in 1 .. Len(list) : (list \o <<x>>)[i] = list[i]
<1> DEFINE l2 == list \o <<x>>
<1>1. /\ l2 \in Seq(Points) /\ Len(l2) = Len(list) + 1 /\ l2[Len(list) + 1] = x
      /\ \A i \in 1 .. Len(list) : l2[i] = list[i]
  OBVIOUS
<1>2. Ordered(l2)
  <2> SUFFICES ASSUME NEW i \in 1 .. Len(l2), NEW j \in 1 .. Len(l2), i < j
               PROVE  l2[i].time <= l2[j].time
    BY DEF Ordered
  <2>1. i \in 1 .. Len(list) /\ l2[i] = list[i]
    BY <1>1
  <2>2. CASE j \in 1 .. Len(list)
    BY <2>1, <2>2, <1>1 DEF Ordered
  <2>3. CASE j = Len(list) + 1
    BY <2>1, <2>3, <1>1
  <2>4. QED
    BY <2>2, <2>3, <1>1
<1>3. QED
  BY <1>1, <1>2
(* What StashData appends to a list keeps it in order. *)
LEMMA AppendedOrdered ==
  ASSUME NEW list \in Seq(Points), NEW p \in Packets, Ordered(list), Start(p) <= p.time,
         \A i \in 1 .. Len(list) : list[i].time <= Start(p)
  PROVE  /\ Appended(list, p) \in Seq(Points)
         /\ Ordered(Appended(list, p))
         /\ \A i \in 1 .. Len(Appended(list, p)) : Appended(list, p)[i].time <= p.time
<1> DEFINE x == Point(p.maintain, Last(list).data)
           y == Point(p.time, p.data)
<1>1. /\ p.time \in Nat /\ p.maintain \in Nat /\ y \in Points /\ y.time = p.time
      /\ Start(p) \in Nat
  BY DEF Packets, Points, Point, Times, Start
<1>2. \A i \in 1 .. Len(list) : list[i].time \in Nat
  BY PointTimes
<1>3. CASE p.maintain # 0 /\ list # << >> /\ p.maintain # Last(list).time
  <2>1. Appended(list, p) = (list \o <<x>>) \o <<y>>
    BY <1>3 DEF Appended
  <2>2. x \in Points /\ x.time = Start(p)
    <3>1. Last(list) \in Points
      BY <1>3 DEF Last
    <3>2. QED
      BY <3>1, <1>1, <1>3 DEF Points, Point, Times, Start
  <2> DEFINE l1 == list \o <<x>>
  <2>3. /\ l1 \in Seq(Points) /\ Ordered(l1) /\ Len(l1) = Len(list) + 1
        /\ l1[Len(list) + 1] = x /\ \A i \in 1 .. Len(list) : l1[i] = list[i]
    BY <2>2, OrderedAppend
  <2>4. \A i \in 1 .. Len(l1) : l1[i].time <= y.time
    <3> SUFFICES ASSUME NEW i \in 1 .. Len(l1) PROVE l1[i].time <= y.time
      OBVIOUS
    <3>1. CASE i \in 1 .. Len(list)
      BY <3>1, <2>3, <1>1, <1>2
    <3>2. CASE i = Len(list) + 1
      BY <3>2, <2>2, <2>3, <1>1
    <3>3. QED
      BY <3>1, <3>2, <2>3
  <2> DEFINE l2 == l1 \o <<y>>
  <2> HIDE DEF l1
  <2>5. /\ l2 \in Seq(Points) /\ Ordered(l2) /\ Len(l2) = Len(l1) + 1
        /\ l2[Len(l1) + 1] = y /\ \A i \in 1 .. Len(l1) : l2[i] = l1[i]
    BY <2>3, <2>4, <1>1, OrderedAppend
  <2>6. \A i \in 1 .. Len(l2) : l2[i].time <= p.time
    <3> SUFFICES ASSUME NEW i \in 1 .. Len(l2) PROVE l2[i].time <= p.time
      OBVIOUS
    <3>1. CASE i \in 1 .. Len(l1)
      BY <3>1, <2>4, <2>5, <1>1
    <3>2. CASE i = Len(l1) + 1
      BY <3>2, <2>5, <1>1
    <3>3. QED
      BY <3>1, <3>2, <2>5, <2>3
  <2>7. Appended(list, p) = l2
    BY <2>1 DEF l1
  <2>8. QED
    BY <2>5, <2>6, <2>7
<1>4. CASE ~(p.maintain # 0 /\ list # << >> /\ p.maintain # Last(list).time)
  <2>1. Appended(list, p) = list \o <<y>>
    <3>1. Appended(list, p) = (list \o << >>) \o <<y>>
      BY <1>4, Zenon DEF Appended
    <3>2. list \o << >> = list
      OBVIOUS
    <3>3. QED
      BY <3>1, <3>2
  <2>2. \A i \in 1 .. Len(list) : list[i].time <= y.time
    BY <1>1, <1>2
  <2> DEFINE l2 == list \o <<y>>
  <2>3. /\ l2 \in Seq(Points) /\ Ordered(l2) /\ Len(l2) = Len(list) + 1
        /\ l2[Len(list) + 1] = y /\ \A i \in 1 .. Len(list) : l2[i] = list[i]
    BY <2>2, <1>1, OrderedAppend
  <2>4. \A i \in 1 .. Len(l2) : l2[i].time <= p.time
    <3> SUFFICES ASSUME NEW i \in 1 .. Len(l2) PROVE l2[i].time <= p.time
      OBVIOUS
    <3>1. CASE i \in 1 .. Len(list)
      BY <3>1, <2>2, <2>3, <1>1
    <3>2. CASE i = Len(list) + 1
      BY <3>2, <2>3, <1>1
    <3>3. QED
      BY <3>1, <3>2, <2>3
  <2>5. QED
    BY <2>1, <2>3, <2>4
<1>5. QED
  BY <1>3, <1>4

(* What is left of a list that is cleared is an end of it. *)
LEMMA ClearedIsEnd ==
  ASSUME NEW list \in Seq(Points), NEW limit, list # << >>
  PROVE  \E k \in 1 .. Len(list) : Cleared(list, limit) = SubSeq(list, k, Len(list))
<1> DEFINE keep == {k \in 1 .. Len(list) : k + 1 >= Len(list) \/ list[k].time >= limit}
           First(k) == k \in keep /\ \A j \in keep : k <= j
<1>1. Len(list) \in keep
  OBVIOUS
<1>2. \E k \in keep : \A j \in keep : k <= j
  <2>1. keep \subseteq Nat /\ keep # {}
    BY <1>1
  <2>2. \E k \in keep : \A j \in keep : ~(<<j, k>> \in OpToRel(<, Nat))
    <3> HIDE DEF keep
    <3>1. QED
      BY <2>1, WFMin, NatLessThanWellFounded
  <2>3. \A j, k \in Nat : <<j, k>> \in OpToRel(<, Nat) <=> j < k
    BY DEF OpToRel
  <2>4. PICK k \in keep : \A j \in keep : ~(<<j, k>> \in OpToRel(<, Nat))
    BY <2>2
  <2>5. \A j \in keep : ~(j < k)
    BY <2>1, <2>3, <2>4, Zenon
  <2>6. \A j \in keep : k <= j
    BY <2>5
  <2>7. QED
    BY <2>6
<1>3. (CHOOSE k \in keep : \A j \in keep : k <= j) \in keep
  BY <1>2
<1>4. QED
  BY <1>3 DEF Cleared

LEMMA ClearedTimed ==
  ASSUME NEW list, NEW w, NEW t \in Nat, NEW m \in Nat, NEW limit, Timed(list, w, t, m)
  PROVE  Timed(Cleared(list, limit), w, t, m)
<1>1. CASE list = << >>
  BY <1>1 DEF Cleared
<1>2. CASE list # << >>
  <2>1. PICK k \in 1 .. Len(list) : Cleared(list, limit) = SubSeq(list, k, Len(list))
    BY <1>2, ClearedIsEnd DEF Timed
  <2> DEFINE end == SubSeq(list, k, Len(list))
  <2>2. /\ end \in Seq(Points) /\ Len(end) = Len(list) - k + 1
        /\ \A i \in 1 .. Len(end) : i + k - 1 \in 1 .. Len(list) /\ end[i] = list[i + k - 1]
    BY DEF Timed
  <2> HIDE DEF end
  <2>3. Ordered(end)
    <3> SUFFICES ASSUME NEW i \in 1 .. Len(end), NEW j \in 1 .. Len(end), i < j
                 PROVE  end[i].time <= end[j].time
      BY DEF Ordered
    <3>1. i + k - 1 < j + k - 1
      OBVIOUS
    <3>2. QED
      BY <3>1, <2>2 DEF Ordered, Timed
  <2>4. \A i \in 1 .. Len(end) : Past(end[i].time, t, m)
    BY <2>2 DEF Timed
  <2>5. \A i \in 1 .. Len(end), j \in 1 .. Len(w) : IsData(w[j]) => end[i].time <= Start(w[j])
    BY <2>2 DEF Timed
  <2>6. Timed(end, w, t, m)
    BY <2>2, <2>3, <2>4, <2>5 DEF Timed
  <2>7. QED
    BY <2>1, <2>6 DEF end
<1>3. QED
  BY <1>1, <1>2
(* A packet that is handled moves its points from the wire to the list. *)
LEMMA HandledTimed ==
  ASSUME NEW v \in Views, NEW w, NEW t \in Nat, NEW m \in Nat,
         w # << >>, Timed(v.list, w, t, m)
  PROVE  /\ Handled(v, Head(w)) \in Views
         /\ Timed(Handled(v, Head(w)).list, Tail(w), t, m)
<1> DEFINE p == w[1]
           rest == Tail(w)
<1>1. /\ Head(w) = p /\ p \in Packets \cup {Registration}
      /\ rest \in Seq(Packets \cup {Registration}) /\ Len(rest) = Len(w) - 1
      /\ \A i \in 1 .. Len(rest) : i + 1 \in 1 .. Len(w) /\ rest[i] = w[i + 1]
      /\ 1 \in 1 .. Len(w)
  BY DEF Timed
<1> HIDE DEF rest
<1>2. /\ \A i \in 1 .. Len(rest) : IsData(rest[i]) =>
           Past(rest[i].time, t, m) /\ Start(rest[i]) <= rest[i].time
      /\ \A i, j \in 1 .. Len(rest) : i < j /\ IsData(rest[i]) /\ IsData(rest[j])
           => rest[i].time <= Start(rest[j])
  <2>1. \A i, j \in 1 .. Len(rest) : i < j => i + 1 < j + 1
    BY <1>1
  <2>2. QED
    BY <1>1, <2>1 DEF Timed
<1>3. CASE p = Registration
  <2> DEFINE h == [v EXCEPT !.list = << >>, !.latest = 0, !.got = {}]
  <2>1. Handled(v, Head(w)) = h
    BY <1>1, <1>3 DEF Handled
  <2>2. h \in Views /\ h.list = << >>
    <3>1. << >> \in Seq(Points) /\ 0 \in Times /\ {} \in SUBSET (Nat \ {0})
      BY DEF Times
    <3>2. h \in [list : Seq(Points), latest : Times, nextClear : Times, got : SUBSET (Nat \ {0})]
      BY <3>1 DEF Views
    <3>3. h.list = << >>
      BY DEF Views
    <3> HIDE DEF h
    <3>4. QED
      BY <3>2, <3>3 DEF Views
  <2>3. Timed(<< >>, rest, t, m)
    BY <1>1, <1>2 DEF Timed, Ordered
  <2>4. QED
    BY <2>1, <2>2, <2>3 DEF rest
<1>4. CASE p # Registration
  <2> DEFINE list2 == Appended(v.list, p)
             h == [v EXCEPT !.list = list2,
                            !.latest = IF p.time > @ THEN p.time ELSE @,
                            !.got = @ \cup {p.update}]
  <2>1. Handled(v, Head(w)) = h
    BY <1>1, <1>4 DEF Handled
  <2>2. /\ p \in Packets /\ p.time \in Nat /\ p.update \in Nat \ {0} /\ IsData(p)
        /\ Start(p) <= p.time /\ Past(p.time, t, m)
        /\ \A i \in 1 .. Len(v.list) : v.list[i].time <= Start(p)
        /\ \A j \in 1 .. Len(rest) : IsData(rest[j]) => p.time <= Start(rest[j])
    <3>1. p \in Packets /\ IsData(p)
      BY <1>1, <1>4 DEF IsData
    <3>2. p.time \in Nat /\ p.update \in Nat \ {0}
      BY <3>1 DEF Packets, Times
    <3>3. \A j \in 1 .. Len(rest) : 1 < j + 1
      BY <1>1
    <3>4. QED
      BY <3>1, <3>2, <3>3, <1>1 DEF Timed
  <2>3. list2 \in Seq(Points) /\ Ordered(list2) /\ \A i \in 1 .. Len(list2) : list2[i].time <= p.time
    BY <2>2, AppendedOrdered DEF Timed
  <2> HIDE DEF list2
  <2>4. h \in Views /\ h.list = list2
    BY <2>2, <2>3 DEF Views, Times
  <2>5. \A i \in 1 .. Len(list2) : list2[i].time \in Nat
    BY <2>3, PointTimes
  <2>6. \A i \in 1 .. Len(list2) : Past(list2[i].time, t, m)
    BY <2>2, <2>3, <2>5 DEF Past
  <2>7. \A j \in 1 .. Len(rest) : IsData(rest[j]) => Start(rest[j]) \in Nat
    BY <1>1, PacketTimes
  <2>8. \A i \in 1 .. Len(list2), j \in 1 .. Len(rest) : IsData(rest[j]) => list2[i].time <= Start(rest[j])
    BY <2>2, <2>3, <2>5, <2>7
  <2>9. Timed(list2, rest, t, m)
    BY <1>1, <1>2, <2>3, <2>6, <2>8 DEF Timed
  <2>10. QED
    BY <2>1, <2>4, <2>9 DEF rest
<1>5. QED
  BY <1>3, <1>4

LEMMA ClearTimed ==
  ASSUME NEW v \in Views, NEW w, NEW t \in Nat, NEW m \in Nat, NEW limit,
         Timed(v.list, w, t, m)
  PROVE  Clear(v, limit) \in Views /\ Timed(Clear(v, limit).list, w, t, m)
<1>1. Timed(Cleared(v.list, limit), w, t, m) /\ Cleared(v.list, limit) \in Seq(Points)
  BY ClearedTimed DEF Timed
<1> DEFINE c == [v EXCEPT !.list = Cleared(@, limit), !.nextClear = v.latest + ClearEvery]
<1>2. c \in Views /\ c.list = Cleared(v.list, limit)
  <2> DEFINE end == Cleared(v.list, limit)
  <2>1. end \in Seq(Points)
    BY <1>1
  <2> HIDE DEF end
  <2>2. v.latest \in Times /\ v.latest + ClearEvery \in Times /\ v.got \in SUBSET (Nat \ {0})
    BY DataStreamAssumption DEF Views, Times
  <2>3. [v EXCEPT !.list = end, !.nextClear = v.latest + ClearEvery] \in Views
    BY <2>1, <2>2 DEF Views
  <2>4. [v EXCEPT !.list = end, !.nextClear = v.latest + ClearEvery].list = end
    BY DEF Views
  <2>5. QED
    BY <2>3, <2>4 DEF end
<1>3. Clear(v, limit) \in {v, c}
  BY DEF Clear
<1>4. QED
  BY <1>1, <1>2, <1>3

-----------------------------------------------------------------------------
(* The invariant. *)

LEMMA InitIInv == Init => IInv
<1> SUFFICES ASSUME Init PROVE IInv
  OBVIOUS
<1>1. Typed
  BY DataStreamAssumption DEF Init, Typed, Views, Times
<1>2. ASSUME NEW c \in Clients PROVE Timed(view[c].list, wire[c], now, maintain)
  <2>1. view[c].list = << >> /\ wire[c] = << >>
    BY DEF Init
  <2>2. Timed(<< >>, << >>, now, maintain)
    BY DEF Timed, Ordered
  <2>3. QED
    BY <2>1, <2>2
<1>3. QED
  BY <1>1, <1>2 DEF IInv

(* A step that leaves wire and view alone and moves the time or the        *)
(* maintain time as the server does.                                       *)
LEMMA OnlyTime ==
  ASSUME IInv, UNCHANGED <<wire, view, updates>>, last' \in Values,
         now' \in Nat, now <= now', maintain' \in {maintain, now'}, maintain' <= now'
  PROVE  IInv'
<1>1. Typed'
  BY DEF IInv, Typed
<1>2. ASSUME NEW c \in Clients PROVE Timed(view[c].list, wire[c], now', maintain')
  BY TimePasses DEF IInv, Typed
<1>3. QED
  BY <1>1, <1>2 DEF IInv

LEMMA SendIInv == ASSUME IInv, NEW v \in Values, Send(v) PROVE IInv'
<1> DEFINE p == Packet(v)
<1>1. p \in Packets /\ p.time = now /\ p.maintain = maintain
  BY DEF IInv, Typed, Packet, Packets, Times
<1>2. now' = now /\ maintain' = 0 /\ view' = view /\ updates' = updates + 1 /\ last' = v
  BY DEF Send
<1>3. ASSUME NEW c \in Clients
      PROVE  /\ wire'[c] \in Seq(Packets \cup {Registration})
             /\ Timed(view[c].list, wire'[c], now, 0)
  <2>1. wire'[c] = IF active[c] THEN Append(wire[c], p) ELSE wire[c]
    BY DEF Send
  <2>2. Timed(view[c].list, wire[c], now, maintain)
    BY DEF IInv
  <2>3. Timed(view[c].list, Append(wire[c], p), now, 0)
    BY <1>1, <2>2, PacketSent DEF IInv, Typed
  <2>4. Timed(view[c].list, wire[c], now, 0)
    BY <2>2, TimePasses DEF IInv, Typed
  <2>5. QED
    BY <2>1, <2>3, <2>4 DEF Timed
<1>4. wire' \in [Clients -> Seq(Packets \cup {Registration})]
  <2>1. wire' = [c \in Clients |-> wire'[c]]
    BY DEF Send
  <2>2. QED
    BY <1>3, <2>1
<1>5. Typed'
  BY <1>2, <1>4 DEF IInv, Typed
<1>6. QED
  BY <1>2, <1>3, <1>5 DEF IInv

LEMMA UpdateIInv == ASSUME IInv, NEW c \in Clients, Update(c) PROVE IInv'
<1> DEFINE w == wire[c]
           h == Handled(view[c], Head(w))
<1>1. /\ w # << >> /\ wire' = [wire EXCEPT ![c] = Tail(w)]
      /\ UNCHANGED <<now, maintain, updates, last>>
  BY DEF Update, channelVars
<1>2. h \in Views /\ Timed(h.list, Tail(w), now, maintain)
  BY <1>1, HandledTimed DEF IInv, Typed
<1>3. PICK v : view' = [view EXCEPT ![c] = v] /\ v \in Views /\ Timed(v.list, Tail(w), now, maintain)
  <2>1. CASE view' = [view EXCEPT ![c] = h]
    BY <2>1, <1>2
  <2>2. CASE \E limit \in 0 .. now : view' = [view EXCEPT ![c] = Clear(h, limit)]
    BY <2>2, <1>2, ClearTimed DEF IInv, Typed
  <2>3. QED
    BY <2>1, <2>2 DEF Update
<1>4. Typed'
  <2>1. wire' \in [Clients -> Seq(Packets \cup {Registration})]
    BY <1>1, <1>2 DEF IInv, Typed, Timed
  <2>2. view' \in [Clients -> Views]
    BY <1>3 DEF IInv, Typed
  <2>3. QED
    BY <1>1, <2>1, <2>2 DEF IInv, Typed
<1>5. ASSUME NEW d \in Clients PROVE Timed(view'[d].list, wire'[d], now, maintain)
  <2>1. CASE d = c
    BY <2>1, <1>1, <1>3 DEF IInv, Typed
  <2>2. CASE d # c
    BY <2>2, <1>1, <1>3 DEF IInv, Typed
  <2>3. QED
    BY <2>1, <2>2
<1>6. QED
  BY <1>1, <1>4, <1>5 DEF IInv

(* A client's wire is replaced by one that is still in order. *)
LEMMA Rewired ==
  ASSUME IInv, NEW c \in Clients, NEW w, wire' = [wire EXCEPT ![c] = w],
         Timed(view[c].list, w, now, maintain), UNCHANGED <<channelVars, view, updates>>
  PROVE  IInv'
<1>1. Typed'
  BY DEF IInv, Typed, channelVars, Timed
<1>2. ASSUME NEW d \in Clients PROVE Timed(view[d].list, wire'[d], now, maintain)
  BY DEF IInv, Typed
<1>3. QED
  BY <1>1, <1>2 DEF IInv, channelVars

LEMMA NextIInv == IInv /\ [Next]_vars => IInv'
<1> SUFFICES ASSUME IInv, [Next]_vars PROVE IInv'
  OBVIOUS
<1>1. CASE Tick
  BY <1>1, OnlyTime DEF Tick, IInv, Typed
<1>2. ASSUME NEW v \in Values, DataSend(v) PROVE IInv'
  <2>1. CASE Toss(v)
    BY <2>1, OnlyTime DEF Toss, IInv, Typed
  <2>2. CASE Send(v)
    BY <2>2, SendIInv
  <2>3. QED
    BY <1>2, <2>1, <2>2 DEF DataSend
<1>3. ASSUME NEW c \in Clients, NEW bit \in BOOLEAN, Activate(c, bit) PROVE IInv'
  BY <1>3, OnlyTime DEF Activate, channelVars, IInv, Typed
<1>4. ASSUME NEW c \in Clients, ActivateGroup(c) PROVE IInv'
  BY <1>4, OnlyTime DEF ActivateGroup, IInv, Typed
<1>5. ASSUME NEW c \in Clients, Register(c) PROVE IInv'
  <2>1. Timed(view[c].list, Append(wire[c], Registration), now, maintain)
    BY RegistrationSent DEF IInv, Typed
  <2>2. QED
    BY <1>5, <2>1, Rewired DEF Register
<1>6. ASSUME NEW c \in Clients, Connect(c) PROVE IInv'
  <2>1. Timed(view[c].list, <<Registration>>, now, maintain)
    BY Connected DEF IInv, Typed
  <2>2. QED
    BY <1>6, <2>1, Rewired DEF Connect
<1>7. ASSUME NEW c \in Clients, Update(c) PROVE IInv'
  BY <1>7, UpdateIInv
<1>8. CASE UNCHANGED vars
  BY <1>8, OnlyTime DEF vars, channelVars, IInv, Typed
<1>9. QED
  BY <1>1, <1>2, <1>3, <1>4, <1>5, <1>6, <1>7, <1>8 DEF Next

LEMMA IInvPointsInOrder == IInv => PointsInOrder
<1> SUFFICES ASSUME IInv, NEW c \in Clients, NEW i \in 1 .. Len(view[c].list) - 1
             PROVE  view[c].list[i].time <= view[c].list[i + 1].time
  BY DEF PointsInOrder
<1>1. Ordered(view[c].list) /\ view[c].list \in Seq(Points)
  BY DEF IInv, Timed
<1>2. i \in 1 .. Len(view[c].list) /\ i + 1 \in 1 .. Len(view[c].list) /\ i < i + 1
  BY <1>1
<1>3. QED
  BY <1>1, <1>2 DEF Ordered

(* The points a client keeps are in the order of their times, whichever    *)
(* updates it missed, for any clients, values, times and commands: the     *)
(* maintain time that StashData inserts never goes back.                   *)
THEOREM PointsInOrderHolds == Spec => []PointsInOrder
<1>1. QED
  BY InitIInv, NextIInv, IInvPointsInOrder, PTL DEF Spec

-----------------------------------------------------------------------------
(* What the game sampled, and what the packets and the lists say of it: ss *)
(* are samples, each told by an update.                                    *)
SampleSet == [time : Nat, data : Values, update : Nat]

(* The channel had the value of point p at its time, as in Held.           *)
HeldIn(ss, p) == \E i \in 1 .. Len(ss) :
  /\ ss[i].data = p.data /\ ss[i].time <= p.time
  /\ i < Len(ss) => p.time <= ss[i + 1].time

(* No sample of update u is earlier than t; and point p is the first.      *)
First(ss, u, t) == \A i \in 1 .. Len(ss) : ss[i].update = u => t <= ss[i].time
Opens(ss, u, p) ==
  /\ First(ss, u, p.time)
  /\ \E i \in 1 .. Len(ss) : ss[i].update = u /\ ss[i].time = p.time
  /\ \A i \in 1 .. Len(ss) : ss[i].update = u => ss[i].data = p.data

(* Up to maintain time m the value was that of update u, and no sample of  *)
(* u is later than both m and the first of u.                              *)
Maintained(ss, u, m) == \A i \in 1 .. Len(ss) : ss[i].update = u =>
  /\ m # 0 => HeldIn(ss, Point(m, ss[i].data))
  /\ ss[i].time <= m \/ First(ss, u, ss[i].time)

(* A packet tells the first sample of its update, and how long the update  *)
(* before it was maintained.                                               *)
Tells(ss, p) ==
  /\ Opens(ss, p.update, Point(p.time, p.data))
  /\ HeldIn(ss, Point(p.time, p.data))
  /\ Maintained(ss, p.update - 1, p.maintain)

Contiguous(got) == \A u, w \in got : u .. w \subseteq got

(* A view whose list ends with the latest update it got.                   *)
Knows(ss, v) ==
  /\ v.list = << >> <=> v.got = {}
  /\ \A u \in v.got : (\A w \in v.got : w <= u) => Opens(ss, u, Last(v.list))
  /\ Contiguous(v.got) => \A i \in 1 .. Len(v.list) : HeldIn(ss, v.list[i])
  /\ \A i \in 1 .. Len(ss) :
       {ss[i].update, ss[i].update + 1} \subseteq v.got /\ v.list[1].time < ss[i].time
         => Shows(v.list, ss[i])

(* What is under way to it is later than what it got, and in order.        *)
Carries(ss, w, got, n) ==
  /\ \A i \in 1 .. Len(w) : IsData(w[i]) =>
       /\ w[i].update \in 1 .. n /\ Tells(ss, w[i])
       /\ \A u \in got : u < w[i].update
  /\ \A i, j \in 1 .. Len(w) : i < j /\ IsData(w[i]) /\ IsData(w[j]) => w[i].update < w[j].update

Follows(ss, v, w, n) == Knows(ss, v) /\ v.got \subseteq 1 .. n /\ Carries(ss, w, v.got, n)

(* The samples at time t, after n updates, the last of which told d.       *)
Sampling(ss, t, n, d) ==
  /\ ss \in Seq(SampleSet)
  /\ \A i \in 1 .. Len(ss) :
       /\ ss[i].time <= t /\ ss[i].update \in 1 .. n
       /\ ss[i].update = n => ss[i].data = d
       /\ i = Len(ss) => ss[i].update = n

Typing == active \in [Clients -> BOOLEAN] /\ initialized \in BOOLEAN /\ asked \in Nat

TruthInv ==
  /\ IInv /\ Typing
  /\ Sampling(samples, now, updates, last) /\ (initialized => updates > 0)
  /\ Maintained(samples, updates, maintain)
  /\ \A c \in Clients : Follows(samples, view[c], wire[c], updates)

-----------------------------------------------------------------------------
(* One more sample, which is not earlier than those before it. *)
Grown(ss, ss2, x) ==
  /\ ss \in Seq(SampleSet) /\ ss2 \in Seq(SampleSet) /\ x \in SampleSet
  /\ Len(ss2) = Len(ss) + 1 /\ ss2[Len(ss) + 1] = x
  /\ \A i \in 1 .. Len(ss) :
       ss2[i] = ss[i] /\ ss[i].time <= x.time /\ (ss[i].update = x.update => ss[i].data = x.data)

LEMMA SampleFields ==
  ASSUME NEW ss \in Seq(SampleSet)
  PROVE  Len(ss) \in Nat /\ \A i \in 1 .. Len(ss) :
           ss[i] \in SampleSet /\ ss[i].time \in Nat /\ ss[i].update \in Nat /\ ss[i].data \in Values
<1>1. \A x \in SampleSet : x.time \in Nat /\ x.update \in Nat /\ x.data \in Values
  BY DEF SampleSet
<1>2. QED
  BY <1>1

LEMMA HeldStays ==
  ASSUME NEW ss, NEW ss2, NEW x, Grown(ss, ss2, x), NEW p, p.time <= x.time, HeldIn(ss, p)
  PROVE  HeldIn(ss2, p)
<1>1. PICK i \in 1 .. Len(ss) : /\ ss[i].data = p.data /\ ss[i].time <= p.time
                                /\ i < Len(ss) => p.time <= ss[i + 1].time
  BY DEF HeldIn
<1>2. Len(ss) \in Nat /\ Len(ss2) = Len(ss) + 1 /\ ss2[Len(ss) + 1] = x
      /\ \A j \in 1 .. Len(ss) : ss2[j] = ss[j]
  BY DEF Grown
<1>3. i \in 1 .. Len(ss2) /\ ss2[i] = ss[i]
  BY <1>1, <1>2
<1>4. p.time <= ss2[i + 1].time
  <2>1. CASE i < Len(ss)
    <3>1. i + 1 \in 1 .. Len(ss)
      BY <1>2, <2>1
    <3>2. QED
      BY <1>1, <1>2, <2>1, <3>1
  <2>2. CASE i = Len(ss)
    BY <1>2, <2>2
  <2>3. QED
    BY <1>2, <2>1, <2>2
<1>5. QED
  BY <1>1, <1>3, <1>4 DEF HeldIn

LEMMA OpensStays ==
  ASSUME NEW ss, NEW ss2, NEW x, Grown(ss, ss2, x), NEW u, NEW p, p.time \in Nat, Opens(ss, u, p)
  PROVE  Opens(ss2, u, p)
<1>1. /\ Len(ss) \in Nat /\ Len(ss2) = Len(ss) + 1 /\ ss2[Len(ss) + 1] = x
      /\ \A i \in 1 .. Len(ss) : /\ ss2[i] = ss[i] /\ ss[i].time <= x.time /\ ss[i].time \in Nat
                                 /\ ss[i].update = x.update => ss[i].data = x.data
      /\ x.time \in Nat
  <2>1. ss \in Seq(SampleSet) /\ x.time \in Nat
    BY DEF Grown, SampleSet
  <2>2. QED
    BY <2>1, SampleFields DEF Grown
<1>2. PICK k \in 1 .. Len(ss) : ss[k].update = u /\ ss[k].time = p.time
  BY DEF Opens
<1>3. ss[k].data = p.data
  BY <1>2 DEF Opens
<1>4. p.time <= x.time /\ (x.update = u => x.data = p.data)
  BY <1>1, <1>2, <1>3
<1>5. \A i \in 1 .. Len(ss2) : i \in 1 .. Len(ss) \/ i = Len(ss) + 1
  BY <1>1
<1>6. First(ss2, u, p.time)
  BY <1>1, <1>4, <1>5 DEF Opens, First
<1>7. \A i \in 1 .. Len(ss2) : ss2[i].update = u => ss2[i].data = p.data
  BY <1>1, <1>4, <1>5 DEF Opens
<1>8. k \in 1 .. Len(ss2) /\ ss2[k].update = u /\ ss2[k].time = p.time
  BY <1>1, <1>2
<1>9. QED
  BY <1>6, <1>7, <1>8 DEF Opens

LEMMA MaintainedStays ==
  ASSUME NEW ss, NEW ss2, NEW x, Grown(ss, ss2, x), NEW u, NEW m \in Nat,
         Maintained(ss, u, m), x.update # u, m <= x.time
  PROVE  Maintained(ss2, u, m)
<1>1. /\ Len(ss) \in Nat /\ Len(ss2) = Len(ss) + 1 /\ ss2[Len(ss) + 1] = x
      /\ \A i \in 1 .. Len(ss) : ss2[i] = ss[i]
  BY DEF Grown
<1>2. \A i \in 1 .. Len(ss2) : i \in 1 .. Len(ss) \/ i = Len(ss) + 1
  BY <1>1
<1>3. ASSUME NEW i \in 1 .. Len(ss2), ss2[i].update = u
      PROVE  /\ m # 0 => HeldIn(ss2, Point(m, ss2[i].data))
             /\ ss2[i].time <= m \/ First(ss2, u, ss2[i].time)
  <2>1. i \in 1 .. Len(ss) /\ ss2[i] = ss[i]
    BY <1>1, <1>2, <1>3
  <2>2. m # 0 => HeldIn(ss2, Point(m, ss2[i].data))
    <3> SUFFICES ASSUME m # 0 PROVE HeldIn(ss2, Point(m, ss2[i].data))
      OBVIOUS
    <3>1. HeldIn(ss, Point(m, ss[i].data))
      BY <1>3, <2>1 DEF Maintained
    <3>2. Point(m, ss[i].data).time = m
      BY DEF Point
    <3>3. QED
      BY <2>1, <3>1, <3>2, HeldStays
  <2>3. ss[i].time <= m \/ First(ss, u, ss[i].time)
    BY <1>3, <2>1 DEF Maintained
  <2>4. First(ss, u, ss[i].time) => First(ss2, u, ss[i].time)
    BY <1>1, <1>2 DEF First
  <2>5. QED
    BY <2>1, <2>2, <2>3, <2>4
<1>4. QED
  BY <1>3 DEF Maintained

LEMMA TellsStays ==
  ASSUME NEW ss, NEW ss2, NEW x, Grown(ss, ss2, x), NEW p \in Packets, Tells(ss, p),
         p.time <= x.time, p.maintain <= x.time, p.update <= x.update
  PROVE  Tells(ss2, p)
<1>1. p.time \in Nat /\ p.maintain \in Nat /\ p.update \in Nat /\ x.update \in Nat
      /\ Point(p.time, p.data).time = p.time
  BY DEF Packets, Times, Grown, SampleSet, Point
<1>2. x.update # p.update - 1
  BY <1>1
<1>3. QED
  BY <1>1, <1>2, OpensStays, HeldStays, MaintainedStays DEF Tells

LEMMA KnowsStays ==
  ASSUME NEW ss, NEW ss2, NEW x, Grown(ss, ss2, x), NEW v \in Views, Knows(ss, v),
         \A i \in 1 .. Len(v.list) : v.list[i].time <= x.time,
         \A u \in v.got : u <= x.update
  PROVE  Knows(ss2, v)
<1>1. /\ Len(ss) \in Nat /\ Len(ss2) = Len(ss) + 1 /\ ss2[Len(ss) + 1] = x
      /\ \A i \in 1 .. Len(ss) : ss2[i] = ss[i]
  BY DEF Grown
<1>2. v.list \in Seq(Points)
  BY DEF Views
<1>3. ASSUME NEW u \in v.got, \A w \in v.got : w <= u PROVE Opens(ss2, u, Last(v.list))
  <2>1. Opens(ss, u, Last(v.list)) /\ v.list # << >>
    BY <1>3 DEF Knows
  <2>2. Last(v.list).time \in Nat
    BY <1>2, <2>1, PointTimes DEF Last
  <2>3. QED
    BY <2>1, <2>2, OpensStays
<1>4. ASSUME Contiguous(v.got), NEW i \in 1 .. Len(v.list) PROVE HeldIn(ss2, v.list[i])
  BY <1>4, HeldStays DEF Knows
<1>5. ASSUME NEW i \in 1 .. Len(ss2), {ss2[i].update, ss2[i].update + 1} \subseteq v.got,
             v.list[1].time < ss2[i].time
      PROVE  Shows(v.list, ss2[i])
  <2>1. CASE i \in 1 .. Len(ss)
    BY <1>1, <1>5, <2>1 DEF Knows
  <2>2. CASE i = Len(ss) + 1
    <3>1. x.update + 1 <= x.update
      BY <1>1, <1>5, <2>2
    <3>2. x.update \in Nat
      BY DEF Grown, SampleSet
    <3>3. QED
      BY <3>1, <3>2
  <2>3. QED
    BY <1>1, <2>1, <2>2
<1>6. QED
  BY <1>3, <1>4, <1>5 DEF Knows

LEMMA FollowsStays ==
  ASSUME NEW ss, NEW ss2, NEW x, Grown(ss, ss2, x), NEW v \in Views, NEW w, NEW t \in Nat, NEW m \in Nat,
         Timed(v.list, w, t, m), t <= x.time, NEW n \in Nat, n <= x.update, Follows(ss, v, w, n)
  PROVE  Follows(ss2, v, w, n)
<1>1. x.time \in Nat /\ x.update \in Nat
  BY DEF Grown, SampleSet
<1>2. v.list \in Seq(Points) /\ w \in Seq(Packets \cup {Registration})
  BY DEF Timed
<1>3. Knows(ss2, v)
  <2>1. \A i \in 1 .. Len(v.list) : v.list[i].time <= x.time
    <3> SUFFICES ASSUME NEW i \in 1 .. Len(v.list) PROVE v.list[i].time <= x.time
      OBVIOUS
    <3>1. v.list[i].time \in Nat /\ v.list[i].time <= t
      BY <1>2, PointTimes DEF Timed, Past
    <3>2. QED
      BY <1>1, <3>1
  <2>2. \A u \in v.got : u <= x.update
    BY <1>1 DEF Follows
  <2>3. QED
    BY <2>1, <2>2, KnowsStays DEF Follows
<1>4. ASSUME NEW i \in 1 .. Len(w), IsData(w[i]) PROVE Tells(ss2, w[i])
  <2>1. PICK p \in Packets : p = w[i]
    BY <1>2, <1>4 DEF IsData
  <2>2. p.time \in Nat /\ p.maintain \in Nat /\ p.update \in Nat
    BY DEF Packets, Times
  <2>3. p.time <= t /\ Start(p) <= p.time
    BY <1>4, <2>1 DEF Timed, Past
  <2>4. p.maintain <= p.time
    BY <2>2, <2>3 DEF Start
  <2>5. p.time <= x.time /\ p.maintain <= x.time
    BY <1>1, <2>2, <2>3, <2>4
  <2>6. p.update \in 1 .. n /\ Tells(ss, p)
    BY <1>4, <2>1 DEF Follows, Carries
  <2>7. p.update <= x.update
    BY <1>1, <2>2, <2>6
  <2>8. QED
    BY <2>1, <2>5, <2>6, <2>7, TellsStays
<1>5. Carries(ss2, w, v.got, n)
  BY <1>4 DEF Follows, Carries
<1>6. QED
  BY <1>3, <1>5 DEF Follows

-----------------------------------------------------------------------------
(* What a packet adds to a list: its own point, and before that the last   *)
(* one at the maintain time, if that is another time.                      *)
AddsTwo(list, p) == p.maintain # 0 /\ list # << >> /\ p.maintain # Last(list).time

LEMMA AppendedShape ==
  ASSUME NEW list \in Seq(Points), NEW p \in Packets, NEW l2, l2 = Appended(list, p)
  PROVE  /\ l2 \in Seq(Points) /\ Len(l2) \in Nat /\ Len(list) \in Nat
         /\ Len(l2) = Len(list) + (IF AddsTwo(list, p) THEN 2 ELSE 1)
         /\ \A i \in 1 .. Len(list) : l2[i] = list[i]
         /\ l2[Len(l2)] = Point(p.time, p.data) /\ Last(l2) = Point(p.time, p.data)
         /\ AddsTwo(list, p) => l2[Len(list) + 1] = Point(p.maintain, Last(list).data)
<1> DEFINE x == Point(p.maintain, Last(list).data)
           y == Point(p.time, p.data)
<1>1. y \in Points /\ p.maintain \in Nat
  BY DEF Packets, Points, Point, Times
<1>2. CASE AddsTwo(list, p)
  <2>1. l2 = (list \o <<x>>) \o <<y>>
    BY <1>2 DEF AddsTwo, Appended
  <2>2. x \in Points
    <3>1. Last(list) \in Points
      BY <1>2 DEF AddsTwo, Last
    <3>2. QED
      BY <1>1, <3>1 DEF Points, Point, Times
  <2> HIDE DEF x, y
  <2>3. /\ list \o <<x>> \in Seq(Points) /\ Len(list \o <<x>>) = Len(list) + 1
        /\ (list \o <<x>>)[Len(list) + 1] = x /\ \A i \in 1 .. Len(list) : (list \o <<x>>)[i] = list[i]
    BY <2>2
  <2> DEFINE l1 == list \o <<x>>
  <2>4. l1 \in Seq(Points) /\ Len(l1) = Len(list) + 1 /\ l1[Len(list) + 1] = x
        /\ \A i \in 1 .. Len(list) : l1[i] = list[i]
    BY <2>3
  <2>5. l2 = l1 \o <<y>>
    BY <2>1
  <2> HIDE DEF l1
  <2>6. /\ l2 \in Seq(Points) /\ Len(l2) = Len(l1) + 1 /\ l2[Len(l1) + 1] = y
        /\ \A i \in 1 .. Len(l1) : l2[i] = l1[i]
    BY <1>1, <2>4, <2>5
  <2>7. /\ Len(list) \in Nat /\ Len(l2) = Len(list) + 2 /\ l2[Len(list) + 2] = y
        /\ l2[Len(list) + 1] = x /\ \A i \in 1 .. Len(list) : l2[i] = list[i]
    <3>1. Len(list) \in Nat
      OBVIOUS
    <3>2. Len(list) + 1 \in 1 .. Len(l1) /\ \A i \in 1 .. Len(list) : i \in 1 .. Len(l1)
      BY <2>4, <3>1
    <3>3. (Len(list) + 1) + 1 = Len(list) + 2
      BY <3>1
    <3>4. QED
      BY <2>4, <2>6, <3>1, <3>2, <3>3
  <2>8. QED
    BY <1>2, <2>6, <2>7 DEF Last, x, y
<1>3. CASE ~ AddsTwo(list, p)
  <2>1. l2 = list \o <<y>>
    <3>1. l2 = (list \o << >>) \o <<y>>
      BY <1>3, Zenon DEF AddsTwo, Appended
    <3>2. list \o << >> = list
      OBVIOUS
    <3>3. QED
      BY <3>1, <3>2
  <2> HIDE DEF y
  <2>2. /\ l2 \in Seq(Points) /\ Len(l2) = Len(list) + 1 /\ l2[Len(list) + 1] = y
        /\ \A i \in 1 .. Len(list) : l2[i] = list[i]
    BY <1>1, <2>1
  <2>3. QED
    BY <1>3, <2>2 DEF Last, y
<1>4. QED
  BY <1>2, <1>3

(* What a list shows it still shows when it grows.                         *)
LEMMA GrownShows ==
  ASSUME NEW list, NEW l2, Len(list) \in Nat, Len(l2) \in Nat, Len(list) <= Len(l2),
         \A i \in 1 .. Len(list) : l2[i] = list[i], NEW s, Shows(list, s)
  PROVE  Shows(l2, s)
<1>1. CASE \E i \in 1 .. Len(list) : list[i] = Point(s.time, s.data)
  <2>1. PICK i \in 1 .. Len(list) : list[i] = Point(s.time, s.data)
    BY <1>1
  <2>2. i \in 1 .. Len(l2) /\ l2[i] = Point(s.time, s.data)
    BY <2>1
  <2>3. QED
    BY <2>2 DEF Shows
<1>2. CASE \E i \in 1 .. Len(list) - 1 : /\ list[i].time <= s.time /\ s.time <= list[i + 1].time
                                         /\ list[i].data = s.data /\ list[i + 1].data = s.data
  <2>1. PICK i \in 1 .. Len(list) - 1 : /\ list[i].time <= s.time /\ s.time <= list[i + 1].time
                                        /\ list[i].data = s.data /\ list[i + 1].data = s.data
    BY <1>2
  <2>2. i \in 1 .. Len(list) /\ i + 1 \in 1 .. Len(list) /\ i \in 1 .. Len(l2) - 1
    BY <2>1
  <2>3. l2[i] = list[i] /\ l2[i + 1] = list[i + 1]
    BY <2>2
  <2>4. QED
    BY <2>1, <2>2, <2>3 DEF Shows
<1>3. QED
  BY <1>1, <1>2 DEF Shows

(* The samples of the update a list ends with are shown when the next      *)
(* update is appended.                                                     *)
LEMMA LastIsShown ==
  ASSUME NEW ss \in Seq(SampleSet), NEW list \in Seq(Points), list # << >>, NEW p \in Packets,
         Maintained(ss, p.update - 1, p.maintain), Opens(ss, p.update - 1, Last(list)),
         NEW i \in 1 .. Len(ss), ss[i].update = p.update - 1
  PROVE  Shows(Appended(list, p), ss[i])
<1> DEFINE n == Len(list)
<1>1. PICK l2 : l2 = Appended(list, p)
  OBVIOUS
<1>2. /\ Len(l2) \in Nat /\ n \in Nat /\ Len(l2) = n + (IF AddsTwo(list, p) THEN 2 ELSE 1)
      /\ \A k \in 1 .. n : l2[k] = list[k]
      /\ AddsTwo(list, p) => l2[n + 1] = Point(p.maintain, Last(list).data)
  BY <1>1, AppendedShape
<1>3. n \in 1 .. n /\ n \in 1 .. Len(l2) /\ Last(list) = list[n] /\ l2[n] = Last(list)
  <2>1. n >= 1 /\ Last(list) = list[n]
    BY DEF Last
  <2>2. QED
    BY <1>2, <2>1
<1>4. Last(list) \in Points /\ Last(list).time \in Nat
      /\ Last(list) = Point(Last(list).time, Last(list).data)
  <2>1. Last(list) \in Points
    BY <1>3
  <2>2. QED
    BY <2>1 DEF Points, Times, Point
<1>5. ss[i].time \in Nat /\ p.maintain \in Nat
  BY SampleFields DEF Packets, Times
<1>6. ss[i].data = Last(list).data /\ Last(list).time <= ss[i].time
  BY DEF Opens, First
<1>7. PICK k \in 1 .. Len(ss) : ss[k].update = p.update - 1 /\ ss[k].time = Last(list).time
  BY DEF Opens
<1>8. CASE ss[i].time = Last(list).time
  <2>1. l2[n] = Point(ss[i].time, ss[i].data)
    BY <1>3, <1>4, <1>6, <1>8
  <2>2. QED
    BY <1>1, <1>3, <2>1 DEF Shows
<1>9. CASE ss[i].time # Last(list).time
  <2>1. ss[i].time > Last(list).time
    BY <1>4, <1>5, <1>6, <1>9
  <2>2. ~ First(ss, p.update - 1, ss[i].time)
    BY <1>4, <1>5, <1>7, <2>1 DEF First
  <2>3. ss[i].time <= p.maintain
    BY <2>2 DEF Maintained
  <2>4. AddsTwo(list, p)
    BY <1>4, <1>5, <2>1, <2>3 DEF AddsTwo
  <2>5. l2[n + 1].time = p.maintain /\ l2[n + 1].data = Last(list).data
    BY <1>2, <2>4 DEF Point
  <2>6. n \in 1 .. Len(l2) - 1
    BY <1>2, <1>3, <2>4
  <2>7. QED
    BY <1>1, <1>3, <1>6, <2>3, <2>5, <2>6 DEF Shows
<1>10. QED
  BY <1>8, <1>9

-----------------------------------------------------------------------------
(* A data packet makes its update the latest that the view got.            *)
LEMMA HandledKnows ==
  ASSUME NEW ss \in Seq(SampleSet), NEW v \in Views, NEW p \in Packets, p # Registration,
         Knows(ss, v), Tells(ss, p), \A u \in v.got : u < p.update, NEW h, h = Handled(v, p)
  PROVE  Knows(ss, h) /\ h.got = v.got \cup {p.update}
<1> DEFINE list == v.list  l2 == Appended(v.list, p)  y == Point(p.time, p.data)
<1>1. /\ list \in Seq(Points) /\ v.got \subseteq Nat \ {0}
      /\ p.update \in Nat \ {0} /\ p.maintain \in Nat /\ p.time \in Nat
  BY DEF Views, Packets, Times
<1>2. h.list = l2 /\ h.got = v.got \cup {p.update}
  BY DEF Handled, Views
<1>3. /\ l2 \in Seq(Points) /\ Len(l2) \in Nat /\ Len(list) \in Nat
      /\ Len(l2) = Len(list) + (IF AddsTwo(list, p) THEN 2 ELSE 1)
      /\ \A i \in 1 .. Len(list) : l2[i] = list[i]
      /\ l2[Len(l2)] = y /\ Last(l2) = y
      /\ AddsTwo(list, p) => l2[Len(list) + 1] = Point(p.maintain, Last(list).data)
  BY <1>1, AppendedShape
<1> HIDE DEF l2, y
<1>4. Opens(ss, p.update, y) /\ HeldIn(ss, y) /\ Maintained(ss, p.update - 1, p.maintain)
  BY DEF Tells, y
<1>5. list = << >> <=> v.got = {}
  BY DEF Knows
<1>6. ASSUME p.update - 1 \in v.got PROVE list # << >> /\ Opens(ss, p.update - 1, Last(list))
  <2>1. \A w \in v.got : w <= p.update - 1
    BY <1>1
  <2>2. QED
    BY <1>6, <2>1 DEF Knows
<1>7. /\ h.list # << >> /\ h.got # {} /\ Len(list) <= Len(l2)
      /\ \A i \in 1 .. Len(l2) : i \in 1 .. Len(list) \/ i = Len(l2) \/ (AddsTwo(list, p) /\ i = Len(list) + 1)
  <2>1. Len(l2) = Len(list) + 1 \/ (AddsTwo(list, p) /\ Len(l2) = Len(list) + 2)
    BY <1>3
  <2>2. PICK a \in Nat, b \in Nat : a = Len(list) /\ b = Len(l2)
    BY <1>3
  <2>3. b = a + 1 \/ (AddsTwo(list, p) /\ b = a + 2)
    BY <2>1, <2>2
  <2>4. Len(l2) > 0 /\ Len(list) <= Len(l2)
    BY <2>2, <2>3
  <2>5. l2 # << >>
    BY <2>4
  <2>6. \A i \in 1 .. b : i \in 1 .. a \/ i = b \/ (AddsTwo(list, p) /\ i = a + 1)
    BY <2>3
  <2>7. QED
    BY <1>2, <2>2, <2>4, <2>5, <2>6
<1>8. ASSUME NEW u \in h.got, \A w \in h.got : w <= u PROVE Opens(ss, u, Last(h.list))
  <2>1. u = p.update
    <3>1. p.update <= u
      BY <1>2, <1>8
    <3>2. u \in v.got => u < p.update /\ u \in Nat
      BY <1>1
    <3>3. QED
      BY <1>1, <1>2, <3>1, <3>2
  <2>2. QED
    BY <1>2, <1>3, <1>4, <2>1
<1>9. ASSUME Contiguous(h.got), NEW i \in 1 .. Len(h.list) PROVE HeldIn(ss, h.list[i])
  <2>1. Contiguous(v.got)
    <3> SUFFICES ASSUME NEW u \in v.got, NEW w \in v.got, NEW k \in u .. w PROVE k \in v.got
      BY DEF Contiguous
    <3>1. k \in h.got
      BY <1>2, <1>9 DEF Contiguous
    <3>2. k < p.update
      BY <1>1
    <3>3. QED
      BY <1>1, <1>2, <3>1, <3>2
  <2>2. CASE i \in 1 .. Len(list)
    BY <1>2, <1>3, <2>1, <2>2 DEF Knows
  <2>3. CASE i = Len(l2)
    BY <1>2, <1>3, <1>4, <2>3
  <2>4. CASE AddsTwo(list, p) /\ i = Len(list) + 1
    <3>1. PICK u \in v.got : TRUE
      BY <1>5, <2>4 DEF AddsTwo
    <3>2. p.update - 1 \in v.got
      <4>1. u \in Nat /\ u < p.update
        BY <1>1
      <4>2. p.update - 1 \in u .. p.update /\ p.update - 1 # p.update
        BY <1>1, <4>1
      <4>3. u .. p.update \subseteq h.got
        BY <1>2, <1>9 DEF Contiguous
      <4>4. QED
        BY <1>2, <4>2, <4>3
    <3>3. PICK k \in 1 .. Len(ss) : ss[k].update = p.update - 1 /\ ss[k].data = Last(list).data
      BY <1>6, <3>2 DEF Opens
    <3>4. HeldIn(ss, Point(p.maintain, ss[k].data))
      BY <1>4, <2>4, <3>3 DEF Maintained, AddsTwo
    <3>5. QED
      BY <1>2, <1>3, <2>4, <3>3, <3>4
  <2>5. QED
    BY <1>2, <1>7, <2>2, <2>3, <2>4
<1>10. ASSUME NEW i \in 1 .. Len(ss), {ss[i].update, ss[i].update + 1} \subseteq h.got,
              h.list[1].time < ss[i].time
       PROVE  Shows(h.list, ss[i])
  <2>1. ss[i].update \in Nat
    BY SampleFields
  <2>2. CASE ss[i].update + 1 = p.update
    <3>1. p.update - 1 \in v.got /\ ss[i].update = p.update - 1
      BY <1>1, <1>2, <1>10, <2>1, <2>2
    <3>2. QED
      BY <1>1, <1>2, <1>4, <1>6, <3>1, LastIsShown DEF l2
  <2>3. CASE ss[i].update + 1 # p.update
    <3>1. ss[i].update + 1 \in v.got
      BY <1>2, <1>10, <2>3
    <3>2. ss[i].update \in v.got
      BY <1>1, <1>2, <1>10, <2>1, <3>1
    <3>3. list # << >> /\ 1 \in 1 .. Len(list)
      BY <1>1, <1>5, <3>1
    <3>4. Shows(list, ss[i])
      BY <1>2, <1>3, <1>10, <3>1, <3>2, <3>3 DEF Knows
    <3>5. QED
      BY <1>2, <1>3, <1>7, <3>4, GrownShows
  <2>4. QED
    BY <2>2, <2>3
<1>11. QED
  BY <1>2, <1>7, <1>8, <1>9, <1>10 DEF Knows

(* What is cleared away are points at the front.                           *)
LEMMA ClearKnows ==
  ASSUME NEW ss \in Seq(SampleSet), NEW v \in Views, Knows(ss, v), Ordered(v.list),
         NEW limit, NEW h, h = Clear(v, limit)
  PROVE  Knows(ss, h) /\ h.got = v.got
<1> DEFINE list == v.list
<1>1. CASE h = v
  BY <1>1
<1>2. CASE list = << >> /\ h # v
  <2>1. h.list = list /\ h.got = v.got
    BY <1>2 DEF Clear, Cleared, Views
  <2>2. QED
    BY <2>1 DEF Knows
<1>3. CASE list # << >> /\ h # v
  <2>1. list \in Seq(Points) /\ h.list = Cleared(list, limit) /\ h.got = v.got
    BY <1>3 DEF Clear, Views
  <2>2. PICK k \in 1 .. Len(list) : h.list = SubSeq(list, k, Len(list))
    BY <1>3, <2>1, ClearedIsEnd
  <2>3. /\ Len(list) \in Nat /\ k \in Nat
        /\ Len(h.list) = Len(list) - k + 1 /\ h.list # << >>
        /\ \A i \in 1 .. Len(list) - k + 1 : h.list[i] = list[i + k - 1]
    <3> DEFINE n == Len(list)  end == SubSeq(list, k, n)
    <3>1. n \in Nat /\ k \in 1 .. n
      BY <2>1
    <3> HIDE DEF n, list
    <3>2. /\ Len(end) = n - k + 1 /\ \A i \in 1 .. n - k + 1 : end[i] = list[i + k - 1]
          /\ Len(end) > 0
      BY <2>1, <3>1
    <3>3. h.list = end
      BY <2>2 DEF n
    <3> HIDE DEF end
    <3>4. end # << >>
      BY <3>2
    <3>5. QED
      BY <3>1, <3>2, <3>3, <3>4 DEF n
  <2>4. h.list[1] = list[k] /\ Last(h.list) = Last(list)
    <3>1. 1 \in 1 .. Len(list) - k + 1 /\ Len(list) - k + 1 \in 1 .. Len(list) - k + 1
      BY <2>3
    <3>2. 1 + k - 1 = k /\ (Len(list) - k + 1) + k - 1 = Len(list)
      BY <2>3
    <3>3. QED
      BY <2>3, <3>1, <3>2 DEF Last
  <2>5. \A u \in h.got : (\A w \in h.got : w <= u) => Opens(ss, u, Last(h.list))
    BY <2>1, <2>4 DEF Knows
  <2>6. ASSUME Contiguous(h.got), NEW i \in 1 .. Len(h.list) PROVE HeldIn(ss, h.list[i])
    <3>1. i + k - 1 \in 1 .. Len(list) /\ h.list[i] = list[i + k - 1]
      BY <2>3
    <3>2. QED
      BY <2>1, <2>6, <3>1 DEF Knows
  <2>7. ASSUME NEW i \in 1 .. Len(ss), {ss[i].update, ss[i].update + 1} \subseteq h.got,
               h.list[1].time < ss[i].time
        PROVE  Shows(h.list, ss[i])
    <3> DEFINE s == ss[i]
    <3>1. \A j \in 1 .. Len(list) : list[j].time \in Nat
      BY <2>1, PointTimes
    <3>2. s.time \in Nat
      BY SampleFields
    <3>3. \A j \in 1 .. Len(list) : j <= k => list[j].time < s.time
      <4> SUFFICES ASSUME NEW j \in 1 .. Len(list), j <= k PROVE list[j].time < s.time
        OBVIOUS
      <4>1. list[j].time <= list[k].time
        BY <2>3, <3>1 DEF Ordered
      <4>2. QED
        BY <2>4, <2>7, <3>1, <3>2, <4>1
    <3>4. Shows(list, s)
      <4>1. 1 \in 1 .. Len(list) /\ 1 <= k
        BY <2>3
      <4>2. list[1].time < s.time
        BY <3>3, <4>1
      <4>3. QED
        BY <2>1, <2>7, <4>2 DEF Knows
    <3>5. CASE \E j \in 1 .. Len(list) : list[j] = Point(s.time, s.data)
      <4>1. PICK j \in 1 .. Len(list) : list[j] = Point(s.time, s.data)
        BY <3>5
      <4>2. list[j].time = s.time
        BY <4>1 DEF Point
      <4>3. j > k
        BY <2>3, <3>2, <3>3, <4>2
      <4>4. j - k + 1 \in 1 .. Len(h.list) /\ h.list[j - k + 1] = list[j]
        <5>1. j - k + 1 \in 1 .. Len(list) - k + 1 /\ (j - k + 1) + k - 1 = j
          BY <2>3, <4>3
        <5>2. QED
          BY <2>3, <5>1
      <4>5. QED
        BY <4>1, <4>4 DEF Shows
    <3>6. CASE \E j \in 1 .. Len(list) - 1 : /\ list[j].time <= s.time /\ s.time <= list[j + 1].time
                                             /\ list[j].data = s.data /\ list[j + 1].data = s.data
      <4>1. PICK j \in 1 .. Len(list) - 1 : /\ list[j].time <= s.time /\ s.time <= list[j + 1].time
                                            /\ list[j].data = s.data /\ list[j + 1].data = s.data
        BY <3>6
      <4>2. j + 1 \in 1 .. Len(list) /\ j \in Nat
        BY <2>3
      <4>3. j >= k
        <5> SUFFICES ASSUME j + 1 <= k PROVE FALSE
          BY <2>3, <4>2
        <5>1. list[j + 1].time < s.time
          BY <3>3, <4>2
        <5>2. QED
          BY <3>1, <3>2, <4>1, <4>2, <5>1
      <4>4. /\ j - k + 1 \in 1 .. Len(h.list) - 1
            /\ h.list[j - k + 1] = list[j] /\ h.list[(j - k + 1) + 1] = list[j + 1]
        <5>1. \A n, jj, kk \in Nat : kk <= jj /\ jj + 1 <= n =>
              /\ jj - kk + 1 \in 1 .. n - kk + 1 /\ (jj - kk + 1) + kk - 1 = jj
              /\ (jj - kk + 1) + 1 \in 1 .. n - kk + 1 /\ ((jj - kk + 1) + 1) + kk - 1 = jj + 1
              /\ jj - kk + 1 \in 1 .. (n - kk + 1) - 1
          OBVIOUS
        <5>2. k <= j /\ j + 1 <= Len(list) /\ j \in Nat
          BY <2>3, <4>2, <4>3
        <5>3. /\ j - k + 1 \in 1 .. Len(list) - k + 1 /\ (j - k + 1) + k - 1 = j
              /\ (j - k + 1) + 1 \in 1 .. Len(list) - k + 1 /\ ((j - k + 1) + 1) + k - 1 = j + 1
              /\ j - k + 1 \in 1 .. (Len(list) - k + 1) - 1
          BY <2>3, <5>1, <5>2, Zenon
        <5>4. QED
          BY <2>3, <5>3
      <4>5. QED
        BY <4>1, <4>4 DEF Shows
    <3>7. QED
      BY <3>4, <3>5, <3>6 DEF Shows
  <2>8. QED
    BY <1>3, <2>1, <2>3, <2>5, <2>6, <2>7 DEF Knows
<1>4. QED
  BY <1>1, <1>2, <1>3

(* What is under way moves up. *)
LEMMA RestCarried ==
  ASSUME NEW ss, NEW w \in Seq(Packets \cup {Registration}), w # << >>, NEW got, NEW n, Carries(ss, w, got, n)
  PROVE  /\ Carries(ss, Tail(w), got, n) /\ Carries(ss, Tail(w), {}, n)
         /\ Head(w) # Registration =>
              /\ Head(w) \in Packets /\ Head(w).update \in 1 .. n /\ Tells(ss, Head(w))
              /\ \A u \in got : u < Head(w).update
              /\ \A i \in 1 .. Len(Tail(w)) : IsData(Tail(w)[i]) => Head(w).update < Tail(w)[i].update
<1> DEFINE rest == Tail(w)
<1>1. /\ Head(w) = w[1] /\ w[1] \in Packets \cup {Registration} /\ 1 \in 1 .. Len(w) /\ Len(rest) \in Nat
      /\ \A i \in 1 .. Len(rest) : i + 1 \in 1 .. Len(w) /\ rest[i] = w[i + 1] /\ 1 < i + 1
  OBVIOUS
<1> HIDE DEF rest
<1>2. \A i, j \in 1 .. Len(rest) : i < j => i + 1 < j + 1
  BY <1>1
<1>3. Carries(ss, rest, got, n) /\ Carries(ss, rest, {}, n)
  BY <1>1, <1>2 DEF Carries
<1>4. ASSUME Head(w) # Registration
      PROVE  /\ Head(w) \in Packets /\ Head(w).update \in 1 .. n /\ Tells(ss, Head(w))
             /\ \A u \in got : u < Head(w).update
             /\ \A i \in 1 .. Len(rest) : IsData(rest[i]) => Head(w).update < rest[i].update
  BY <1>1, <1>4 DEF Carries, IsData
<1>5. QED
  BY <1>3, <1>4 DEF rest

(* One packet is handled, and the list may be cleared.                     *)
LEMMA UpdateFollows ==
  ASSUME NEW ss \in Seq(SampleSet), NEW v \in Views, NEW w \in Seq(Packets \cup {Registration}), w # << >>,
         NEW n \in Nat, Follows(ss, v, w, n), NEW h, h = Handled(v, Head(w))
  PROVE  Follows(ss, h, Tail(w), n)
<1>1. CASE Head(w) = Registration
  <2>1. h.list = << >> /\ h.got = {}
    BY <1>1 DEF Handled, Views
  <2>2. Knows(ss, h)
    BY <2>1 DEF Knows
  <2>3. Carries(ss, Tail(w), {}, n)
    BY RestCarried DEF Follows
  <2>4. QED
    BY <2>1, <2>2, <2>3 DEF Follows
<1>2. CASE Head(w) # Registration
  <2>1. PICK p : p = Head(w)
    OBVIOUS
  <2>2. /\ p \in Packets /\ p # Registration /\ p.update \in 1 .. n /\ Tells(ss, p)
        /\ \A u \in v.got : u < p.update
        /\ \A i \in 1 .. Len(Tail(w)) : IsData(Tail(w)[i]) => p.update < Tail(w)[i].update
        /\ Carries(ss, Tail(w), v.got, n)
    BY <1>2, <2>1, RestCarried DEF Follows
  <2>3. Knows(ss, h) /\ h.got = v.got \cup {p.update}
    BY <2>1, <2>2, HandledKnows DEF Follows
  <2>4. Carries(ss, Tail(w), h.got, n)
    BY <2>2, <2>3 DEF Carries
  <2>5. QED
    BY <2>2, <2>3, <2>4 DEF Follows
<1>3. QED
  BY <1>1, <1>2

LEMMA ClearFollows ==
  ASSUME NEW ss \in Seq(SampleSet), NEW v \in Views, NEW w, NEW n \in Nat, Follows(ss, v, w, n),
         Ordered(v.list), NEW limit, NEW h, h = Clear(v, limit)
  PROVE  Follows(ss, h, w, n)
<1>1. Knows(ss, h) /\ h.got = v.got
  BY ClearKnows DEF Follows
<1>2. QED
  BY <1>1 DEF Follows

(* A packet is put on the wire.                                            *)
LEMMA SentFollows ==
  ASSUME NEW ss, NEW v \in Views, NEW w \in Seq(Packets \cup {Registration}), NEW n \in Nat, Follows(ss, v, w, n),
         NEW p \in Packets, Tells(ss, p), p.update = n + 1
  PROVE  Follows(ss, v, Append(w, p), n + 1)
<1> DEFINE w2 == Append(w, p)
<1>1. /\ Len(w) \in Nat /\ Len(w2) = Len(w) + 1 /\ w2[Len(w) + 1] = p
      /\ \A i \in 1 .. Len(w) : w2[i] = w[i]
  OBVIOUS
<1> HIDE DEF w2
<1>2. \A i \in 1 .. Len(w2) : i \in 1 .. Len(w) \/ i = Len(w) + 1
  BY <1>1
<1>3. \A u \in v.got : u \in 1 .. n
  BY DEF Follows
<1>4. ASSUME NEW i \in 1 .. Len(w2), IsData(w2[i])
      PROVE  /\ w2[i].update \in 1 .. n + 1 /\ Tells(ss, w2[i])
             /\ \A u \in v.got : u < w2[i].update
  <2>1. CASE i \in 1 .. Len(w)
    <3>1. w2[i] = w[i] /\ w[i].update \in 1 .. n /\ Tells(ss, w[i]) /\ \A u \in v.got : u < w[i].update
      BY <1>1, <1>4, <2>1 DEF Follows, Carries
    <3>2. QED
      BY <3>1
  <2>2. CASE i = Len(w) + 1
    <3>1. w2[i] = p
      BY <1>1, <2>2
    <3>2. \A u \in v.got : u < n + 1
      BY <1>3
    <3>3. QED
      BY <3>1, <3>2
  <2>3. QED
    BY <1>2, <2>1, <2>2
<1>5. ASSUME NEW i \in 1 .. Len(w2), NEW j \in 1 .. Len(w2), i < j, IsData(w2[i]), IsData(w2[j])
      PROVE  w2[i].update < w2[j].update
  <2>1. i \in 1 .. Len(w) /\ w2[i] = w[i]
    BY <1>1, <1>2, <1>5
  <2>2. CASE j \in 1 .. Len(w)
    BY <1>1, <1>5, <2>1, <2>2 DEF Follows, Carries
  <2>3. CASE j = Len(w) + 1
    <3>1. w2[j] = p
      BY <1>1, <2>3
    <3>2. w2[i].update \in 1 .. n
      BY <1>5, <2>1 DEF Follows, Carries
    <3>3. QED
      BY <3>1, <3>2
  <2>4. QED
    BY <1>2, <2>2, <2>3
<1>6. Carries(ss, w2, v.got, n + 1)
  BY <1>4, <1>5 DEF Carries
<1>7. v.got \subseteq 1 .. n + 1
  BY <1>3
<1>8. QED
  BY <1>6, <1>7 DEF Follows, w2

LEMMA LaterFollows ==
  ASSUME NEW ss, NEW v, NEW w, NEW n \in Nat, Follows(ss, v, w, n)
  PROVE  Follows(ss, v, w, n + 1)
<1>1. 1 .. n \subseteq 1 .. n + 1
  OBVIOUS
<1>2. QED
  BY <1>1 DEF Follows, Carries

LEMMA RegisteredFollows ==
  ASSUME NEW ss, NEW v, NEW w \in Seq(Packets \cup {Registration}), NEW n, Follows(ss, v, w, n)
  PROVE  Follows(ss, v, Append(w, Registration), n) /\ Follows(ss, v, <<Registration>>, n)
<1> DEFINE w2 == Append(w, Registration)
<1>1. /\ Len(w) \in Nat /\ Len(w2) = Len(w) + 1 /\ w2[Len(w) + 1] = Registration
      /\ \A i \in 1 .. Len(w) : w2[i] = w[i]
  OBVIOUS
<1>2. \A i \in 1 .. Len(w2) : IsData(w2[i]) => i \in 1 .. Len(w) /\ w2[i] = w[i]
  BY <1>1 DEF IsData
<1> HIDE DEF w2
<1>3. Carries(ss, w2, v.got, n)
  BY <1>2 DEF Follows, Carries
<1>4. \A i \in 1 .. Len(<<Registration>>) : ~ IsData(<<Registration>>[i])
  BY DEF IsData
<1>5. Carries(ss, <<Registration>>, v.got, n)
  BY <1>4 DEF Carries
<1>6. QED
  BY <1>3, <1>5 DEF Follows, w2

-----------------------------------------------------------------------------
(* The steps. *)

LEMMA InitTruthInv == Init => TruthInv
<1> SUFFICES ASSUME Init PROVE TruthInv
  OBVIOUS
<1>1. IInv
  BY InitIInv
<1>2. samples = << >> /\ << >> \in Seq(SampleSet)
  BY DEF Init
<1>3. Typing /\ (initialized => updates > 0)
  BY DEF Init, Typing
<1>4. Sampling(samples, now, updates, last) /\ Maintained(samples, updates, maintain)
  BY <1>2 DEF Sampling, Maintained
<1>5. ASSUME NEW c \in Clients PROVE Follows(samples, view[c], wire[c], updates)
  <2>1. view[c].list = << >> /\ view[c].got = {} /\ wire[c] = << >>
    BY DEF Init
  <2>2. Knows(samples, view[c])
    BY <1>2, <2>1 DEF Knows
  <2>3. Carries(samples, wire[c], {}, updates)
    BY <2>1 DEF Carries
  <2>4. QED
    BY <2>1, <2>2, <2>3 DEF Follows
<1>6. QED
  BY <1>1, <1>3, <1>4, <1>5 DEF TruthInv

LEMMA TruthTypes ==
  ASSUME TruthInv
  PROVE  /\ now \in Nat /\ maintain \in Nat /\ maintain <= now /\ updates \in Nat /\ last \in Values
         /\ samples \in Seq(SampleSet)
         /\ \A c \in Clients : /\ view[c] \in Views /\ wire[c] \in Seq(Packets \cup {Registration})
                               /\ Timed(view[c].list, wire[c], now, maintain)
                               /\ Follows(samples, view[c], wire[c], updates)
<1>1. QED
  BY DEF TruthInv, IInv, Typed, Sampling

(* Every sample is at the server's time.                                   *)
LEMMA SampledGrows ==
  ASSUME TruthInv, NEW v \in Values, NEW u \in Nat, Sampled(v, u),
         (u = updates /\ updates > 0 /\ v = last) \/ u = updates + 1,
         NEW x, x = [time |-> now, data |-> v, update |-> u]
  PROVE  /\ Grown(samples, samples', x) /\ samples' \in Seq(SampleSet)
         /\ Sampling(samples', now, u, v)
         /\ HeldIn(samples', Point(now, v))
<1>1. now \in Nat /\ updates \in Nat /\ samples \in Seq(SampleSet)
  BY TruthTypes
<1>2. x \in SampleSet /\ x.time = now /\ x.data = v /\ x.update = u
  BY <1>1 DEF SampleSet
<1>3. PICK s2 : s2 = samples'
  OBVIOUS
<1>4. /\ s2 \in Seq(SampleSet) /\ Len(samples) \in Nat /\ Len(s2) = Len(samples) + 1
      /\ s2[Len(samples) + 1] = x /\ \A i \in 1 .. Len(samples) : s2[i] = samples[i]
  <2>1. s2 = Append(samples, x)
    BY <1>3 DEF Sampled
  <2>2. QED
    BY <1>1, <1>2, <2>1
<1>5. \A i \in 1 .. Len(samples) :
        /\ samples[i].time <= now /\ samples[i].update \in 1 .. updates
        /\ samples[i].update = updates => samples[i].data = last
  BY DEF TruthInv, Sampling
<1>6. \A i \in 1 .. Len(samples) : samples[i].update = u => samples[i].data = v
  BY <1>1, <1>5
<1>7. Grown(samples, s2, x)
  BY <1>1, <1>2, <1>4, <1>5, <1>6 DEF Grown
<1>8. \A i \in 1 .. Len(s2) : i \in 1 .. Len(samples) \/ i = Len(s2)
  BY <1>4
<1>9. u \in 1 .. u /\ \A k \in 1 .. updates : k \in 1 .. u
  BY <1>1
<1>10. \A i \in 1 .. Len(s2) :
         /\ s2[i].time <= now /\ s2[i].update \in 1 .. u
         /\ s2[i].update = u => s2[i].data = v
         /\ i = Len(s2) => s2[i].update = u
  <2> SUFFICES ASSUME NEW i \in 1 .. Len(s2)
               PROVE  /\ s2[i].time <= now /\ s2[i].update \in 1 .. u
                      /\ s2[i].update = u => s2[i].data = v
                      /\ i = Len(s2) => s2[i].update = u
    OBVIOUS
  <2>1. CASE i = Len(s2)
    BY <1>1, <1>2, <1>4, <1>9, <2>1
  <2>2. CASE i \in 1 .. Len(samples)
    <3>1. i # Len(s2)
      BY <1>4, <2>2
    <3>2. QED
      BY <1>4, <1>5, <1>6, <1>9, <2>2, <3>1
  <2>3. QED
    BY <1>8, <2>1, <2>2
<1>11. Sampling(s2, now, u, v)
  BY <1>4, <1>10 DEF Sampling
<1>12. HeldIn(s2, Point(now, v))
  <2>1. Len(s2) \in 1 .. Len(s2) /\ ~ (Len(s2) < Len(s2)) /\ s2[Len(s2)] = x
    BY <1>4
  <2>2. Point(now, v).time = now /\ Point(now, v).data = v /\ now <= now
    BY <1>1 DEF Point
  <2>3. QED
    BY <1>2, <2>1, <2>2 DEF HeldIn
<1>13. QED
  BY <1>3, <1>4, <1>7, <1>11, <1>12

LEMMA TossTruth == ASSUME TruthInv, NEW v \in Values, Toss(v) PROVE TruthInv'
<1>1. /\ UNCHANGED <<now, initialized, last, active, wire, view, updates, asked>>
      /\ initialized /\ v = last /\ maintain' = now /\ Sampled(v, updates)
  BY DEF Toss
<1>2. /\ now \in Nat /\ maintain \in Nat /\ updates \in Nat /\ updates > 0
      /\ \A c \in Clients : /\ view[c] \in Views /\ Timed(view[c].list, wire[c], now, maintain)
                            /\ Follows(samples, view[c], wire[c], updates)
  BY <1>1, TruthTypes DEF TruthInv
<1>3. PICK x : x = [time |-> now, data |-> v, update |-> updates]
  OBVIOUS
<1>4. /\ Grown(samples, samples', x) /\ Sampling(samples', now, updates, v)
      /\ HeldIn(samples', Point(now, v))
  BY <1>1, <1>2, <1>3, SampledGrows
<1>5. Maintained(samples', updates, now)
  BY <1>4 DEF Maintained, Sampling
<1>6. \A c \in Clients : Follows(samples', view[c], wire[c], updates)
  <2>1. x.time = now /\ x.update = updates /\ now <= now /\ updates <= updates
    BY <1>2, <1>3
  <2>2. QED
    BY <1>2, <1>4, <2>1, FollowsStays
<1>7. IInv'
  BY <1>1, OnlyTime DEF TruthInv, IInv, Typed
<1>8. Typing'
  BY <1>1 DEF TruthInv, Typing
<1>9. QED
  BY <1>1, <1>2, <1>4, <1>5, <1>6, <1>7, <1>8 DEF TruthInv

LEMMA SendTruth == ASSUME TruthInv, NEW v \in Values, Send(v) PROVE TruthInv'
<1>1. /\ UNCHANGED <<now, active, view, asked>>
      /\ initialized' = TRUE /\ last' = v /\ maintain' = 0 /\ updates' = updates + 1
      /\ Sampled(v, updates + 1)
      /\ wire' = [c \in Clients |-> IF active[c] THEN Append(wire[c], Packet(v)) ELSE wire[c]]
  BY DEF Send
<1>2. /\ now \in Nat /\ maintain \in Nat /\ maintain <= now /\ updates \in Nat /\ updates + 1 \in Nat
      /\ \A c \in Clients : /\ view[c] \in Views /\ Timed(view[c].list, wire[c], now, maintain)
                            /\ wire[c] \in Seq(Packets \cup {Registration})
                            /\ Follows(samples, view[c], wire[c], updates)
  BY TruthTypes
<1>3. PICK x : x = [time |-> now, data |-> v, update |-> updates + 1]
  OBVIOUS
<1>4. /\ Grown(samples, samples', x) /\ Sampling(samples', now, updates + 1, v)
      /\ HeldIn(samples', Point(now, v))
  BY <1>1, <1>2, <1>3, SampledGrows
<1>5. x.time = now /\ x.update = updates + 1 /\ x.data = v
  BY <1>3
<1>6. \A i \in 1 .. Len(samples) : samples[i].update \in 1 .. updates
  BY DEF TruthInv, Sampling
<1>7. PICK n \in Nat : n = Len(samples) /\ n + 1 = Len(samples') /\ samples'[n + 1] = x
                       /\ \A i \in 1 .. n : samples'[i] = samples[i]
  <2>1. samples \in Seq(SampleSet)
    BY TruthTypes
  <2>2. QED
    BY <1>4, <2>1 DEF Grown
<1>8. \A i \in 1 .. Len(samples') : samples'[i].update = updates + 1 => samples'[i] = x
  BY <1>2, <1>6, <1>7
<1>9. First(samples', updates + 1, now)
  BY <1>2, <1>5, <1>8 DEF First
<1>10. Maintained(samples', updates + 1, 0)
  BY <1>5, <1>8, <1>9 DEF Maintained
<1>11. PICK p : p = Packet(v)
  OBVIOUS
<1>12. /\ p \in Packets /\ p.time = now /\ p.data = v /\ p.maintain = maintain /\ p.update = updates + 1
  BY <1>2, <1>11 DEF Packet, Packets, Times
<1>13. Tells(samples', p)
  <2>1. Opens(samples', updates + 1, Point(now, v))
    <3>1. n + 1 \in 1 .. Len(samples')
      BY <1>7
    <3>2. \E i \in 1 .. Len(samples') : samples'[i].update = updates + 1 /\ samples'[i].time = now
      BY <1>5, <1>7, <3>1
    <3>3. \A i \in 1 .. Len(samples') : samples'[i].update = updates + 1 => samples'[i].data = v
      BY <1>5, <1>8
    <3>4. Point(now, v).time = now /\ Point(now, v).data = v
      BY DEF Point
    <3>5. QED
      BY <1>9, <3>2, <3>3, <3>4 DEF Opens
  <2>2. Maintained(samples', updates, maintain)
    <3>1. updates + 1 # updates
      BY <1>2
    <3>2. QED
      BY <1>2, <1>4, <1>5, <3>1, MaintainedStays DEF TruthInv
  <2>3. (updates + 1) - 1 = updates
    BY <1>2
  <2>4. QED
    BY <1>4, <1>12, <2>1, <2>2, <2>3 DEF Tells
<1>14. ASSUME NEW c \in Clients PROVE Follows(samples', view[c], wire'[c], updates + 1)
  <2>1. Follows(samples', view[c], wire[c], updates)
    <3>1. now <= x.time /\ updates <= x.update
      BY <1>2, <1>5
    <3>2. QED
      BY <1>2, <1>4, <3>1, FollowsStays
  <2>2. Follows(samples', view[c], wire[c], updates + 1)
    BY <1>2, <2>1, LaterFollows
  <2>3. Follows(samples', view[c], Append(wire[c], p), updates + 1)
    BY <1>2, <1>12, <1>13, <2>1, SentFollows
  <2>4. wire'[c] = IF active[c] THEN Append(wire[c], p) ELSE wire[c]
    BY <1>1, <1>11
  <2>5. QED
    BY <2>2, <2>3, <2>4
<1>15. IInv'
  BY SendIInv DEF TruthInv
<1>16. Typing'
  BY <1>1 DEF TruthInv, Typing
<1>17. updates + 1 > 0
  BY <1>2
<1>18. QED
  BY <1>1, <1>4, <1>10, <1>14, <1>15, <1>16, <1>17 DEF TruthInv

(* The value is still the last at any time from the last sample on.        *)
LEMMA GroupTruth ==
  ASSUME TruthInv
  PROVE  Maintained(samples, updates, now)
<1>1. now \in Nat /\ samples \in Seq(SampleSet)
  BY TruthTypes
<1>2. \A i \in 1 .. Len(samples) :
        /\ samples[i].time <= now /\ (samples[i].update = updates => samples[i].data = last)
        /\ i = Len(samples) => samples[i].update = updates
  BY DEF TruthInv, Sampling
<1>3. ASSUME NEW i \in 1 .. Len(samples), samples[i].update = updates
      PROVE  HeldIn(samples, Point(now, samples[i].data))
  <2>1. PICK n \in 1 .. Len(samples) : n = Len(samples)
    BY <1>1
  <2>2. ~ (n < Len(samples)) /\ samples[n].data = samples[i].data /\ samples[n].time <= now
    BY <1>2, <1>3, <2>1
  <2>3. Point(now, samples[i].data).time = now /\ Point(now, samples[i].data).data = samples[i].data
    BY DEF Point
  <2>4. QED
    BY <2>2, <2>3 DEF HeldIn
<1>4. QED
  BY <1>2, <1>3 DEF Maintained

LEMMA UpdateTruth == ASSUME TruthInv, NEW c \in Clients, Update(c) PROVE TruthInv'
<1> DEFINE w == wire[c]
           h == Handled(view[c], Head(w))
<1>1. /\ w # << >> /\ wire' = [wire EXCEPT ![c] = Tail(w)]
      /\ UNCHANGED <<now, initialized, last, maintain, active, samples, updates, asked>>
  BY DEF Update, channelVars
<1>2. /\ now \in Nat /\ maintain \in Nat /\ updates \in Nat /\ samples \in Seq(SampleSet)
      /\ view[c] \in Views /\ w \in Seq(Packets \cup {Registration})
      /\ Timed(view[c].list, w, now, maintain)
      /\ Follows(samples, view[c], w, updates)
  BY TruthTypes
<1>3. Follows(samples, h, Tail(w), updates)
  BY <1>1, <1>2, UpdateFollows
<1>4. h \in Views /\ Ordered(h.list)
  BY <1>1, <1>2, HandledTimed DEF Timed
<1>5. PICK v : view' = [view EXCEPT ![c] = v] /\ Follows(samples, v, Tail(w), updates)
  <2>1. CASE view' = [view EXCEPT ![c] = h]
    BY <1>3, <2>1
  <2>2. CASE \E limit \in 0 .. now : view' = [view EXCEPT ![c] = Clear(h, limit)]
    <3>1. PICK limit \in 0 .. now : view' = [view EXCEPT ![c] = Clear(h, limit)]
      BY <2>2
    <3> HIDE DEF h
    <3>2. Follows(samples, Clear(h, limit), Tail(w), updates)
      BY <1>2, <1>3, <1>4, ClearFollows
    <3>3. QED
      BY <3>1, <3>2
  <2>3. QED
    BY <2>1, <2>2 DEF Update
<1>6. IInv'
  BY UpdateIInv DEF TruthInv
<1>7. ASSUME NEW d \in Clients PROVE Follows(samples, view'[d], wire'[d], updates)
  <2>1. wire \in [Clients -> Seq(Packets \cup {Registration})] /\ view \in [Clients -> Views]
    BY DEF TruthInv, IInv, Typed
  <2>2. CASE d = c
    BY <1>1, <1>5, <2>1, <2>2
  <2>3. CASE d # c
    BY <1>1, <1>5, <2>1, <2>3, TruthTypes
  <2>4. QED
    BY <2>2, <2>3
<1>8. Typing'
  BY <1>1 DEF TruthInv, Typing
<1>9. QED
  BY <1>1, <1>6, <1>7, <1>8 DEF TruthInv

(* A client's wire is replaced, and nothing else.                          *)
LEMMA RewiredTruth ==
  ASSUME TruthInv, IInv', Typing', NEW c \in Clients, NEW w, wire' = [wire EXCEPT ![c] = w],
         Follows(samples, view[c], w, updates), UNCHANGED <<channelVars, view, samples, updates>>
  PROVE  TruthInv'
<1>1. ASSUME NEW d \in Clients PROVE Follows(samples, view[d], wire'[d], updates)
  <2>1. wire \in [Clients -> Seq(Packets \cup {Registration})]
    BY DEF TruthInv, IInv, Typed
  <2>2. wire'[d] = IF d = c THEN w ELSE wire[d]
    BY <2>1
  <2>3. QED
    BY <2>2, TruthTypes
<1>2. QED
  BY <1>1 DEF TruthInv, channelVars

LEMMA NextTruthInv == TruthInv /\ [Next]_vars => TruthInv'
<1> SUFFICES ASSUME TruthInv, [Next]_vars PROVE TruthInv'
  OBVIOUS
<1>1. IInv'
  BY NextIInv DEF TruthInv
<1>2. CASE Tick
  <2>1. /\ now \in Nat /\ now' \in Nat /\ now <= now'
        /\ UNCHANGED <<initialized, last, maintain, active, wire, view, samples, updates, asked>>
    BY <1>2, TruthTypes DEF Tick
  <2>2. Sampling(samples, now', updates, last)
    <3>1. \A i \in 1 .. Len(samples) : samples[i].time \in Nat
      BY SampleFields, TruthTypes
    <3>2. QED
      BY <2>1, <3>1 DEF TruthInv, Sampling
  <2>3. QED
    BY <1>1, <2>1, <2>2 DEF TruthInv, Typing
<1>3. ASSUME NEW v \in Values, DataSend(v) PROVE TruthInv'
  BY <1>3, TossTruth, SendTruth DEF DataSend
<1>4. ASSUME NEW c \in Clients, NEW bit \in BOOLEAN, Activate(c, bit) PROVE TruthInv'
  <2>1. Typing'
    BY <1>4 DEF Activate, Ask, channelVars, TruthInv, Typing
  <2>2. QED
    BY <1>1, <1>4, <2>1 DEF Activate, channelVars, TruthInv
<1>5. ASSUME NEW c \in Clients, ActivateGroup(c) PROVE TruthInv'
  <2>1. Typing'
    BY <1>5 DEF ActivateGroup, Ask, TruthInv, Typing
  <2>2. UNCHANGED <<now, initialized, last, wire, view, samples, updates>> /\ maintain' \in {now, maintain}
    BY <1>5 DEF ActivateGroup
  <2>3. Maintained(samples, updates, maintain')
    BY <2>2, GroupTruth DEF TruthInv
  <2>4. QED
    BY <1>1, <2>1, <2>2, <2>3 DEF TruthInv
<1>6. ASSUME NEW c \in Clients, Register(c) \/ Connect(c) PROVE TruthInv'
  <2>1. Typing'
    <3>1. active \in [Clients -> BOOLEAN] /\ initialized \in BOOLEAN /\ asked \in Nat
      BY DEF TruthInv, Typing
    <3>2. /\ asked' = asked + 1 /\ initialized' = initialized
          /\ active' = active \/ active' = [active EXCEPT ![c] = FALSE]
      BY <1>6 DEF Register, Connect, Ask, channelVars
    <3>3. active' \in [Clients -> BOOLEAN]
      BY <3>1, <3>2
    <3>4. QED
      BY <3>1, <3>2, <3>3 DEF Typing
  <2>2. wire[c] \in Seq(Packets \cup {Registration}) /\ Follows(samples, view[c], wire[c], updates)
    BY TruthTypes
  <2>3. /\ Follows(samples, view[c], Append(wire[c], Registration), updates)
        /\ Follows(samples, view[c], <<Registration>>, updates)
    BY <2>2, RegisteredFollows
  <2>4. QED
    BY <1>1, <1>6, <2>1, <2>3, RewiredTruth DEF Register, Connect
<1>7. ASSUME NEW c \in Clients, Update(c) PROVE TruthInv'
  BY <1>7, UpdateTruth
<1>8. CASE UNCHANGED vars
  BY <1>1, <1>8 DEF vars, channelVars, TruthInv, Typing
<1>9. QED
  BY <1>2, <1>3, <1>4, <1>5, <1>6, <1>7, <1>8 DEF Next

LEMMA TruthInvHolds == Spec => []TruthInv
<1>1. QED
  BY InitTruthInv, NextTruthInv, PTL DEF Spec

(* All variables keep their types.                                         *)
THEOREM TypeCorrect == Spec => []TypeOK
<1>1. TruthInv => TypeOK
  <2> SUFFICES ASSUME TruthInv PROVE TypeOK
    OBVIOUS
  <2>1. samples \in Seq([time : Times, data : Values, update : 1 .. updates])
    <3> DEFINE Told == [time : Times, data : Values, update : 1 .. updates]
    <3>1. samples \in Seq(SampleSet) /\ \A i \in 1 .. Len(samples) : samples[i].update \in 1 .. updates
      BY DEF TruthInv, Sampling
    <3>2. \A x \in SampleSet : x.update \in 1 .. updates => x \in Told
      BY DEF SampleSet, Times
    <3>3. \A i \in 1 .. Len(samples) : samples[i] \in Told
      BY <3>1, <3>2
    <3> HIDE DEF Told
    <3>4. samples \in Seq(Told)
      BY <3>1, <3>3
    <3>5. QED
      BY <3>4 DEF Told
  <2>2. QED
    BY <2>1 DEF TruthInv, IInv, Typed, Typing, TypeOK, Times
<1>2. QED
  BY <1>1, TruthInvHolds, PTL

(* Nothing is lost by the compression: whoever joins, leaves or clears old *)
(* data, a client that got two updates in succession can tell every sample *)
(* of the first, whenever it was tossed.                                   *)
THEOREM SamplesReconstructedHolds == Spec => []SamplesReconstructed
<1>1. TruthInv => SamplesReconstructed
  <2> SUFFICES ASSUME TruthInv, NEW c \in Clients PROVE Knows(samples, view[c])
    BY DEF SamplesReconstructed, Knows
  <2>1. QED
    BY TruthTypes DEF Follows
<1>2. QED
  BY <1>1, TruthInvHolds, PTL

(* Nothing is invented: every point of a client that missed no update      *)
(* since its first is a value that the channel had at that time.           *)
THEOREM PointsAreHeldHolds == Spec => []PointsAreHeld
<1>1. TruthInv => PointsAreHeld
  <2> SUFFICES ASSUME TruthInv, NEW c \in Clients, Contiguous(view[c].got),
                      NEW i \in 1 .. Len(view[c].list)
               PROVE  HeldIn(samples, view[c].list[i])
    BY DEF PointsAreHeld, Contiguous, Held, HeldIn
  <2>1. QED
    BY TruthTypes DEF Follows, Knows
<1>2. QED
  BY <1>1, TruthInvHolds, PTL
=============================================================================
