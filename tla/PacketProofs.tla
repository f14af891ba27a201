----------------------------- MODULE PacketProofs -----------------------------
(***************************************************************************)
(* What a packet is on its way from vb__Packet_serialize to Pump.          *)
(*                                                                         *)
(* Its size (PacketSize): for every number and time of the code's types,   *)
(* and whatever is registered, samples, values of sliders and              *)
(* registrations fit the buffers predicted for them, and submessages have  *)
(* room for their lengths.  Names are shorter than 2 MiB, where a theorem  *)
(* does not say less.                                                      *)
(*                                                                         *)
(* Its place in the stream (Framing): for packets and prefixes of any      *)
(* length and reads of any number of bytes, it comes out as it went in.    *)
(***************************************************************************)
EXTENDS PacketSize, Framing, SequenceTheorems, FiniteSetTheorems, WellFoundedInduction, TLAPS

-----------------------------------------------------------------------------
(* Types. *)

LEMMA ConstantsTyped ==
  /\ Names \subseteq Nat /\ Numbers \subseteq Int /\ Sliders \subseteq Seq(Int) /\ MaxItems \in Nat
  /\ Handles \subseteq Nat /\ \A h \in Handles : h < 65535
<1>1. QED
  BY PacketSizeAssumption

LEMMA InitTypeOK == Init => TypeOK
<1>1. QED
  BY DEF Init, TypeOK

LEMMA ControlsTyped == Controls \subseteq ControlSet
<1>1. ASSUME NEW n \in Names, NEW c \in Names \cup {NoCommand} PROVE Control("button", n, c, << >>) \in ControlSet
  BY DEF Control, ControlSet
<1>2. ASSUME NEW t \in {"float", "int"}, NEW n \in Names, NEW s \in Sliders
      PROVE  Control(t, n, NoCommand, s) \in ControlSet
  <2>1. s \in Seq(Int)
    BY ConstantsTyped
  <2>2. QED
    BY <2>1 DEF Control, ControlSet
<1>3. QED
  <2>1. SUFFICES ASSUME NEW c \in Controls PROVE c \in ControlSet
    OBVIOUS
  <2>2. CASE \E n \in Names, m \in Names \cup {NoCommand} : c = Control("button", n, m, << >>)
    BY <2>2, <1>1
  <2>3. CASE \E t \in {"float", "int"}, n \in Names, s \in Sliders : c = Control(t, n, NoCommand, s)
    BY <2>3, <1>2
  <2>4. QED
    BY <2>1, <2>2, <2>3 DEF Controls

LEMMA AppendTyped == ASSUME NEW S, NEW s \in Seq(S), NEW x \in S PROVE Append(s, x) \in Seq(S)
<1>1. QED
  OBVIOUS

LEMMA ElementTyped == ASSUME NEW S, NEW s \in Seq(S), NEW i \in DOMAIN s PROVE s[i] \in S /\ i \in Nat
<1>1. QED
  OBVIOUS

LEMMA NextTypeOK == TypeOK /\ [Next]_vars => TypeOK'
<1> SUFFICES ASSUME TypeOK, [Next]_vars PROVE TypeOK'
  OBVIOUS
<1> USE DEF TypeOK
<1>1. CASE Advance
  BY <1>1 DEF Advance
<1>2. ASSUME NEW n \in Names, NEW r \in BOOLEAN, AddChannel(n, r) PROVE TypeOK'
  <2>1. Channel(n, r) \in ChannelSet
    BY DEF Channel, ChannelSet
  <2>2. QED
    BY <1>2, <2>1, AppendTyped DEF AddChannel
<1>3. ASSUME NEW n \in Names, AddGroup(n) PROVE TypeOK'
  <2>1. Group(n, << >>) \in GroupSet
    BY DEF Group, GroupSet
  <2>2. QED
    BY <1>3, <2>1, AppendTyped DEF AddGroup
<1>4. ASSUME NEW n \in Names, NEW h \in 0 .. MaxItems, NEW v \in Numbers, AddLabel(h, v, n) PROVE TypeOK'
  <2>1. Label(h, v, n) \in LabelSet
    BY ConstantsTyped DEF Label, LabelSet
  <2>2. QED
    BY <1>4, <2>1, AppendTyped DEF AddLabel
<1>5. ASSUME NEW g \in DOMAIN groups, NEW h \in 0 .. MaxItems, AddMember(g, h) PROVE TypeOK'
  <2>1. h \in Nat /\ groups[g] \in GroupSet
    BY ConstantsTyped, ElementTyped
  <2> DEFINE group == [groups[g] EXCEPT !.channels = Append(@, h)]
  <2>2. group \in GroupSet
    BY <2>1, AppendTyped DEF GroupSet
  <2>3. groups' = [groups EXCEPT ![g] = group]
    BY <1>5 DEF AddMember
  <2> HIDE DEF group
  <2>4. groups' \in Seq(GroupSet)
    BY <2>2, <2>3
  <2>5. QED
    BY <1>5, <2>4 DEF AddMember
<1>6. ASSUME NEW c \in Controls, AddControl(c) PROVE TypeOK'
  BY <1>6, ControlsTyped, AppendTyped DEF AddControl
<1>7. CASE UNCHANGED vars
  BY <1>7 DEF vars
<1>8. QED
  BY <1>1, <1>2, <1>3, <1>4, <1>5, <1>6, <1>7 DEF Next

(* Spec types its variables. *)
THEOREM TypeCorrect == Spec => []TypeOK
<1>1. QED
  BY InitTypeOK, NextTypeOK, PTL DEF Spec

-----------------------------------------------------------------------------
(* Sizes. *)

LEMMA VarintRange ==
  /\ \A n : Varint(n) \in 1 .. 5
  /\ \A n \in Nat : n < 2097152 => Varint(n) <= 3
  /\ \A n \in Nat : n < 16384 => Varint(n) <= 2
  /\ \A n \in Int : n < 16384 => Varint(n) = Shift(n)
<1>1. QED
  BY DEF Varint, Shift

LEMMA IntSizeRange ==
  /\ \A n : IntSize(n) \in 1 .. 10 /\ UnsignedSize(n) \in 1 .. 5
  /\ \A n \in Nat : IntSize(n) <= 5
<1>1. QED
  BY VarintRange, PacketSizeAssumption DEF IntSize, UnsignedSize

LEMMA NameRange ==
  /\ \A n \in Names : n \in Nat /\ n <= 2097151 /\ StrLen(n) \in Nat /\ StrLen(n) >= n
  /\ \A n \in Names : Name(n) \in Nat /\ Name(n) <= n + 4
  /\ \A n \in Names : n < 16384 => Name(n) <= n + 3
<1> SUFFICES ASSUME NEW n \in Names
             PROVE  /\ n \in Nat /\ n <= 2097151 /\ StrLen(n) \in Nat /\ StrLen(n) >= n
                    /\ Name(n) \in Nat /\ Name(n) <= n + 4
                    /\ n < 16384 => Name(n) <= n + 3
  OBVIOUS
<1>1. n \in Nat /\ n <= 2097151
  BY PacketSizeAssumption
<1>2. Varint(n) \in 1 .. 3 /\ (n < 16384 => Varint(n) <= 2)
  BY <1>1, VarintRange
<1>3. QED
  BY <1>1, <1>2 DEF Name, StrLen, Tag

(* A sample of at most size bytes, of which predicted are counted on.      *)
LEMMA DataRange ==
  ASSUME NEW d \in Samples
  PROVE  /\ Data(d) \in 0 .. 100
         /\ d.value >= 0 => WithTag(Data(d)) < DataPredicted(d)
<1>1. d.type \in {"int", "float", "vector"} /\ d.handle \in Handles /\ d.value \in Numbers
  BY Zenon DEF Samples
<1>2. /\ Varint(d.handle) \in 1 .. 3
      /\ Varint(d.time) \in 1 .. 5 /\ Varint(d.maintain) \in 1 .. 5
      /\ IntSize(d.value) \in 1 .. 10 /\ (d.value >= 0 => IntSize(d.value) <= 5)
  <2>1. \A h \in Handles : Varint(h) \in 1 .. 3
    BY ConstantsTyped, VarintRange
  <2>2. \A v \in Numbers : v >= 0 => IntSize(v) <= 5
    BY ConstantsTyped, IntSizeRange
  <2>3. \A n : Varint(n) \in 1 .. 5 /\ IntSize(n) \in 1 .. 10
    BY VarintRange, IntSizeRange
  <2>4. QED
    BY <1>1, <2>1, <2>2, <2>3, Zenon
<1> DEFINE payload == CASE d.type = "int"    -> Tag + IntSize(d.value)
                        [] d.type = "float"  -> Tag + Fixed32
                        [] d.type = "vector" -> 3 * (Tag + Fixed32)
           held == IF d.maintain = 0 THEN 0 ELSE Tag + Varint(d.maintain)
<1>3. /\ payload \in 0 .. 15
      /\ d.value >= 0 => payload <= (IF d.type = "vector" THEN 15 ELSE 6)
  BY <1>1, <1>2 DEF Tag, Fixed32
<1>4. held \in 0 .. 6 /\ (d.maintain = 0 => held = 0)
  BY <1>2 DEF Tag
<1>5. Data(d) = Tag + Varint(d.handle) + payload + Tag + Varint(d.time) + held
  BY Zenon DEF Data
<1> HIDE DEF payload, held
<1>6. Data(d) \in 0 .. 100 /\ Data(d) <= 10 + payload + held
  BY <1>2, <1>3, <1>4, <1>5 DEF Tag
<1>7. WithTag(Data(d)) = 2 + Data(d)
  BY <1>6 DEF WithTag, Shift, Tag
<1>8. ASSUME d.value >= 0 PROVE WithTag(Data(d)) < DataPredicted(d)
  BY <1>3, <1>4, <1>6, <1>7, <1>8 DEF DataPredicted
<1>9. QED
  BY <1>6, <1>8

(* The new value of a slider: min, max and step are 0. *)
LEMMA UpdateRange ==
  ASSUME NEW t \in {"float", "int"}, NEW n \in Names, NEW v \in Int
  PROVE  LET control == Control(t, n, NoCommand, <<0, 0, 0, v>>)
         IN  /\ WithTag(DataControl(control)) \in Nat /\ ControlPredicted(control) \in Nat
             /\ WithTag(DataControl(control)) < ControlPredicted(control) + 3
<1> DEFINE control == Control(t, n, NoCommand, <<0, 0, 0, v>>)
<1>1. /\ control.type = t /\ control.name = n /\ control.command = NoCommand
      /\ control.numbers = <<0, 0, 0, v>>
  BY DEF Control
<1>2. n \in Nat /\ StrLen(n) \in Nat /\ StrLen(n) >= n /\ Name(n) \in Nat /\ Name(n) <= n + 4
  BY NameRange
<1>3. /\ control.numbers[1] = 0 /\ control.numbers[2] = 0 /\ control.numbers[3] = 0
      /\ IntSize(0) = 1 /\ UnsignedSize(0) = 1
  BY <1>1 DEF IntSize, UnsignedSize, Varint
<1>4. IntSize(control.numbers[4]) \in 1 .. 10
  BY IntSizeRange
<1> DEFINE payload == CASE t = "button" -> Command(control.command)
                        [] t = "float"  -> 3 * (Tag + Fixed32) + Tag + UnsignedSize(control.numbers[3])
                        [] t = "int"    -> 4 * Tag + IntSize(control.numbers[1]) + IntSize(control.numbers[2])
                                           + UnsignedSize(control.numbers[3]) + IntSize(control.numbers[4])
<1>5. payload \in 0 .. 17
  <2>1. CASE t = "float"
    BY <2>1, <1>3 DEF Tag, Fixed32
  <2>2. CASE t = "int"
    BY <2>2, <1>3, <1>4 DEF Tag
  <2>3. QED
    BY <2>1, <2>2
<1>6. DataControl(control) = Name(n) + Tag + 1 + payload
  BY <1>1, Zenon DEF DataControl
<1>7. ControlPredicted(control) = 34 + StrLen(n)
  BY <1>1, <1>2 DEF ControlPredicted
<1> HIDE DEF control, payload
<1>8. DataControl(control) \in Nat /\ DataControl(control) <= n + 23
  BY <1>2, <1>5, <1>6 DEF Tag
<1>9. WithTag(DataControl(control)) <= DataControl(control) + 3 /\ WithTag(DataControl(control)) \in Nat
  BY <1>8 DEF WithTag, Shift, Tag
<1>10. WithTag(DataControl(control)) < ControlPredicted(control) + 3
  BY <1>2, <1>7, <1>8, <1>9
<1>11. QED
  BY <1>2, <1>7, <1>9, <1>10 DEF control

LEMMA TextRange == \A n \in Names \ {0} : Text(n) < TextPredicted(n)
<1> SUFFICES ASSUME NEW n \in Names \ {0} PROVE Text(n) < TextPredicted(n)
  OBVIOUS
<1>1. n \in Nat /\ n < 2097152
  BY PacketSizeAssumption
<1>2. Varint(n) \in 1 .. 3
  BY <1>1, VarintRange
<1>3. QED
  BY <1>1, <1>2 DEF Text, TextPredicted, Tag

LEMMA WithTagNat == \A n \in Nat : WithTag(n) \in Nat
<1>1. QED
  BY DEF WithTag, Shift, Tag

LEMMA TypeOKValuesSerialize == TypeOK => ValuesSerialize
<1> SUFFICES ASSUME TypeOK PROVE ValuesSerialize
  OBVIOUS
<1>1. ASSUME NEW d \in Samples, d.value >= 0 PROVE Serializes(DataPacket(d))
  <2>1. WithTag(Data(d)) \in Nat /\ WithTag(Data(d)) < DataPredicted(d)
    BY <1>1, DataRange, WithTagNat
  <2>2. DataPredicted(d) \in Nat
    BY DEF DataPredicted
  <2>3. QED
    BY <2>1, <2>2 DEF Serializes, DataPacket, Packet, Tag
<1>2. ASSUME NEW i \in DOMAIN controls, NEW v \in Numbers, controls[i].type # "button"
      PROVE  Serializes(Update(controls[i], v))
  <2> DEFINE control == Control(controls[i].type, controls[i].name, NoCommand, <<0, 0, 0, v>>)
  <2>1. /\ controls[i].type \in {"float", "int"} /\ controls[i].name \in Names
        /\ v \in Int
    <3>1. controls[i] \in ControlSet
      BY ElementTyped DEF TypeOK
    <3>2. QED
      BY <1>2, <3>1, ConstantsTyped DEF ControlSet
  <2>2. /\ WithTag(DataControl(control)) \in Nat /\ ControlPredicted(control) \in Nat
        /\ WithTag(DataControl(control)) < ControlPredicted(control) + 3
    BY <2>1, UpdateRange
  <2> HIDE DEF control
  <2>3. Update(controls[i], v) = Packet(WithTag(DataControl(control)), ControlPredicted(control) + 3)
    BY DEF Update, control
  <2>4. QED
    BY <2>2, <2>3 DEF Serializes, Update, Packet, Tag
<1>3. ASSUME NEW n \in Names \ {0} PROVE Serializes(TextPacket(n))
  <2>1. n \in Nat /\ Varint(n) \in 1 .. 5
    BY PacketSizeAssumption, VarintRange
  <2>2. Text(n) \in Nat /\ TextPredicted(n) \in Nat
    BY <2>1 DEF Text, TextPredicted, Tag
  <2>3. QED
    BY <2>2, TextRange DEF Serializes, TextPacket, Packet, Tag
<1>4. QED
  BY <1>1, <1>2, <1>3 DEF ValuesSerialize

-----------------------------------------------------------------------------
(* Sums. *)

(* A set of numbers that holds 0 and every successor holds them all. *)
LEMMA Counting ==
  ASSUME NEW n \in Nat, NEW A, 0 \in A, \A i \in 0 .. n - 1 : i \in A => i + 1 \in A
  PROVE  \A i \in 0 .. n : i \in A
<1> DEFINE R == {ss \in Nat \X Nat : ss[1] < ss[2]}
           B == {i \in 0 .. n : i \notin A}
<1>1. IsWellFoundedOn(R, Nat)
  BY NatLessThanWellFounded, Zenon DEF OpToRel
<1>2. ASSUME B # {} PROVE FALSE
  <2>1. B \subseteq Nat
    OBVIOUS
  <2>2. PICK i \in B : \A j \in B : ~ (<<j, i>> \in R)
    BY <1>1, <1>2, <2>1, WFMin
  <2>3. i # 0 /\ i - 1 \in 0 .. n - 1 /\ (i - 1) + 1 = i
    OBVIOUS
  <2>4. i - 1 \notin A
    BY <2>3
  <2>5. i - 1 \in B /\ <<i - 1, i>> \in R
    BY <2>3, <2>4
  <2>6. QED
    BY <2>2, <2>5
<1>3. QED
  BY <1>2

(* f[i] is the sum of the first i sizes. *)
Adds(f, sizes, n) == f[0] = 0 /\ \A i \in 1 .. n : f[i] = f[i - 1] + sizes[i]

(* The recursion of SumOf has such an f, and one only. *)
LEMMA SumAdds ==
  ASSUME NEW s \in Seq(Int)
  PROVE  \E f \in [0 .. Len(s) -> Int] : Adds(f, s, Len(s)) /\ SumOf(s) = f[Len(s)]
<1> DEFINE n == Len(s)
           A == {m \in 0 .. n : \E f \in [0 .. m -> Int] : Adds(f, s, m)}
           Is(f) == f = [i \in 0 .. n |-> IF i = 0 THEN 0 ELSE f[i - 1] + s[i]]
<1>0. n \in Nat /\ \A i \in 1 .. n : s[i] \in Int
  OBVIOUS
<1> HIDE DEF n
<1>1. 0 \in A
  <2>1. PICK f : f = [i \in 0 .. 0 |-> 0]
    OBVIOUS
  <2>2. f \in [0 .. 0 -> Int] /\ f[0] = 0
    BY <2>1
  <2>3. Adds(f, s, 0)
    BY <2>2 DEF Adds
  <2>4. 0 \in 0 .. n /\ \E e \in [0 .. 0 -> Int] : Adds(e, s, 0)
    BY <1>0, <2>2, <2>3
  <2>5. QED
    BY <2>4
<1>2. ASSUME NEW m \in 0 .. n - 1, m \in A PROVE m + 1 \in A
  <2>1. PICK f \in [0 .. m -> Int] : Adds(f, s, m)
    BY <1>2
  <2>2. PICK x \in Int : x = f[m] + s[m + 1]
    <3>1. f[m] \in Int /\ s[m + 1] \in Int
      BY <1>0
    <3>2. QED
      BY <3>1
  <2> DEFINE g == [i \in 0 .. m + 1 |-> IF i = m + 1 THEN x ELSE f[i]]
  <2>3. g \in [0 .. m + 1 -> Int]
    <3>1. \A i \in 0 .. m + 1 : i # m + 1 => i \in 0 .. m
      BY <1>0
    <3>2. QED
      BY <3>1
  <2>4. g[m + 1] = x /\ \A i \in 0 .. m : g[i] = f[i]
    BY <1>0
  <2> HIDE DEF g
  <2>5. Adds(g, s, m + 1)
    <3>1. g[0] = 0
      BY <1>0, <2>1, <2>4 DEF Adds
    <3>2. ASSUME NEW i \in 1 .. m + 1 PROVE g[i] = g[i - 1] + s[i]
      <4>1. i - 1 \in 0 .. m /\ g[i - 1] = f[i - 1]
        BY <1>0, <2>4
      <4>2. CASE i = m + 1
        <5>1. i - 1 = m
          BY <1>0, <4>2
        <5>2. QED
          BY <2>2, <2>4, <4>1, <4>2, <5>1
      <4>3. CASE i # m + 1
        <5>1. i \in 1 .. m /\ i \in 0 .. m
          BY <1>0, <4>3
        <5>2. QED
          BY <2>1, <2>4, <4>1, <5>1 DEF Adds
      <4>4. QED
        BY <4>2, <4>3
    <3>3. QED
      BY <3>1, <3>2 DEF Adds
  <2>6. m + 1 \in 0 .. n
    BY <1>0
  <2>7. QED
    BY <2>3, <2>5, <2>6
<1>3. n \in A
  <2> HIDE DEF A
  <2>1. \A i \in 0 .. n : i \in A
    BY <1>0, <1>1, <1>2, Counting
  <2>2. QED
    BY <1>0, <2>1
<1>4. PICK f \in [0 .. n -> Int] : Adds(f, s, n)
  BY <1>3
<1>5. Is(f)
  <2>1. \A i \in 0 .. n : i # 0 => i \in 1 .. n
    BY <1>0
  <2>2. \A i \in 0 .. n : f[i] = IF i = 0 THEN 0 ELSE f[i - 1] + s[i]
    BY <1>4, <2>1 DEF Adds
  <2>3. QED
    BY <2>2
<1>6. PICK h : h = CHOOSE g : Is(g)
  OBVIOUS
<1>7. Is(h) /\ SumOf(s) = h[n]
  <2>1. Is(h)
    BY <1>5, <1>6, Zenon
  <2>2. SumOf(s) = (CHOOSE g : Is(g))[n]
    BY DEF SumOf, n
  <2>3. QED
    BY <1>6, <2>1, <2>2
<1>8. \A i \in 0 .. n : h[i] = f[i]
  <2> DEFINE C == {i \in 0 .. n : h[i] = f[i]}
  <2>1. 0 \in C
    BY <1>0, <1>5, <1>7
  <2>2. ASSUME NEW i \in 0 .. n - 1, i \in C PROVE i + 1 \in C
    <3>1. i + 1 \in 0 .. n /\ i + 1 # 0 /\ (i + 1) - 1 = i
      BY <1>0
    <3>2. h[i + 1] = h[i] + s[i + 1]
      BY <1>7, <3>1
    <3>3. f[i + 1] = f[i] + s[i + 1]
      BY <1>5, <3>1
    <3>4. QED
      BY <2>2, <3>1, <3>2, <3>3
  <2>3. \A i \in 0 .. n : i \in C
    <3> HIDE DEF C
    <3>1. QED
      BY <1>0, <2>1, <2>2, Counting
  <2>4. QED
    BY <2>3
<1>9. n \in 0 .. n
  BY <1>0
<1>10. QED
  BY <1>4, <1>7, <1>8, <1>9 DEF n

(* The i-th of one is at most the i-th of the other, and what e grows by.  *)
Exceeds(s, t, e, n) ==
  /\ e \in [0 .. n -> Nat] /\ e[0] = 0
  /\ \A i \in 1 .. n : s[i] <= t[i] + (e[i] - e[i - 1])

LEMMA SumAtMost ==
  ASSUME NEW s \in Seq(Int), NEW t \in Seq(Int), NEW n \in Nat, Len(s) = n, Len(t) = n,
         NEW e, Exceeds(s, t, e, n)
  PROVE  SumOf(s) \in Int /\ SumOf(t) \in Int /\ SumOf(s) <= SumOf(t) + e[n]
<1>0. \A i \in 1 .. n : s[i] \in Int /\ t[i] \in Int
  OBVIOUS
<1>1. PICK f \in [0 .. n -> Int] : Adds(f, s, n) /\ SumOf(s) = f[n]
  BY SumAdds
<1>2. PICK g \in [0 .. n -> Int] : Adds(g, t, n) /\ SumOf(t) = g[n]
  BY SumAdds
<1> DEFINE A == {i \in 0 .. n : f[i] <= g[i] + e[i]}
<1>3. 0 \in A
  BY <1>1, <1>2 DEF Adds, Exceeds
<1>4. ASSUME NEW i \in 0 .. n - 1, i \in A PROVE i + 1 \in A
  <2>1. i + 1 \in 1 .. n /\ i + 1 \in 0 .. n /\ i \in 0 .. n /\ (i + 1) - 1 = i
    OBVIOUS
  <2>2. f[i + 1] = f[i] + s[i + 1]
    BY <1>1, <2>1 DEF Adds
  <2>3. g[i + 1] = g[i] + t[i + 1]
    BY <1>2, <2>1 DEF Adds
  <2>4. s[i + 1] <= t[i + 1] + (e[i + 1] - e[i])
    BY <2>1 DEF Exceeds
  <2>5. /\ f[i] \in Int /\ g[i] \in Int /\ e[i] \in Int /\ e[i + 1] \in Int
        /\ s[i + 1] \in Int /\ t[i + 1] \in Int
    <3>1. e \in [0 .. n -> Nat]
      BY DEF Exceeds
    <3>2. s[i + 1] \in Int /\ t[i + 1] \in Int
      BY <1>0, <2>1
    <3>3. f[i] \in Int /\ g[i] \in Int
      BY <2>1
    <3>4. e[i] \in Int /\ e[i + 1] \in Int
      BY ONLY <2>1, <3>1
    <3>5. QED
      BY ONLY <3>2, <3>3, <3>4
  <2>6. f[i] <= g[i] + e[i]
    BY <1>4
  <2>7. f[i + 1] <= g[i + 1] + e[i + 1]
    <3>1. \A a, b, c, d, x, y \in Int : a <= b + c /\ x <= y + (d - c) => a + x <= (b + y) + d
      OBVIOUS
    <3>2. f[i] + s[i + 1] <= (g[i] + t[i + 1]) + e[i + 1]
      BY ONLY <2>4, <2>5, <2>6, <3>1
    <3>3. QED
      BY ONLY <2>2, <2>3, <3>2
  <2>8. QED
    BY <2>1, <2>7
<1>5. n \in A
  <2> HIDE DEF A
  <2>1. \A i \in 0 .. n : i \in A
    BY <1>3, <1>4, Counting
  <2>2. n \in 0 .. n
    OBVIOUS
  <2>3. QED
    BY <2>1, <2>2
<1>6. n \in 0 .. n
  OBVIOUS
<1>7. QED
  BY <1>1, <1>2, <1>5, <1>6

NotMore(written, predicted) == written \in Int /\ predicted \in Int /\ written <= predicted

(* Nothing is exceeded. *)
LEMMA SumFits ==
  ASSUME NEW s \in Seq(Int), NEW t \in Seq(Int), NEW n \in Nat, Len(s) = n, Len(t) = n,
         \A i \in 1 .. n : s[i] <= t[i]
  PROVE  NotMore(SumOf(s), SumOf(t))
<1> DEFINE e == [i \in 0 .. n |-> 0]
<1>1. Exceeds(s, t, e, n)
  <2>1. \A i \in 1 .. n : i \in 0 .. n /\ i - 1 \in 0 .. n /\ s[i] \in Int /\ t[i] \in Int
    OBVIOUS
  <2>2. QED
    BY <2>1 DEF Exceeds
<1>2. e[n] = 0 /\ 0 \in Nat
  OBVIOUS
<1> HIDE DEF e
<1>3. SumOf(s) \in Int /\ SumOf(t) \in Int /\ SumOf(s) <= SumOf(t) + e[n]
  BY <1>1, SumAtMost
<1>4. QED
  BY <1>2, <1>3 DEF NotMore


(* Sums of at most three bytes. *)
LEMMA SumOfSmall ==
  ASSUME NEW s \in Seq(Int), NEW n \in Nat, Len(s) = n, \A i \in 1 .. n : s[i] \in 0 .. 3
  PROVE  SumOf(s) \in Nat /\ SumOf(s) <= 3 * n
<1>1. PICK f \in [0 .. n -> Int] : Adds(f, s, n) /\ SumOf(s) = f[n]
  BY SumAdds
<1> DEFINE A == {i \in 0 .. n : f[i] \in 0 .. 3 * i}
<1>2. 0 \in A
  BY <1>1 DEF Adds
<1>3. ASSUME NEW i \in 0 .. n - 1, i \in A PROVE i + 1 \in A
  <2>1. i + 1 \in 1 .. n /\ i + 1 \in 0 .. n /\ i \in 0 .. n /\ (i + 1) - 1 = i
    OBVIOUS
  <2>2. f[i + 1] = f[i] + s[i + 1]
    BY <1>1, <2>1 DEF Adds
  <2>3. s[i + 1] \in 0 .. 3 /\ f[i] \in 0 .. 3 * i
    BY <1>3, <2>1
  <2>4. \A a, b \in Int : a \in 0 .. 3 * i /\ b \in 0 .. 3 => a + b \in 0 .. 3 * (i + 1)
    BY <2>1
  <2>5. f[i + 1] \in 0 .. 3 * (i + 1)
    <3>1. f[i] \in Int /\ s[i + 1] \in Int
      BY <2>3
    <3>2. f[i] + s[i + 1] \in 0 .. 3 * (i + 1)
      BY ONLY <2>3, <2>4, <3>1
    <3>3. QED
      BY ONLY <2>2, <3>2
  <2>6. QED
    BY <2>1, <2>5
<1>4. n \in A
  <2> HIDE DEF A
  <2>1. \A i \in 0 .. n : i \in A
    BY <1>2, <1>3, Counting
  <2>2. n \in 0 .. n
    OBVIOUS
  <2>3. QED
    BY <2>1, <2>2
<1>5. QED
  BY <1>1, <1>4

-----------------------------------------------------------------------------
(* Each item of the registrations against what is predicted for it. *)

(* A submessage takes at most 3 bytes more, and 2 if it is short.          *)
LEMMA WithTagRange ==
  \A n \in Nat : WithTag(n) \in Nat /\ WithTag(n) <= n + 3 /\ (n <= 127 => WithTag(n) = n + 2)
<1>1. QED
  BY DEF WithTag, Shift, Tag

LEMMA ChannelFits ==
  ASSUME NEW c \in ChannelSet, NEW h \in Nat, h < 16384
  PROVE  NotMore(WithTag(DataChannel(c, h)), ChannelPredicted(c))
<1>1. c.name \in Names
  BY DEF ChannelSet
<1>2. PICK n \in Nat : n = c.name
  BY <1>1, NameRange
<1>3. StrLen(n) \in Nat /\ StrLen(n) >= n /\ Name(n) \in Nat /\ Name(n) <= n + 4
  BY <1>1, <1>2, NameRange
<1>4. Varint(h) \in 1 .. 2
  BY VarintRange
<1>5. DataChannel(c, h) \in Nat /\ DataChannel(c, h) <= n + 19
  BY <1>2, <1>3, <1>4 DEF DataChannel, Tag, Fixed32
<1>6. WithTag(DataChannel(c, h)) \in Nat /\ WithTag(DataChannel(c, h)) <= DataChannel(c, h) + 3
  BY <1>5, WithTagRange
<1>7. ChannelPredicted(c) = 24 + StrLen(n)
  BY <1>2, <1>3 DEF ChannelPredicted
<1>8. QED
  BY <1>3, <1>5, <1>6, <1>7 DEF NotMore

LEMMA LabelFits ==
  ASSUME NEW l \in LabelSet, l.handle < 16384, l.name < 16384
  PROVE  NotMore(WithTag(DataLabel(l)), LabelPredicted(l))
<1>1. l.name \in Names /\ l.handle \in Nat
  BY DEF LabelSet
<1>2. PICK n \in Nat : n = l.name
  BY <1>1, NameRange
<1>3. StrLen(n) \in Nat /\ StrLen(n) >= n /\ Name(n) \in Nat /\ Name(n) <= n + 3
  BY <1>1, <1>2, NameRange
<1>4. Varint(l.handle) \in 1 .. 2 /\ IntSize(l.value) \in 1 .. 10
  BY <1>1, VarintRange, IntSizeRange
<1>5. DataLabel(l) \in Nat /\ DataLabel(l) <= n + 17
  BY <1>2, <1>3, <1>4 DEF DataLabel, Tag
<1>6. WithTag(DataLabel(l)) \in Nat /\ WithTag(DataLabel(l)) <= DataLabel(l) + 3
  BY <1>5, WithTagRange
<1>7. LabelPredicted(l) = 20 + StrLen(n)
  BY <1>2, <1>3 DEF LabelPredicted
<1>8. QED
  BY <1>3, <1>5, <1>6, <1>7 DEF NotMore

LEMMA ControlFits ==
  ASSUME NEW c \in Controls, ~ Negative(c)
  PROVE  NotMore(WithTag(DataControl(c)), ControlPredicted(c))
<1>1. c.name \in Names
  BY ControlsTyped DEF ControlSet
<1>2. PICK n \in Nat : n = c.name
  BY <1>1, NameRange
<1>3. StrLen(n) \in Nat /\ StrLen(n) >= n /\ Name(n) \in Nat /\ Name(n) <= n + 4
  BY <1>1, <1>2, NameRange
<1> DEFINE extra == IF c.command = NoCommand THEN 0 ELSE StrLen(c.command)
<1>4. ControlPredicted(c) = 34 + StrLen(n) + extra
  BY <1>2, <1>3 DEF ControlPredicted
<1>5. \A size \in Nat : size <= n + extra + 31 /\ extra \in Nat => 
        NotMore(WithTag(size), 34 + StrLen(n) + extra)
  <2>1. SUFFICES ASSUME NEW size \in Nat, NEW x \in Nat, size <= n + x + 31
                 PROVE  NotMore(WithTag(size), 34 + StrLen(n) + x)
    BY Zenon
  <2>2. WithTag(size) \in Nat /\ WithTag(size) <= size + 3
    BY WithTagRange
  <2>3. QED
    BY <1>3, <2>1, <2>2 DEF NotMore
<1>6. CASE \E m \in Names, k \in Names \cup {NoCommand} : c = Control("button", m, k, << >>)
  <2>1. c.type = "button" /\ c.command \in Names \cup {NoCommand}
    BY <1>6 DEF Control
  <2>2. extra \in Nat /\ Command(c.command) \in Nat /\ Command(c.command) <= extra + 4
    <3>1. CASE c.command = NoCommand
      BY <3>1 DEF Command, Tag
    <3>2. CASE c.command # NoCommand
      <4>1. c.command \in Names /\ Command(c.command) = Name(c.command)
        BY <2>1, <3>2 DEF Command
      <4>2. QED
        BY <3>2, <4>1, NameRange
    <3>3. QED
      BY <3>1, <3>2
  <2>3. DataControl(c) = Name(n) + 2 + Command(c.command)
    BY <1>2, <1>3, <2>1, <2>2 DEF DataControl, Tag
  <2> HIDE DEF extra
  <2>4. DataControl(c) \in Nat /\ DataControl(c) <= n + extra + 31
    BY <1>3, <2>2, <2>3
  <2>5. QED
    BY <1>4, <1>5, <2>2, <2>4
<1>7. CASE \E t \in {"float", "int"}, m \in Names, s \in Sliders : c = Control(t, m, NoCommand, s)
  <2>1. c.type \in {"float", "int"} /\ c.command = NoCommand /\ c.numbers \in Seq(Int) /\ Len(c.numbers) = 4
    BY <1>7, PacketSizeAssumption DEF Control
  <2>2. extra = 0
    BY <2>1
  <2>3. UnsignedSize(c.numbers[3]) \in 1 .. 5
    BY IntSizeRange
  <2>4. DataControl(c) \in Nat /\ DataControl(c) <= n + 31
    <3>1. CASE c.type = "float"
      BY <3>1, <1>2, <1>3, <2>3 DEF DataControl, Tag, Fixed32
    <3>2. CASE c.type = "int"
      <4>1. \A i \in 1 .. 4 : IntSize(c.numbers[i]) \in 1 .. 5
        <5>1. \A i \in 1 .. 4 : c.numbers[i] \in Nat
          BY <2>1, <3>2 DEF Negative
        <5>2. QED
          BY <5>1, IntSizeRange
      <4>2. IntSize(c.numbers[1]) \in 1 .. 5 /\ IntSize(c.numbers[2]) \in 1 .. 5 /\ IntSize(c.numbers[4]) \in 1 .. 5
        BY <4>1
      <4>3. QED
        BY <3>2, <1>2, <1>3, <2>3, <4>2 DEF DataControl, Tag
    <3>3. QED
      BY <2>1, <3>1, <3>2
  <2>5. QED
    BY <1>4, <1>5, <2>2, <2>4
<1>8. QED
  BY <1>6, <1>7 DEF Controls

(* The tag and the length of a group are not predicted.  Its name is given *)
(* two or three bytes too many, and each of its channels one.              *)
LEMMA GroupFits ==
  ASSUME NEW g \in GroupSet, g.name < 16384, \A i \in DOMAIN g.channels : g.channels[i] < 16384
  PROVE  /\ WithTag(DataGroup(g)) \in Int /\ GroupPredicted(g) \in Int
         /\ WithTag(DataGroup(g)) <= GroupPredicted(g) + (IF Bare(g) THEN 1 ELSE 0)
<1>1. g.name \in Names /\ g.channels \in Seq(Nat)
  BY DEF GroupSet
<1>2. PICK n \in Nat : n = g.name
  BY <1>1, NameRange
<1>3. PICK c \in Nat : c = Len(g.channels)
  BY <1>1
<1>4. /\ StrLen(n) \in Nat /\ StrLen(n) >= n /\ Name(n) \in Nat /\ Name(n) <= n + 3
      /\ n <= 127 => Name(n) <= n + 2
  <2>1. n < 128 => Varint(n) = 1
    BY DEF Varint
  <2>2. QED
    BY <1>1, <1>2, <2>1, NameRange DEF Name, Tag
<1> DEFINE members == [i \in DOMAIN g.channels |-> Tag + Varint(g.channels[i])]
<1>5. members \in Seq(Int) /\ Len(members) = c /\ \A i \in 1 .. c : members[i] \in 0 .. 3
  <2>1. DOMAIN g.channels = 1 .. c /\ \A i \in 1 .. c : g.channels[i] \in Nat /\ g.channels[i] < 16384
    BY <1>1, <1>3
  <2>2. \A i \in 1 .. c : Tag + Varint(g.channels[i]) \in 0 .. 3
    BY <2>1, VarintRange DEF Tag
  <2>3. QED
    BY <2>1, <2>2
<1> HIDE DEF members
<1>6. SumOf(members) \in Nat /\ SumOf(members) <= 3 * c
  BY <1>5, SumOfSmall
<1>7. DataGroup(g) = Name(n) + SumOf(members)
  BY <1>2 DEF DataGroup, members
<1>8. GroupPredicted(g) = 5 + StrLen(n) + 4 * c
  BY <1>2, <1>3 DEF GroupPredicted
<1>9. DataGroup(g) \in Nat
  BY <1>4, <1>6, <1>7
<1>10. /\ WithTag(DataGroup(g)) \in Nat /\ WithTag(DataGroup(g)) <= DataGroup(g) + 3
  BY <1>9, WithTagRange
<1>11. CASE c > 0 \/ n <= 127
  <2>1. WithTag(DataGroup(g)) <= GroupPredicted(g)
    BY <1>4, <1>6, <1>7, <1>8, <1>10, <1>11
  <2>2. QED
    BY <1>4, <1>8, <1>10, <2>1
<1>12. CASE c = 0 /\ n > 127
  <2>1. Bare(g)
    <3>1. \A s \in Seq(Nat) : Len(s) = 0 => s = << >>
      BY EmptySeq
    <3>2. PICK ms : ms = g.channels
      OBVIOUS
    <3>3. ms \in Seq(Nat) /\ Len(ms) = 0
      BY ONLY <1>1, <1>3, <1>12, <3>2
    <3>4. ms = << >>
      BY ONLY <3>1, <3>3
    <3>5. QED
      BY <1>2, <1>12, <3>2, <3>4 DEF Bare
  <2>2. QED
    BY <1>4, <1>6, <1>7, <1>8, <1>10, <1>12, <2>1
<1>13. QED
  BY <1>11, <1>12

-----------------------------------------------------------------------------
(* What is registered refers to what is registered. *)

MembersKnown(gs, n) == \A i \in DOMAIN gs : \A j \in DOMAIN gs[i].channels : gs[i].channels[j] < n
LabelsKnown(ls, n)  == \A i \in DOMAIN ls : ls[i].handle < n

RegistryInv ==
  /\ TypeOK
  /\ Items <= MaxItems
  /\ MembersKnown(groups, Len(channels))
  /\ LabelsKnown(labels, Len(channels))
  /\ controls \in Seq(Controls)

LEMMA InitRegistry == Init => RegistryInv
<1> SUFFICES ASSUME Init PROVE RegistryInv
  OBVIOUS
<1>1. Items <= MaxItems
  BY ConstantsTyped DEF Init, Items
<1>2. QED
  BY <1>1, InitTypeOK DEF Init, RegistryInv, MembersKnown, LabelsKnown

(* One more at the end. *)
LEMMA Appended ==
  ASSUME NEW S, NEW s \in Seq(S), NEW x
  PROVE  /\ Len(s) \in Nat /\ Len(Append(s, x)) = Len(s) + 1
         /\ \A i \in DOMAIN Append(s, x) :
              \/ i \in DOMAIN s /\ Append(s, x)[i] = s[i]
              \/ Append(s, x)[i] = x
<1>1. QED
  OBVIOUS

LEMMA NextRegistry == RegistryInv /\ [Next]_vars => RegistryInv'
<1> SUFFICES ASSUME RegistryInv, [Next]_vars PROVE RegistryInv'
  OBVIOUS
<1>0. /\ TypeOK /\ TypeOK'
      /\ channels \in Seq(ChannelSet) /\ groups \in Seq(GroupSet) /\ labels \in Seq(LabelSet)
      /\ controls \in Seq(Controls) /\ controls \in Seq(ControlSet)
  BY NextTypeOK DEF RegistryInv, TypeOK
<1>00. /\ Len(channels) \in Nat /\ Len(groups) \in Nat /\ Len(labels) \in Nat /\ Len(controls) \in Nat
       /\ Items \in Nat /\ Items <= MaxItems /\ MaxItems \in Nat
  BY <1>0, ConstantsTyped DEF RegistryInv, Items
<1>1. CASE Advance \/ UNCHANGED vars
  BY <1>0, <1>1 DEF Advance, vars, RegistryInv, Items, MembersKnown, LabelsKnown
<1>2. ASSUME NEW n \in Names, NEW r \in BOOLEAN, AddChannel(n, r) PROVE RegistryInv'
  <2>1. Len(channels') = Len(channels) + 1
    BY <1>0, <1>2, Appended DEF AddChannel
  <2>2. Items' <= MaxItems
    BY <1>00, <1>2, <2>1 DEF AddChannel, Items
  <2>3. MembersKnown(groups', Len(channels'))
    <3>1. ASSUME NEW i \in DOMAIN groups, NEW j \in DOMAIN groups[i].channels
          PROVE  groups[i].channels[j] < Len(channels) + 1
      <4>0. groups[i] \in GroupSet
        BY <1>0, ElementTyped
      <4>1. groups[i].channels \in Seq(Nat)
        BY <4>0 DEF GroupSet
      <4>2. groups[i].channels[j] \in Nat /\ groups[i].channels[j] < Len(channels)
        BY <4>1, ElementTyped DEF RegistryInv, MembersKnown
      <4>3. QED
        BY <1>00, <4>2
    <3>2. groups' = groups
      BY <1>2 DEF AddChannel
    <3>3. QED
      BY <2>1, <3>1, <3>2 DEF MembersKnown
  <2>4. LabelsKnown(labels', Len(channels'))
    <3>1. ASSUME NEW i \in DOMAIN labels PROVE labels[i].handle < Len(channels) + 1
      <4>0. labels[i] \in LabelSet
        BY <1>0, ElementTyped
      <4>1. labels[i].handle \in Nat /\ labels[i].handle < Len(channels)
        BY <4>0 DEF RegistryInv, LabelsKnown, LabelSet
      <4>2. QED
        BY <1>00, <4>1
    <3>2. labels' = labels
      BY <1>2 DEF AddChannel
    <3>3. QED
      BY <2>1, <3>1, <3>2 DEF LabelsKnown
  <2>5. QED
    BY <1>0, <1>2, <2>2, <2>3, <2>4 DEF AddChannel, RegistryInv
<1>3. ASSUME NEW n \in Names, AddGroup(n) PROVE RegistryInv'
  <2> DEFINE group == Group(n, << >>)
  <2>1. /\ Len(groups') = Len(groups) + 1
        /\ \A i \in DOMAIN groups' : (i \in DOMAIN groups /\ groups'[i] = groups[i]) \/ groups'[i] = group
    BY <1>0, <1>3, Appended DEF AddGroup
  <2>2. Items' <= MaxItems
    BY <1>00, <1>3, <2>1 DEF AddGroup, Items
  <2>3. MembersKnown(groups', Len(channels))
    <3>1. group.channels = << >>
      BY DEF Group
    <3> HIDE DEF group
    <3>2. QED
      BY <2>1, <3>1 DEF RegistryInv, MembersKnown
  <2>4. QED
    BY <1>0, <1>3, <2>2, <2>3 DEF AddGroup, RegistryInv
<1>4. ASSUME NEW n \in Names, NEW h \in 0 .. MaxItems, NEW v \in Numbers, AddLabel(h, v, n) PROVE RegistryInv'
  <2> DEFINE label == Label(h, v, n)
  <2>1. /\ Len(labels') = Len(labels) + 1
        /\ \A i \in DOMAIN labels' : (i \in DOMAIN labels /\ labels'[i] = labels[i]) \/ labels'[i] = label
    BY <1>0, <1>4, Appended DEF AddLabel
  <2>2. Items' <= MaxItems
    BY <1>00, <1>4, <2>1 DEF AddLabel, Items
  <2>3. LabelsKnown(labels', Len(channels))
    <3>1. label.handle < Len(channels)
      BY <1>4 DEF AddLabel, Label
    <3> HIDE DEF label
    <3>2. QED
      BY <2>1, <3>1 DEF RegistryInv, LabelsKnown
  <2>4. QED
    BY <1>0, <1>4, <2>2, <2>3 DEF AddLabel, RegistryInv
<1>5. ASSUME NEW g \in DOMAIN groups, NEW h \in 0 .. MaxItems, AddMember(g, h) PROVE RegistryInv'
  <2>0. groups[g] \in GroupSet
    BY <1>0, ElementTyped
  <2>1. groups[g].channels \in Seq(Nat)
    BY <2>0 DEF GroupSet
  <2> DEFINE group == [groups[g] EXCEPT !.channels = Append(@, h)]
  <2>2. groups' = [groups EXCEPT ![g] = group]
    BY <1>5 DEF AddMember
  <2>3. group.channels = Append(groups[g].channels, h)
    BY <2>0 DEF GroupSet
  <2>4. \A j \in DOMAIN group.channels : group.channels[j] < Len(channels)
    <3>1. \A j \in DOMAIN groups[g].channels : groups[g].channels[j] < Len(channels)
      BY DEF RegistryInv, MembersKnown
    <3>2. h < Len(channels)
      BY <1>5 DEF AddMember
    <3> HIDE DEF group
    <3>3. QED
      BY <2>1, <2>3, <3>1, <3>2, Appended
  <2> HIDE DEF group
  <2>5. DOMAIN groups' = DOMAIN groups /\ \A i \in DOMAIN groups : groups'[i] = IF i = g THEN group ELSE groups[i]
    BY <1>0, <2>2
  <2>6. MembersKnown(groups', Len(channels))
    BY <2>4, <2>5 DEF RegistryInv, MembersKnown
  <2>7. Len(groups') = Len(groups)
    BY <1>0, <2>2
  <2>8. QED
    BY <1>0, <1>5, <2>6, <2>7 DEF AddMember, RegistryInv, Items
<1>6. ASSUME NEW c \in Controls, AddControl(c) PROVE RegistryInv'
  <2>1. Len(controls') = Len(controls) + 1 /\ controls' \in Seq(Controls)
    BY <1>0, <1>6, Appended, AppendTyped DEF AddControl
  <2>2. Items' <= MaxItems
    BY <1>00, <1>6, <2>1 DEF AddControl, Items
  <2>3. QED
    BY <1>0, <1>6, <2>1, <2>2 DEF AddControl, RegistryInv
<1>7. QED
  BY <1>1, <1>2, <1>3, <1>4, <1>5, <1>6 DEF Next

-----------------------------------------------------------------------------
(* The registrations together. *)

(* How many of the first n groups are bare. *)
BareOnes(n) == {i \in 1 .. n : Bare(groups[i])}
Bares(n) == Cardinality(BareOnes(n))

LEMMA BaresStep ==
  /\ Bares(0) = 0
  /\ \A i \in Nat : Bares(i) \in Nat
  /\ \A i \in Nat \ {0} : Bares(i) = Bares(i - 1) + (IF Bare(groups[i]) THEN 1 ELSE 0)
<1>1. Bares(0) = 0
  <2>1. BareOnes(0) = {}
    BY DEF BareOnes
  <2>2. QED
    BY <2>1, FS_EmptySet DEF Bares
<1>2. ASSUME NEW i \in Nat PROVE IsFiniteSet(BareOnes(i)) /\ Bares(i) \in Nat
  <2>1. IsFiniteSet(1 .. i) /\ BareOnes(i) \subseteq 1 .. i
    BY FS_Interval DEF BareOnes
  <2>2. IsFiniteSet(BareOnes(i))
    BY <2>1, FS_Subset
  <2>3. QED
    BY <2>2, FS_CardinalityType DEF Bares
<1>3. ASSUME NEW i \in Nat \ {0} PROVE Bares(i) = Bares(i - 1) + (IF Bare(groups[i]) THEN 1 ELSE 0)
  <2>1. i - 1 \in Nat
    OBVIOUS
  <2>2. CASE Bare(groups[i])
    <3>1. BareOnes(i) = BareOnes(i - 1) \cup {i} /\ i \notin BareOnes(i - 1)
      BY <2>2 DEF BareOnes
    <3>2. Cardinality(BareOnes(i - 1) \cup {i}) = Cardinality(BareOnes(i - 1)) + 1
      BY <1>2, <2>1, <3>1, FS_AddElement
    <3>3. QED
      BY <2>2, <3>1, <3>2 DEF Bares
  <2>3. CASE ~ Bare(groups[i])
    <3>1. BareOnes(i) = BareOnes(i - 1)
      BY <2>3 DEF BareOnes
    <3>2. Bares(i - 1) \in Nat
      BY <1>2, <2>1
    <3>3. QED
      BY <2>3, <3>1, <3>2 DEF Bares
  <2>4. QED
    BY <2>2, <2>3
<1>4. QED
  BY <1>1, <1>2, <1>3

(* Each kind of item has three bytes to itself: two bare groups leave one. *)
LEMMA RegistryFits ==
  ASSUME \A n \in Names : n < 16384, MaxItems <= 16384, RegistryInv
  PROVE  RegistrationsSerialize
<1>0. /\ TypeOK
      /\ channels \in Seq(ChannelSet) /\ groups \in Seq(GroupSet) /\ labels \in Seq(LabelSet)
      /\ controls \in Seq(Controls)
  BY DEF RegistryInv, TypeOK
<1>1. PICK nc, ng, nl, nk \in Nat : nc = Len(channels) /\ ng = Len(groups) /\ nl = Len(labels) /\ nk = Len(controls)
  BY <1>0
<1>2. /\ DOMAIN channels = 1 .. nc /\ DOMAIN groups = 1 .. ng
      /\ DOMAIN labels = 1 .. nl /\ DOMAIN controls = 1 .. nk
      /\ nc <= 16384
  BY <1>0, <1>1, ConstantsTyped DEF RegistryInv, Items
<1>3. SUFFICES ASSUME Items # 0, \A i \in DOMAIN controls : ~ Negative(controls[i]), ~ (Bares(ng) > 2)
               PROVE  Serializes(Registrations)
  <2>1. {i \in DOMAIN groups : Bare(groups[i])} = BareOnes(ng)
    BY <1>2 DEF BareOnes
  <2>2. \A A : A = BareOnes(ng) => Cardinality(A) = Bares(ng)
    BY ONLY Zenon DEF Bares
  <2>3. Cardinality({i \in DOMAIN groups : Bare(groups[i])}) = Bares(ng)
    BY ONLY <2>1, <2>2, Zenon
  <2>4. QED
    BY <2>3 DEF RegistrationsSerialize
<1> DEFINE cw == [i \in DOMAIN channels |-> WithTag(DataChannel(channels[i], i - 1))]
           cp == [i \in DOMAIN channels |-> ChannelPredicted(channels[i])]
           gw == [i \in DOMAIN groups |-> WithTag(DataGroup(groups[i]))]
           gp == [i \in DOMAIN groups |-> GroupPredicted(groups[i])]
           lw == [i \in DOMAIN labels |-> WithTag(DataLabel(labels[i]))]
           lp == [i \in DOMAIN labels |-> LabelPredicted(labels[i])]
           kw == [i \in DOMAIN controls |-> WithTag(DataControl(controls[i]))]
           kp == [i \in DOMAIN controls |-> ControlPredicted(controls[i])]
<1>4. NotMore(SumOf(cw), SumOf(cp))
  <2>1. ASSUME NEW i \in 1 .. nc PROVE NotMore(WithTag(DataChannel(channels[i], i - 1)), ChannelPredicted(channels[i]))
    <3>1. channels[i] \in ChannelSet /\ i - 1 \in Nat /\ i - 1 < 16384
      BY <1>0, <1>2
    <3>2. QED
      BY ONLY <3>1, ChannelFits
  <2>2. /\ cw \in Seq(Int) /\ cp \in Seq(Int) /\ Len(cw) = nc /\ Len(cp) = nc
        /\ \A i \in 1 .. nc : cw[i] <= cp[i]
    BY <1>2, <2>1 DEF NotMore
  <2> HIDE DEF cw, cp
  <2>3. QED
    BY ONLY <2>2, SumFits
<1>5. NotMore(SumOf(lw), SumOf(lp))
  <2>1. ASSUME NEW i \in 1 .. nl PROVE NotMore(WithTag(DataLabel(labels[i])), LabelPredicted(labels[i]))
    <3>1. labels[i] \in LabelSet /\ labels[i].handle < nc
      BY <1>0, <1>1, <1>2 DEF RegistryInv, LabelsKnown
    <3>2. labels[i].handle \in Nat /\ labels[i].name < 16384
      BY <3>1 DEF LabelSet
    <3>3. labels[i].handle < 16384
      BY <1>2, <3>1, <3>2
    <3>4. QED
      BY <3>1, <3>2, <3>3, LabelFits
  <2>2. /\ lw \in Seq(Int) /\ lp \in Seq(Int) /\ Len(lw) = nl /\ Len(lp) = nl
        /\ \A i \in 1 .. nl : lw[i] <= lp[i]
    BY <1>2, <2>1 DEF NotMore
  <2> HIDE DEF lw, lp
  <2>3. QED
    BY ONLY <2>2, SumFits
<1>6. NotMore(SumOf(kw), SumOf(kp))
  <2>1. ASSUME NEW i \in 1 .. nk PROVE NotMore(WithTag(DataControl(controls[i])), ControlPredicted(controls[i]))
    <3>1. i \in DOMAIN controls
      BY ONLY <1>2
    <3>2. controls[i] \in Controls
      BY ONLY <1>0, <3>1, ElementTyped
    <3>3. ~ Negative(controls[i])
      BY ONLY <1>3, <3>1
    <3>4. QED
      BY ONLY <3>2, <3>3, ControlFits
  <2>2. /\ kw \in Seq(Int) /\ kp \in Seq(Int) /\ Len(kw) = nk /\ Len(kp) = nk
        /\ \A i \in 1 .. nk : kw[i] <= kp[i]
    BY <1>2, <2>1 DEF NotMore
  <2> HIDE DEF kw, kp
  <2>3. QED
    BY ONLY <2>2, SumFits
<1>7. SumOf(gw) \in Int /\ SumOf(gp) \in Int /\ SumOf(gw) <= SumOf(gp) + Bares(ng)
  <2> DEFINE e == [i \in 0 .. ng |-> Bares(i)]
  <2>1. ASSUME NEW i \in 1 .. ng
        PROVE  /\ WithTag(DataGroup(groups[i])) \in Int /\ GroupPredicted(groups[i]) \in Int
               /\ WithTag(DataGroup(groups[i])) <= GroupPredicted(groups[i]) + (IF Bare(groups[i]) THEN 1 ELSE 0)
    <3>1. groups[i] \in GroupSet
      BY <1>0, <1>2
    <3>2. groups[i].name < 16384 /\ groups[i].channels \in Seq(Nat)
      BY <3>1 DEF GroupSet
    <3>3. ASSUME NEW j \in DOMAIN groups[i].channels PROVE groups[i].channels[j] < 16384
      <4>1. groups[i].channels[j] \in Nat
        BY <3>2, ElementTyped
      <4>2. groups[i].channels[j] < nc
        BY <1>1, <1>2 DEF RegistryInv, MembersKnown
      <4>3. QED
        BY <1>2, <4>1, <4>2
    <3>4. QED
      BY <3>1, <3>2, <3>3, GroupFits
  <2>2. gw \in Seq(Int) /\ gp \in Seq(Int) /\ Len(gw) = ng /\ Len(gp) = ng
    BY <1>2, <2>1
  <2>3. Exceeds(gw, gp, e, ng)
    <3>1. e \in [0 .. ng -> Nat] /\ e[0] = 0
      BY BaresStep
    <3>2. ASSUME NEW i \in 1 .. ng PROVE gw[i] <= gp[i] + (e[i] - e[i - 1])
      <4>1. i \in Nat \ {0} /\ i \in 0 .. ng /\ i - 1 \in 0 .. ng
        OBVIOUS
      <4>2. e[i] = e[i - 1] + (IF Bare(groups[i]) THEN 1 ELSE 0) /\ e[i - 1] \in Nat
        BY <4>1, BaresStep
      <4>3. gw[i] = WithTag(DataGroup(groups[i])) /\ gp[i] = GroupPredicted(groups[i])
        BY <1>2
      <4> HIDE DEF e, gw, gp
      <4>4. e[i] - e[i - 1] = IF Bare(groups[i]) THEN 1 ELSE 0
        BY <4>2
      <4>5. QED
        BY <2>1, <4>3, <4>4
    <3> HIDE DEF e, gw, gp
    <3>3. QED
      BY <3>1, <3>2 DEF Exceeds
  <2>4. e[ng] = Bares(ng)
    OBVIOUS
  <2> HIDE DEF e, gw, gp
  <2>5. SumOf(gw) \in Int /\ SumOf(gp) \in Int /\ SumOf(gw) <= SumOf(gp) + e[ng]
    BY <2>2, <2>3, SumAtMost
  <2>6. QED
    BY <2>4, <2>5
<1> HIDE DEF cw, cp, gw, gp, lw, lp, kw, kp
<1>8. Bares(ng) \in 0 .. 2 /\ (ng = 0 => Bares(ng) = 0)
  BY <1>3, BaresStep
<1> DEFINE rc == Repeated(channels)  rg == Repeated(groups)  rl == Repeated(labels)  rk == Repeated(controls)
<1>9. /\ rc = (IF nc = 0 THEN 0 ELSE 3) /\ rg = (IF ng = 0 THEN 0 ELSE 3)
      /\ rl = (IF nl = 0 THEN 0 ELSE 3) /\ rk = (IF nk = 0 THEN 0 ELSE 3)
  BY <1>0, <1>1, EmptySeq DEF Repeated
<1>10. nc # 0 \/ ng # 0 \/ nl # 0 \/ nk # 0
  BY <1>1, <1>3 DEF Items
<1>11. Registrations = Packet(SumOf(cw) + SumOf(gw) + SumOf(lw) + SumOf(kw),
                              SumOf(cp) + rc + SumOf(gp) + rg + SumOf(lp) + rl + SumOf(kp) + rk)
  BY DEF Registrations, cw, cp, gw, gp, lw, lp, kw, kp
<1> HIDE DEF rc, rg, rl, rk
<1>12. /\ rc \in {0, 3} /\ rg \in {0, 3} /\ rl \in {0, 3} /\ rk \in {0, 3}
       /\ (rc = 3 \/ rg = 3 \/ rl = 3 \/ rk = 3) /\ (Bares(ng) = 0 \/ rg = 3)
  BY <1>8, <1>9, <1>10
<1>13. SumOf(cw) + SumOf(gw) + SumOf(lw) + SumOf(kw) + 2
         < SumOf(cp) + rc + SumOf(gp) + rg + SumOf(lp) + rl + SumOf(kp) + rk + 2
  BY <1>4, <1>5, <1>6, <1>7, <1>8, <1>12 DEF NotMore
<1>14. QED
  BY <1>4, <1>5, <1>6, <1>7, <1>11, <1>12, <1>13 DEF Serializes, Packet, NotMore, Tag

-----------------------------------------------------------------------------
(* Whatever a game samples, but for negative ints, and whatever value it   *)
(* gives a slider, the buffer made for it is large enough: nothing a       *)
(* client should hear of is lost.  For every name, handle and time.        *)
THEOREM ValuesSerializeHolds == Spec => []ValuesSerialize
<1>1. QED
  BY TypeCorrect, TypeOKValuesSerialize, PTL

(* The registrations fit the buffer made for them, however many there are  *)
(* of each kind: every item takes at most what is predicted for it, but    *)
(* for a bare group, and the room of a kind makes up for two of those.     *)
(* For names of less than 16 KiB and channels that two bytes can number.   *)
THEOREM RegistrationsSerializeHolds ==
  ASSUME \A n \in Names : n < 16384, MaxItems <= 16384
  PROVE  Spec => []RegistrationsSerialize
<1>1. RegistryInv => RegistrationsSerialize
  BY RegistryFits
<1>2. Spec => []RegistryInv
  BY InitRegistry, NextRegistry, PTL DEF Spec
<1>3. QED
  BY <1>1, <1>2, PTL

(* The room made for the length of a submessage is what the length takes,  *)
(* for names of at most 8187 bytes.  A button with a longer name and       *)
(* command has a length of three bytes and gets room for two.              *)
THEOREM LengthsMatchHolds ==
  ASSUME \A n \in Names : n <= 8187
  PROVE  Spec => []LengthsMatch
<1>1. ASSUME TypeOK PROVE LengthsMatch
  <2>1. ASSUME NEW d \in Samples PROVE Shift(Data(d)) = Varint(Data(d))
    <3>1. Data(d) \in 0 .. 100
      BY DataRange
    <3>2. QED
      BY <3>1, VarintRange
  <2>2. ASSUME NEW i \in DOMAIN channels
        PROVE  LET size == DataChannel(channels[i], i - 1) IN Shift(size) = Varint(size)
    <3>1. channels[i].name \in Names /\ i \in Nat
      <4>1. channels[i] \in ChannelSet /\ i \in Nat
        BY <1>1, ElementTyped DEF TypeOK
      <4>2. QED
        BY <4>1 DEF ChannelSet
    <3>2. Name(channels[i].name) \in Nat /\ Name(channels[i].name) <= 8190 /\ Varint(i - 1) \in 1 .. 5
      BY <3>1, NameRange, VarintRange
    <3>3. DataChannel(channels[i], i - 1) \in Int /\ DataChannel(channels[i], i - 1) <= 8208
      BY <3>2 DEF DataChannel, Tag, Fixed32
    <3>4. QED
      BY <3>3, VarintRange
  <2>3. ASSUME NEW i \in DOMAIN controls
        PROVE  LET size == DataControl(controls[i]) IN Shift(size) = Varint(size)
    <3> DEFINE c == controls[i]
    <3>1. /\ c.type \in {"button", "float", "int"} /\ c.name \in Names
          /\ c.command \in Names \cup {NoCommand}
      <4>1. c \in ControlSet
        BY <1>1, ElementTyped DEF TypeOK
      <4>2. QED
        BY <4>1 DEF ControlSet
    <3>2. Name(c.name) \in Nat /\ Name(c.name) <= 8190
      BY <3>1, NameRange
    <3>3. Command(c.command) \in Nat /\ Command(c.command) <= 8190
      <4>1. CASE c.command = NoCommand
        BY <4>1 DEF Command, Tag
      <4>2. CASE c.command # NoCommand
        BY <4>2, <3>1, NameRange DEF Command
      <4>3. QED
        BY <4>1, <4>2
    <3>4. /\ IntSize(c.numbers[1]) \in 1 .. 10 /\ IntSize(c.numbers[2]) \in 1 .. 10
          /\ UnsignedSize(c.numbers[3]) \in 1 .. 5 /\ IntSize(c.numbers[4]) \in 1 .. 10
      BY IntSizeRange
    <3>5. DataControl(c) \in Int /\ DataControl(c) < 16384
      <4> HIDE DEF c
      <4>1. CASE c.type = "button"
        BY <4>1, <3>2, <3>3 DEF DataControl, Tag
      <4>2. CASE c.type = "float"
        BY <4>2, <3>2, <3>4 DEF DataControl, Tag, Fixed32
      <4>3. CASE c.type = "int"
        BY <4>3, <3>2, <3>4 DEF DataControl, Tag
      <4>4. QED
        BY <3>1, <4>1, <4>2, <4>3
    <3>6. QED
      BY <3>5, VarintRange
  <2>4. QED
    BY <2>1, <2>2, <2>3 DEF LengthsMatch
<1>2. QED
  BY TypeCorrect, <1>1, PTL

-----------------------------------------------------------------------------
(* The bytes Pump has not parsed yet, and how packets lie at their         *)
(* beginning: those from first on, one behind the other, packet m          *)
(* beginning behind the first at[m] bytes; with nothing behind them where  *)
(* exact is true.                                                          *)
Rest == IF parsing THEN SubSeq(buffer, current + 1, Len(buffer)) ELSE leftover
Unparsed == Rest \o pipe

Laid(bytes, sizes, c, first, at, exact) ==
  /\ at \in [first .. Len(sizes) + 1 -> Nat]
  /\ at[first] = 0 /\ at[Len(sizes) + 1] <= Len(bytes)
  /\ exact => at[Len(sizes) + 1] = Len(bytes)
  /\ \A m, n \in first .. Len(sizes) + 1 : m <= n => at[m] <= at[n]
  /\ \A m \in first .. Len(sizes) :
       /\ at[m + 1] = at[m] + Prefix + sizes[m]
       /\ \A k \in 1 .. Prefix + sizes[m] : bytes[at[m] + k] = <<c, m, k>>

IsLaid(bytes, sizes, c, first, exact) == \E at : Laid(bytes, sizes, c, first, at, exact)

InStep(bytes, sizes, c, parsed, exact) ==
  /\ Len(parsed) <= Len(sizes)
  /\ \A i \in 1 .. Len(parsed) : parsed[i] = i
  /\ IsLaid(bytes, sizes, c, Len(parsed) + 1, exact)

(* The packets that were sent whole, before one that was not: they are yet *)
(* to be parsed, or Pump is past them, and then nothing is known of what   *)
(* it finds.                                                               *)
Sent == SubSeq(lengths, 1, whole)
AllWhole == whole = Len(lengths)
Past ==
  /\ whole < Len(lengths) /\ whole < Len(messages)
  /\ \A i \in 1 .. whole : messages[i] = i

StreamInv ==
  /\ StreamTypeOK
  /\ ~cut => InStep(Unparsed, Sent, connection, messages, AllWhole) \/ Past

-----------------------------------------------------------------------------
(* About sequences. *)

(* Cutting a sequence and joining it again, what was in front included.    *)
LEMMA CutAndJoined ==
  ASSUME NEW S, NEW s \in Seq(S), NEW t \in Seq(S), NEW n \in 0 .. Len(t)
  PROVE  (s \o SubSeq(t, 1, n)) \o SubSeq(t, n + 1, Len(t)) = s \o t
<1> DEFINE a == SubSeq(t, 1, n)  b == SubSeq(t, n + 1, Len(t))
<1>1. Len(t) \in Nat
  OBVIOUS
<1>2. a \in Seq(S) /\ b \in Seq(S)
  OBVIOUS
<1>3. a \o b = t
  <2>1. 1 \in 1 .. Len(t) + 1 /\ n \in 1 - 1 .. Len(t) /\ Len(t) \in n .. Len(t)
    BY <1>1
  <2>2. a \o b = SubSeq(t, 1, Len(t))
    BY <2>1, ConcatAdjacentSubSeq
  <2>3. QED
    BY <2>2, SubSeqFull
<1> HIDE DEF a, b
<1>4. (s \o a) \o b = s \o (a \o b)
  BY <1>2, ConcatAssociative
<1>5. QED
  BY <1>3, <1>4 DEF a, b

(* What lies behind the first c of b, then p.                              *)
From(b, c, p) == SubSeq(b, c + 1, Len(b)) \o p

(* new is old without the first d. *)
Shifted(old, new, d) ==
  /\ Len(old) \in Nat /\ Len(new) \in Nat /\ Len(new) = Len(old) - d
  /\ \A k \in 1 .. Len(new) : new[k] = old[d + k]

(* old begins with what b has behind the first c. *)
Continues(b, c, old) ==
  /\ Len(old) >= Len(b) - c
  /\ \A k \in 1 .. Len(b) - c : old[k] = b[c + k]

(* What lies behind the first d bytes of what lies behind the first c.     *)
LEMMA Behind ==
  ASSUME NEW S, NEW b \in Seq(S), NEW p \in Seq(S),
         NEW c \in Nat, NEW d \in Nat, NEW e \in Nat, e = c + d, e <= Len(b)
  PROVE  Continues(b, c, From(b, c, p)) /\ Shifted(From(b, c, p), From(b, e, p), d)
<1> DEFINE u == SubSeq(b, c + 1, Len(b))  v == SubSeq(b, c + d + 1, Len(b))
           old == From(b, c, p)  new == From(b, e, p)
<1>1. PICK lb \in Nat : lb = Len(b)
  OBVIOUS
<1>2. PICK lp \in Nat : lp = Len(p)
  OBVIOUS
<1>10. ASSUME NEW i \in 0 .. lb
      PROVE  LET w == SubSeq(b, i + 1, lb)
             IN  w \in Seq(S) /\ Len(w) = lb - i /\ \A k \in 1 .. lb - i : w[k] = b[i + k]
  <2>1. PICK x \in Nat : x = i + 1
    OBVIOUS
  <2>2. x \in 1 .. lb + 1 /\ lb - x + 1 = lb - i /\ lb - i \in Nat /\ (x <= lb \/ lb - i = 0)
    BY <2>1, <1>1
  <2> DEFINE w == SubSeq(b, x, lb)
  <2>3. \A j \in x .. lb : b[j] \in S
    BY <2>2, <1>1
  <2>4. /\ w \in Seq(S)
        /\ Len(w) = IF x <= lb THEN lb - x + 1 ELSE 0
        /\ \A k \in 1 .. lb - x + 1 : w[k] = b[x + k - 1]
    <3>1. x \in Int /\ lb \in Int
      BY <1>1
    <3>2. w \in Seq(S)
      BY <2>3, <3>1, SubSeqProperties
    <3>3. Len(w) = IF x <= lb THEN lb - x + 1 ELSE 0
      BY <2>3, <3>1, SubSeqProperties
    <3>4. \A k \in 1 .. lb - x + 1 : w[k] = b[x + k - 1]
      BY <2>3, <3>1, SubSeqProperties
    <3>5. QED
      BY <3>2, <3>3, <3>4
  <2> HIDE DEF w
  <2>5. Len(w) = lb - i
    BY <2>2, <2>4
  <2>6. ASSUME NEW k \in 1 .. lb - i PROVE w[k] = b[i + k]
    <3>1. x + k - 1 = i + k
      BY <2>1
    <3>2. QED
      BY <3>1, <2>2, <2>4
  <2>7. QED
    BY <2>1, <2>4, <2>5, <2>6 DEF w
<1>3. /\ u \in Seq(S) /\ Len(u) = lb - c /\ \A k \in 1 .. lb - c : u[k] = b[c + k]
  <2>1. c \in 0 .. lb
    BY <1>1
  <2>2. QED
    BY <1>1, <2>1, <1>10
<1>4. /\ v \in Seq(S) /\ Len(v) = lb - c - d /\ \A k \in 1 .. lb - c - d : v[k] = b[c + d + k]
  <2>1. c + d \in 0 .. lb /\ lb - (c + d) = lb - c - d
    BY <1>1
  <2>2. QED
    BY <1>1, <2>1, <1>10
<1>5. old = u \o p /\ new = v \o p
  BY DEF From
<1> HIDE DEF u, v, old, new
<1> DEFINE m == lb - c  n == lb - c - d
<1>11. m \in Nat /\ n \in Nat /\ n = m - d /\ c + d + n = lb
  BY <1>1
<1>12. Len(u) = m /\ Len(v) = n /\ u \in Seq(S) /\ v \in Seq(S)
  BY <1>3, <1>4
<1>13. \A k \in 1 .. m : u[k] = b[c + k]
  BY <1>3
<1>14. \A k \in 1 .. n : v[k] = b[c + d + k]
  BY <1>4
<1> HIDE DEF m, n
<1>6. /\ Len(old) = m + lp /\ Len(new) = n + lp
      /\ \A k \in 1 .. m + lp : old[k] = IF k <= m THEN u[k] ELSE p[k - m]
      /\ \A k \in 1 .. n + lp : new[k] = IF k <= n THEN v[k] ELSE p[k - n]
  <2>1. /\ Len(u \o p) = Len(u) + Len(p)
        /\ \A k \in 1 .. Len(u) + Len(p) :
             (u \o p)[k] = IF k <= Len(u) THEN u[k] ELSE p[k - Len(u)]
    BY <1>12, ConcatProperties
  <2>2. /\ Len(v \o p) = Len(v) + Len(p)
        /\ \A k \in 1 .. Len(v) + Len(p) :
             (v \o p)[k] = IF k <= Len(v) THEN v[k] ELSE p[k - Len(v)]
    BY <1>12, ConcatProperties
  <2>3. QED
    BY <2>1, <2>2, <1>2, <1>12, <1>5, Zenon
<1>7. \A k \in 1 .. m : old[k] = b[c + k]
  <2>1. \A k \in 1 .. m : k \in 1 .. m + lp /\ k <= m
    BY <1>11, <1>2
  <2>2. QED
    BY <1>6, <2>1, <1>13
<1>8. ASSUME NEW k \in 1 .. n + lp PROVE new[k] = old[d + k]
  <2>1. CASE k <= n
    <3>1. new[k] = b[c + d + k]
      <4>1. k \in 1 .. n
        BY <2>1, <1>11
      <4>2. new[k] = v[k]
        BY <2>1, <1>6
      <4>3. QED
        BY <4>1, <4>2, <1>14
    <3>2. d + k \in 1 .. m /\ c + (d + k) = c + d + k
      BY <2>1, <1>11
    <3>3. QED
      BY <3>1, <3>2, <1>7
  <2>2. CASE ~ (k <= n)
    <3>1. new[k] = p[k - n]
      BY <2>2, <1>6
    <3>2. d + k \in 1 .. m + lp /\ ~ (d + k <= m) /\ (d + k) - m = k - n
      BY <2>2, <1>11, <1>2
    <3>3. QED
      BY <3>1, <3>2, <1>6
  <2>3. QED
    BY <2>1, <2>2
<1>9. /\ Len(old) \in Nat /\ Len(new) \in Nat /\ Len(new) = Len(old) - d
      /\ Len(old) >= m
  <2>1. /\ m + lp \in Nat /\ n + lp \in Nat /\ n + lp = (m + lp) - d /\ m + lp >= m
    BY <1>11, <1>2
  <2>2. QED
    BY <2>1, <1>6
<1>15. Len(b) - c = m
  BY <1>1 DEF m
<1>16. QED
  BY <1>15, <1>6, <1>7, <1>8, <1>9 DEF old, new, Shifted, Continues

-----------------------------------------------------------------------------
(* What one step does to the layout. *)

(* A stream with nothing in it. *)
LEMMA NothingLaid ==
  ASSUME NEW c, NEW exact \in BOOLEAN
  PROVE  InStep(<< >>, << >>, c, << >>, exact)
<1> DEFINE at == [m \in 1 .. 1 |-> 0]
<1>1. Laid(<< >>, << >>, c, 1, at, exact)
  BY DEF Laid
<1>2. QED
  BY <1>1 DEF InStep, IsLaid

(* A packet is written behind the others. *)
LEMMA LaidBehind ==
  ASSUME NEW S, NEW bytes \in Seq(S), NEW sizes \in Seq(Lengths), NEW c,
         NEW n \in Lengths, NEW parsed, Len(parsed) \in Nat,
         NEW packet \in Seq(S), packet = [k \in 1 .. Prefix + n |-> <<c, Len(sizes) + 1, k>>],
         InStep(bytes, sizes, c, parsed, TRUE)
  PROVE  InStep(bytes \o packet, Append(sizes, n), c, parsed, TRUE)
<1>1. PICK f \in Nat : f = Len(parsed)
  OBVIOUS
<1>2. PICK l \in Nat : l = Len(sizes)
  OBVIOUS
<1>3. PICK b \in Nat : b = Len(bytes)
  OBVIOUS
<1>4. n \in Nat /\ Prefix \in Nat /\ Lengths \subseteq Nat
  BY FramingAssumption
<1>5. PICK at : Laid(bytes, sizes, c, f + 1, at, TRUE)
  BY <1>1 DEF InStep, IsLaid
<1>6. f <= l
  BY <1>1, <1>2 DEF InStep
<1> DEFINE now == [m \in f + 1 .. l + 2 |-> IF m = l + 2 THEN b + Prefix + n ELSE at[m]]
           longer == Append(sizes, n)  all == bytes \o packet
<1>7. /\ longer \in Seq(Lengths) /\ Len(longer) = l + 1 /\ longer[l + 1] = n
      /\ \A m \in 1 .. l : longer[m] = sizes[m] /\ sizes[m] \in Nat
  <2>1. \A m \in 1 .. l : sizes[m] \in Lengths
    BY <1>2
  <2>2. /\ longer \in Seq(Lengths) /\ Len(longer) = l + 1 /\ longer[l + 1] = n
        /\ \A m \in 1 .. l : longer[m] = sizes[m]
    BY <1>2, AppendProperties
  <2>3. QED
    BY <2>1, <2>2, <1>4
<1>8. Len(packet) = Prefix + n
  BY <1>4
<1>9. /\ Len(all) = b + Prefix + n
      /\ \A k \in 1 .. b : all[k] = bytes[k]
      /\ \A k \in 1 .. Prefix + n : all[b + k] = <<c, l + 1, k>>
  <2>1. Len(all) = b + Prefix + n
    BY <1>3, <1>4, <1>8
  <2>2. \A k \in 1 .. b : all[k] = bytes[k]
    BY <1>3, <1>4, <1>8
  <2>3. ASSUME NEW k \in 1 .. Prefix + n PROVE all[b + k] = <<c, l + 1, k>>
    <3>1. all[b + k] = packet[k]
      BY <1>3, <1>4, <1>8
    <3>2. QED
      BY <3>1, <1>2
  <2>4. QED
    BY <2>1, <2>2, <2>3
<1>10. at \in [f + 1 .. l + 1 -> Nat] /\ at[f + 1] = 0 /\ at[l + 1] = b
  BY <1>2, <1>3, <1>5 DEF Laid
<1>18. \A m, j \in f + 1 .. l + 1 : m <= j => at[m] <= at[j]
  BY <1>2, <1>5 DEF Laid
<1>19. \A m \in f + 1 .. l : at[m + 1] = at[m] + Prefix + sizes[m]
  BY <1>2, <1>5 DEF Laid
<1>20. \A m \in f + 1 .. l : \A k \in 1 .. Prefix + sizes[m] : bytes[at[m] + k] = <<c, m, k>>
  BY <1>2, <1>5 DEF Laid
<1> HIDE DEF longer, all
<1>11. now \in [f + 1 .. l + 2 -> Nat] /\ now[f + 1] = 0 /\ now[l + 2] = b + Prefix + n
  BY <1>4, <1>6, <1>10
<1>12. \A m \in f + 1 .. l + 1 : now[m] = at[m] /\ at[m] \in Nat /\ at[m] <= b
  <2>1. l + 1 \in f + 1 .. l + 1
    BY <1>6
  <2>2. QED
    BY <2>1, <1>10, <1>18
<1>13. \A m, j \in f + 1 .. l + 2 : m <= j => now[m] <= now[j]
  <2> SUFFICES ASSUME NEW m \in f + 1 .. l + 2, NEW j \in f + 1 .. l + 2, m <= j
               PROVE  now[m] <= now[j]
    OBVIOUS
  <2> HIDE DEF now
  <2>1. CASE j <= l + 1
    <3>1. m \in f + 1 .. l + 1 /\ j \in f + 1 .. l + 1
      BY <2>1
    <3>2. at[m] <= at[j]
      BY <3>1, <1>18
    <3>3. QED
      BY <3>1, <3>2, <1>12
  <2>2. CASE j = l + 2 /\ m <= l + 1
    <3>1. at[m] \in Nat /\ now[m] <= b /\ now[j] = b + Prefix + n
      BY <2>2, <1>11, <1>12
    <3>2. \A x \in Nat : x <= b => x <= b + Prefix + n
      BY <1>4
    <3>3. now[m] \in Nat
      BY <1>11
    <3>4. QED
      BY <3>1, <3>2, <3>3
  <2>3. CASE j = l + 2 /\ m = l + 2
    BY <2>3, <1>11, <1>4
  <2>4. QED
    BY <2>1, <2>2, <2>3
<1>14. ASSUME NEW m \in f + 1 .. l + 1
       PROVE  /\ now[m + 1] = now[m] + Prefix + longer[m]
              /\ \A k \in 1 .. Prefix + longer[m] : all[now[m] + k] = <<c, m, k>>
  <2>1. CASE m = l + 1
    <3>1. now[m] = b /\ now[m + 1] = b + Prefix + n
      BY <2>1, <1>10, <1>12, <1>11
    <3> HIDE DEF now
    <3>2. QED
      BY <2>1, <3>1, <1>7, <1>9
  <2>2. CASE m # l + 1
    <3>1. m \in f + 1 .. l /\ m + 1 \in f + 1 .. l + 1 /\ m \in 1 .. l
      BY <2>2
    <3>2. now[m] = at[m] /\ now[m + 1] = at[m + 1] /\ at[m + 1] <= b /\ at[m] \in Nat
      BY <3>1, <1>12
    <3> HIDE DEF now
    <3>3. longer[m] = sizes[m] /\ sizes[m] \in Nat /\ at[m + 1] = at[m] + Prefix + sizes[m]
      BY <3>1, <1>7, <1>19
    <3>4. ASSUME NEW k \in 1 .. Prefix + sizes[m] PROVE all[at[m] + k] = <<c, m, k>>
      <4>1. at[m] + k \in 1 .. b
        <5>1. PICK size \in Nat : size = Prefix + sizes[m]
          BY <3>3, <1>4
        <5>2. at[m + 1] = at[m] + size
          BY <5>1, <3>2, <3>3, <1>4
        <5>3. k \in 1 .. size
          BY <5>1
        <5>4. QED
          BY <5>2, <5>3, <3>2
      <4>2. QED
        BY <4>1, <3>1, <1>9, <1>20
    <3>5. QED
      BY <3>2, <3>3, <3>4
  <2>3. QED
    BY <2>1, <2>2
<1>15. Laid(all, longer, c, f + 1, now, TRUE)
  <2>1. l + 1 + 1 = l + 2
    OBVIOUS
  <2> HIDE DEF now
  <2>2. Len(longer) = l + 1 /\ Len(longer) + 1 = l + 2
    BY <2>1, <1>7
  <2>3. now[l + 2] = Len(all) /\ now[l + 2] <= Len(all)
    BY <1>4, <1>9, <1>11
  <2>4. QED
    BY <2>2, <2>3, <1>11, <1>13, <1>14 DEF Laid
<1>16. Len(parsed) <= Len(longer) /\ \A i \in 1 .. Len(parsed) : parsed[i] = i
  BY <1>1, <1>6, <1>7 DEF InStep
<1>17. QED
  BY <1>1, <1>15, <1>16 DEF InStep, IsLaid, longer, all

(* Bytes of a packet that is not whole, behind the others or behind others *)
(* of their kind, leave the packets where they lie.                        *)
LEMMA LaidMore ==
  ASSUME NEW S, NEW bytes \in Seq(S), NEW more \in Seq(S), NEW sizes \in Seq(Lengths), NEW c,
         NEW parsed, Len(parsed) \in Nat, NEW exact \in BOOLEAN,
         InStep(bytes, sizes, c, parsed, exact)
  PROVE  InStep(bytes \o more, sizes, c, parsed, FALSE)
<1>1. PICK f \in Nat : f = Len(parsed) + 1
  OBVIOUS
<1>2. PICK l \in Nat : l = Len(sizes)
  OBVIOUS
<1>3. PICK at : Laid(bytes, sizes, c, f, at, exact)
  BY <1>1 DEF InStep, IsLaid
<1> DEFINE all == bytes \o more
<1>4. /\ Len(bytes) \in Nat /\ Len(all) \in Nat /\ Len(bytes) <= Len(all)
      /\ \A k \in 1 .. Len(bytes) : all[k] = bytes[k]
  OBVIOUS
<1> HIDE DEF all
<1>5. /\ at \in [f .. l + 1 -> Nat] /\ at[f] = 0 /\ at[l + 1] <= Len(bytes)
      /\ \A m, n \in f .. l + 1 : m <= n => at[m] <= at[n]
      /\ \A m \in f .. l :
           /\ at[m + 1] = at[m] + Prefix + sizes[m]
           /\ \A k \in 1 .. Prefix + sizes[m] : bytes[at[m] + k] = <<c, m, k>>
  BY <1>2, <1>3 DEF Laid
<1>6. f <= l + 1
  BY <1>1, <1>2 DEF InStep
<1>7. ASSUME NEW m \in f .. l, NEW k \in 1 .. Prefix + sizes[m]
      PROVE  all[at[m] + k] = <<c, m, k>>
  <2>1. m \in f .. l + 1 /\ m + 1 \in f .. l + 1 /\ l + 1 \in f .. l + 1 /\ m + 1 <= l + 1 /\ m \in 1 .. l
    BY <1>1
  <2>2. at[m] \in Nat /\ at[m + 1] \in Nat /\ at[l + 1] \in Nat /\ at[m + 1] <= at[l + 1]
    BY <1>5, <2>1
  <2>3. sizes[m] \in Nat /\ Prefix \in Nat
    <3>1. sizes[m] \in Lengths
      BY <1>2, <2>1
    <3>2. QED
      BY <3>1, FramingAssumption
  <2>4. at[m] + k \in 1 .. Len(bytes)
    <3>1. PICK size \in Nat : size = Prefix + sizes[m]
      BY <2>3
    <3>2. at[m + 1] = at[m] + Prefix + sizes[m] /\ at[l + 1] <= Len(bytes)
      BY <1>5
    <3>3. at[m + 1] = at[m] + size /\ k \in 1 .. size
      BY <2>2, <2>3, <3>1, <3>2
    <3>4. \A x, y, z, b, j \in Nat :
            y = x + size /\ j \in 1 .. size /\ y <= z /\ z <= b => x + j \in 1 .. b
      OBVIOUS
    <3>5. k \in Nat /\ Len(bytes) \in Nat
      BY <1>4, <3>3
    <3>6. QED
      BY ONLY <2>2, <3>2, <3>3, <3>4, <3>5
  <2>5. QED
    BY <1>4, <1>5, <2>4
<1>8. at[l + 1] <= Len(all)
  <2>1. l + 1 \in f .. l + 1
    BY <1>6
  <2>2. at \in [f .. l + 1 -> Nat] /\ at[l + 1] <= Len(bytes)
    BY <1>5
  <2>3. at[l + 1] \in Nat
    BY ONLY <2>1, <2>2
  <2>4. \A x, y, z \in Nat : x <= y /\ y <= z => x <= z
    OBVIOUS
  <2>5. QED
    BY ONLY <1>4, <2>2, <2>3, <2>4
<1>9. Laid(all, sizes, c, f, at, FALSE)
  BY <1>2, <1>5, <1>7, <1>8 DEF Laid
<1>10. QED
  BY <1>1, <1>9 DEF InStep, IsLaid, all

(* The bytes begin with the first packet, if there are any. *)
Begins(bytes, sizes, c, f) ==
  /\ f \in 1 .. Len(sizes) /\ sizes[f] \in Lengths /\ sizes[f] \in Nat
  /\ Prefix + sizes[f] <= Len(bytes)
  /\ \A k \in 1 .. Prefix + sizes[f] : bytes[k] = <<c, f, k>>

LEMMA FirstPacket ==
  ASSUME NEW bytes, Len(bytes) \in Nat, Len(bytes) > 0, NEW sizes \in Seq(Lengths), NEW c,
         NEW exact \in BOOLEAN, NEW f \in 1 .. Len(sizes) + 1, exact \/ f <= Len(sizes),
         IsLaid(bytes, sizes, c, f, exact)
  PROVE  Begins(bytes, sizes, c, f)
<1>1. PICK l \in Nat : l = Len(sizes)
  OBVIOUS
<1>9. PICK at : Laid(bytes, sizes, c, f, at, exact)
  BY DEF IsLaid
<1>2. f # l + 1
  BY <1>1, <1>9 DEF Laid
<1>3. f \in 1 .. l /\ sizes[f] \in Lengths
  BY <1>1, <1>2
<1>4. sizes[f] \in Nat /\ Prefix \in Nat
  BY <1>3, FramingAssumption
<1>5. at[f] = 0 /\ at[f + 1] = at[f] + Prefix + sizes[f] /\ at[f + 1] <= at[l + 1]
      /\ at[l + 1] <= Len(bytes) /\ at[f + 1] \in Nat /\ at[l + 1] \in Nat
      /\ \A k \in 1 .. Prefix + sizes[f] : bytes[at[f] + k] = <<c, f, k>>
  <2>1. f \in f .. l /\ f + 1 \in f .. l + 1 /\ l + 1 \in f .. l + 1 /\ f + 1 <= l + 1
    BY <1>3
  <2>2. QED
    BY <2>1, <1>1, <1>9 DEF Laid
<1>6. \A k \in 1 .. Prefix + sizes[f] : 0 + k = k
  BY <1>4
<1>7. Prefix + sizes[f] = 0 + Prefix + sizes[f]
  BY <1>4
<1>8. QED
  BY <1>1, <1>3, <1>4, <1>5, <1>6, <1>7 DEF Begins

(* When it has been parsed, the others lie as they did, so much nearer.    *)
LEMMA FirstParsed ==
  ASSUME NEW old, NEW new, NEW sizes \in Seq(Lengths), NEW c,
         NEW f \in 1 .. Len(sizes), NEW exact \in BOOLEAN, IsLaid(old, sizes, c, f, exact),
         NEW d \in Nat, d = Prefix + sizes[f], Shifted(old, new, d)
  PROVE  IsLaid(new, sizes, c, f + 1, exact)
<1>1. PICK l \in Nat : l = Len(sizes)
  OBVIOUS
<1>15. PICK at : Laid(old, sizes, c, f, at, exact)
  BY DEF IsLaid
<1>16. /\ Len(old) \in Nat /\ Len(new) \in Nat /\ Len(new) = Len(old) - d
       /\ \A k \in 1 .. Len(new) : new[k] = old[d + k]
  BY DEF Shifted
<1>2. f \in 1 .. l /\ Prefix \in Nat
  BY <1>1, FramingAssumption
<1>3. \A m \in f .. l : sizes[m] \in Nat
  <2>1. \A m \in f .. l : m \in 1 .. Len(sizes)
    BY <1>1, <1>2
  <2>2. \A m \in 1 .. Len(sizes) : sizes[m] \in Lengths
    OBVIOUS
  <2>3. QED
    BY <2>1, <2>2, FramingAssumption
<1>4. /\ at \in [f .. l + 1 -> Nat] /\ at[f] = 0 /\ at[l + 1] <= Len(old)
      /\ exact => at[l + 1] = Len(old)
  BY <1>1, <1>15 DEF Laid
<1>12. \A m, n \in f .. l + 1 : m <= n => at[m] <= at[n]
  BY <1>1, <1>15 DEF Laid
<1>13. \A m \in f .. l : at[m + 1] = at[m] + Prefix + sizes[m]
  BY <1>1, <1>15 DEF Laid
<1>14. \A m \in f .. l : \A k \in 1 .. Prefix + sizes[m] : old[at[m] + k] = <<c, m, k>>
  BY <1>1, <1>15 DEF Laid
<1>5. at[f + 1] = d
  BY <1>2, <1>3, <1>4, <1>13
<1> DEFINE now == [m \in f + 1 .. l + 1 |-> at[m] - d]
<1>6. \A m \in f + 1 .. l + 1 :
        now[m] = at[m] - d /\ at[m] \in Nat /\ at[m] >= d /\ at[m] <= Len(old)
  <2> SUFFICES ASSUME NEW m \in f + 1 .. l + 1
               PROVE  now[m] = at[m] - d /\ at[m] \in Nat /\ at[m] >= d /\ at[m] <= Len(old)
    OBVIOUS
  <2>1. m \in f .. l + 1 /\ f + 1 \in f .. l + 1 /\ l + 1 \in f .. l + 1 /\ f + 1 <= m /\ m <= l + 1
    BY <1>2
  <2>2. QED
    <3>1. at[m] \in Nat /\ at[f + 1] <= at[m] /\ at[m] <= at[l + 1] /\ at[l + 1] \in Nat
      BY <2>1, <1>4, <1>12
    <3>2. QED
      BY <3>1, <1>4, <1>5, <1>16
<1>7. now \in [f + 1 .. l + 1 -> Nat]
  BY <1>6
<1> HIDE DEF now
<1>8. now[f + 1] = 0 /\ now[l + 1] <= Len(new) /\ (exact => now[l + 1] = Len(new))
  <2>1. f + 1 \in f + 1 .. l + 1 /\ l + 1 \in f + 1 .. l + 1
    BY <1>2
  <2>2. QED
    BY <2>1, <1>4, <1>5, <1>6, <1>16
<1>9. \A m, n \in f + 1 .. l + 1 : m <= n => now[m] <= now[n]
  <2>1. \A m \in f + 1 .. l + 1 : m \in f .. l + 1
    BY <1>2
  <2> SUFFICES ASSUME NEW m \in f + 1 .. l + 1, NEW n \in f + 1 .. l + 1, m <= n
               PROVE  now[m] <= now[n]
    OBVIOUS
  <2>2. at[m] <= at[n]
    BY <2>1, <1>12
  <2>3. QED
    BY <2>2, <1>6
<1>10. ASSUME NEW m \in f + 1 .. l
       PROVE  /\ now[m + 1] = now[m] + Prefix + sizes[m]
              /\ \A k \in 1 .. Prefix + sizes[m] : new[now[m] + k] = <<c, m, k>>
  <2>1. m \in f .. l /\ m \in f + 1 .. l + 1 /\ m + 1 \in f + 1 .. l + 1
    BY <1>2
  <2>2. PICK size \in Nat : size = Prefix + sizes[m]
    BY <2>1, <1>2, <1>3
  <2>3. at[m + 1] = at[m] + size
    <3>1. at[m] \in Nat /\ sizes[m] \in Nat
      BY <2>1, <1>3, <1>4
    <3>2. at[m + 1] = at[m] + Prefix + sizes[m]
      BY <2>1, <1>13
    <3>3. \A x, y \in Nat : x + Prefix + y = x + (Prefix + y)
      BY <1>2
    <3>4. QED
      BY <3>1, <3>2, <3>3, <2>2
  <2>4. now[m + 1] = now[m] + size
    <3>1. at[m] \in Nat /\ now[m] = at[m] - d /\ now[m + 1] = at[m + 1] - d
      BY <2>1, <1>6
    <3>2. \A x, y, z \in Nat : (x + y) - z = x - z + y
      OBVIOUS
    <3>3. QED
      BY <3>1, <3>2, <2>3
  <2>5. now[m + 1] = now[m] + Prefix + sizes[m]
    <3>1. now[m] \in Nat /\ sizes[m] \in Nat
      BY <2>1, <1>7, <1>3
    <3>2. \A x, y \in Nat : x + Prefix + y = x + (Prefix + y)
      BY <1>2
    <3>3. QED
      BY <3>1, <3>2, <2>2, <2>4
  <2>6. ASSUME NEW k \in 1 .. size PROVE new[now[m] + k] = <<c, m, k>>
    <3>1. now[m] + k \in 1 .. Len(new) /\ d + (now[m] + k) = at[m] + k
      <4>1. /\ at[m] \in Nat /\ at[m] >= d /\ now[m] = at[m] - d
            /\ at[m + 1] <= Len(old) /\ Len(new) = Len(old) - d
        BY <2>1, <1>6, <1>16
      <4>2. PICK a \in Nat, lo \in Nat : a = at[m] /\ lo = Len(old)
        BY <4>1, <1>16
      <4>3. now[m] = a - d /\ Len(new) = lo - d /\ a >= d /\ a + size <= lo
        BY <4>1, <4>2, <2>3
      <4>4. k \in Nat /\ 1 <= k /\ k <= size
        BY <2>2
      <4>5. a - d + k \in 1 .. lo - d /\ d + (a - d + k) = a + k
        <5>1. a >= d /\ a + size <= lo /\ 1 <= k /\ k <= size
          BY <4>3, <4>4
        <5>2. QED
          BY ONLY <5>1, <4>4, a \in Nat, lo \in Nat, d \in Nat, size \in Nat
      <4>6. QED
        BY <4>2, <4>3, <4>5
    <3>2. new[now[m] + k] = old[d + (now[m] + k)]
      BY <3>1, <1>16
    <3>3. old[at[m] + k] = <<c, m, k>>
      BY <2>1, <2>2, <1>14
    <3>4. QED
      BY <3>1, <3>2, <3>3
  <2>7. QED
    BY <2>2, <2>5, <2>6
<1>11. QED
  <2>1. /\ now \in [f + 1 .. Len(sizes) + 1 -> Nat]
        /\ now[f + 1] = 0 /\ now[Len(sizes) + 1] <= Len(new)
        /\ exact => now[Len(sizes) + 1] = Len(new)
        /\ \A m, n \in f + 1 .. Len(sizes) + 1 : m <= n => now[m] <= now[n]
    BY <1>1, <1>7, <1>8, <1>9
  <2>2. \A m \in f + 1 .. Len(sizes) :
          /\ now[m + 1] = now[m] + Prefix + sizes[m]
          /\ \A k \in 1 .. Prefix + sizes[m] : new[now[m] + k] = <<c, m, k>>
    BY <1>1, <1>10
  <2>3. Laid(new, sizes, c, f + 1, now, exact)
    BY <2>1, <2>2 DEF Laid
  <2>4. QED
    BY <2>3 DEF IsLaid

-----------------------------------------------------------------------------
(* Types, and the layout, are invariant. *)

LEMMA InitStreamInv == StreamInit => StreamInv
<1> SUFFICES ASSUME StreamInit PROVE StreamInv
  OBVIOUS
<1>1. << >> \in Seq(Bytes) /\ << >> \in Seq(Lengths) /\ << >> \in Seq((1 .. MaxPackets) \cup {Garbled})
      /\ Len(<< >>) = 0
  BY EmptySeq
<1>2. StreamTypeOK
  <2>1. 1 \in 1 .. MaxConnections /\ 0 \in 0 .. Len(<< >>)
    BY <1>1, FramingAssumption
  <2>2. QED
    BY <1>1, <2>1 DEF StreamInit, StreamTypeOK
<1>3. Unparsed = << >>
  BY ConcatEmptySeq, <1>1 DEF StreamInit, Unparsed, Rest
<1>4. Sent = << >>
  BY DEF StreamInit, Sent
<1>5. InStep(<< >>, << >>, connection, << >>, AllWhole)
  BY NothingLaid DEF AllWhole
<1>6. QED
  BY <1>2, <1>3, <1>4, <1>5 DEF StreamInit, StreamInv

(* Pump puts what it does not parse back, and recv takes from the front of *)
(* the pipe: what is unparsed stays what it is.                            *)
LEMMA Unchanged ==
  ASSUME StreamInv, StreamTypeOK', Unparsed' = Unparsed,
         UNCHANGED <<lengths, whole, connection, messages, cut>>
  PROVE  StreamInv'
BY DEF StreamInv, Sent, AllWhole, Past

(* The packets sent whole, as part of those sent.                          *)
LEMMA SentTyped ==
  ASSUME StreamTypeOK
  PROVE  /\ Sent \in Seq(Lengths) /\ Len(Sent) = whole /\ whole \in Nat /\ whole <= Len(lengths)
         /\ \A m \in 1 .. whole : Sent[m] = lengths[m]
         /\ AllWhole => Sent = lengths
<1>1. PICK s \in Seq(Lengths) : s = lengths
  BY DEF StreamTypeOK
<1>2. PICK w \in 0 .. Len(s) : w = whole
  BY <1>1 DEF StreamTypeOK
<1>3. /\ SubSeq(s, 1, w) \in Seq(Lengths) /\ Len(SubSeq(s, 1, w)) = w
      /\ \A m \in 1 .. w : SubSeq(s, 1, w)[m] = s[m]
  BY <1>2
<1>4. w = Len(s) => SubSeq(s, 1, w) = s
  BY SubSeqFull
<1>5. QED
  BY <1>1, <1>2, <1>3, <1>4 DEF Sent, AllWhole

LEMMA SendStep ==
  ASSUME StreamInv, NEW n \in Lengths, NEW k \in 1 .. Prefix + n, Send(n, k)
  PROVE  StreamInv'
<1> DEFINE packet == Written(Len(lengths) + 1, n)
           part == SubSeq(packet, 1, k)
<1>1. /\ Len(lengths) \in Nat /\ Len(lengths) + 1 \in 1 .. MaxPackets /\ n \in Nat /\ Prefix \in Nat
      /\ lengths \in Seq(Lengths) /\ Len(messages) \in Nat /\ whole \in 0 .. Len(lengths)
  BY FramingAssumption DEF StreamInv, StreamTypeOK, Send
<1>2. packet = [j \in 1 .. Prefix + n |-> <<connection, Len(lengths) + 1, j>>]
  BY DEF Written, Byte
<1>3. packet \in Seq(Bytes) /\ Len(packet) = Prefix + n
  <2>1. \A j \in 1 .. Prefix + n : <<connection, Len(lengths) + 1, j>> \in Bytes
    <3> SUFFICES ASSUME NEW j \in 1 .. Prefix + n
                 PROVE  <<connection, Len(lengths) + 1, j>> \in Bytes
      OBVIOUS
    <3>1. j \in Nat \ {0}
      BY <1>1
    <3>2. connection \in 1 .. MaxConnections
      BY DEF StreamInv, StreamTypeOK
    <3>3. QED
      BY <3>1, <3>2, <1>1 DEF Bytes
  <2>2. QED
    BY <1>1, <1>2, <2>1
<1> HIDE DEF packet
<1>4. part \in Seq(Bytes) /\ (k = Prefix + n => part = packet)
  <2>1. part \in Seq(Bytes)
    BY <1>1, <1>3
  <2>2. QED
    BY <1>3, <2>1, SubSeqFull
<1> HIDE DEF part
<1>5. /\ pipe' = pipe \o part /\ lengths' = Append(lengths, n)
      /\ whole' = IF whole = Len(lengths) /\ k = Prefix + n THEN whole + 1 ELSE whole
      /\ UNCHANGED <<connection, parsing, buffer, current, leftover, messages, cut>>
  BY DEF Send, part, packet
<1>6. /\ lengths' \in Seq(Lengths) /\ Len(lengths') = Len(lengths) + 1
      /\ \A m \in 1 .. Len(lengths) : lengths'[m] = lengths[m]
  BY <1>1, <1>5, AppendProperties
<1>7. StreamTypeOK'
  <2>1. pipe \o part \in Seq(Bytes)
    BY <1>4, ConcatProperties DEF StreamInv, StreamTypeOK
  <2>2. whole' \in 0 .. Len(lengths')
    BY <1>1, <1>5, <1>6
  <2>3. QED
    BY <1>5, <1>6, <2>1, <2>2 DEF StreamInv, StreamTypeOK
<1>8. Rest \in Seq(Bytes) /\ pipe \in Seq(Bytes) /\ Unparsed \in Seq(Bytes)
  BY DEF StreamInv, StreamTypeOK, Rest, Unparsed
<1>9. Unparsed' = Unparsed \o part
  <2>1. Unparsed' = Rest \o (pipe \o part)
    BY <1>5 DEF Unparsed, Rest
  <2>2. (Rest \o pipe) \o part = Rest \o (pipe \o part)
    <3>1. Rest \in Seq(Bytes) /\ pipe \in Seq(Bytes) /\ part \in Seq(Bytes)
      BY <1>4, <1>8
    <3>2. QED
      BY ONLY <3>1, ConcatAssociative
  <2>3. QED
    BY <2>1, <2>2 DEF Unparsed
<1>10. CASE Past
  BY <1>1, <1>5, <1>6, <1>7, <1>10 DEF Past, StreamInv
<1>11. CASE InStep(Unparsed, Sent, connection, messages, AllWhole)
  <2>1. StreamTypeOK
    BY DEF StreamInv
  <2>2. Sent \in Seq(Lengths)
    BY <2>1, SentTyped
  <2>3. CASE whole = Len(lengths) /\ k = Prefix + n
    <3>1. InStep(Unparsed, lengths, connection, messages, TRUE)
      BY <1>11, <2>1, <2>3, SentTyped DEF AllWhole
    <3>2. InStep(Unparsed \o packet, Append(lengths, n), connection, messages, TRUE)
      BY <3>1, <1>1, <1>2, <1>3, <1>8, LaidBehind
    <3>3. AllWhole' = TRUE
      BY <1>5, <1>6, <2>3 DEF AllWhole
    <3>4. Sent' = lengths'
      <4>1. whole' = Len(lengths')
        BY <1>5, <1>6, <2>3
      <4>2. QED
        BY <4>1, <1>6, SubSeqFull DEF Sent
    <3>5. InStep(Unparsed, Sent, connection, messages, AllWhole)'
      BY <1>4, <1>5, <1>9, <2>3, <3>2, <3>3, <3>4
    <3>6. QED
      BY <1>7, <3>5 DEF StreamInv
  <2>4. CASE ~(whole = Len(lengths) /\ k = Prefix + n)
    <3>1. whole' = whole /\ whole < Len(lengths')
      BY <1>1, <1>5, <1>6, <2>4
    <3>2. Sent' = Sent
      <4>1. /\ Sent' \in Seq(Lengths) /\ Len(Sent') = whole /\ \A m \in 1 .. whole : Sent'[m] = lengths'[m]
        <5>1. Sent' = SubSeq(lengths', 1, whole) /\ whole \in 0 .. Len(lengths')
          BY <1>1, <1>6, <3>1 DEF Sent
        <5>2. QED
          BY <5>1, <1>6
      <4>2. Len(Sent) = whole /\ \A m \in 1 .. whole : Sent[m] = lengths[m] /\ m \in 1 .. Len(lengths)
        BY <1>1, <2>1, SentTyped
      <4>3. \A m \in 1 .. whole : Sent'[m] = Sent[m]
        BY <4>1, <4>2, <1>6
      <4>4. QED
        BY <4>1, <4>2, <4>3, <2>2, SeqEqual
    <3>3. AllWhole' = FALSE
      BY <1>6, <3>1 DEF AllWhole
    <3>4. InStep(Unparsed \o part, Sent, connection, messages, FALSE)
      BY <1>1, <1>4, <1>8, <1>11, <2>2, LaidMore DEF AllWhole
    <3>5. InStep(Unparsed, Sent, connection, messages, AllWhole)'
      BY <1>5, <1>9, <3>2, <3>3, <3>4
    <3>6. QED
      BY <1>7, <3>5 DEF StreamInv
  <2>5. QED
    BY <2>3, <2>4
<1>12. QED
  BY <1>5, <1>7, <1>10, <1>11 DEF StreamInv

LEMMA RecvStep ==
  ASSUME StreamInv, NEW n \in 1 .. Len(pipe), Recv(n)
  PROVE  StreamInv'
<1>1. Len(pipe) \in Nat /\ n \in 0 .. Len(pipe) /\ pipe \in Seq(Bytes) /\ leftover \in Seq(Bytes)
  BY DEF StreamInv, StreamTypeOK
<1>2. /\ SubSeq(pipe, 1, n) \in Seq(Bytes) /\ SubSeq(pipe, n + 1, Len(pipe)) \in Seq(Bytes)
      /\ buffer' \in Seq(Bytes)
  BY <1>1 DEF Recv
<1>3. StreamTypeOK'
  <2>1. Len(buffer') \in Nat /\ << >> \in Seq(Bytes)
    BY <1>2
  <2>2. QED
    BY <1>2, <2>1 DEF StreamInv, StreamTypeOK, Recv
<1>4. Unparsed' = Unparsed
  <2>1. Rest' = SubSeq(buffer', 1, Len(buffer'))
    BY DEF Recv, Rest
  <2>2. Rest' = leftover \o SubSeq(pipe, 1, n)
    BY <2>1, <1>2, SubSeqFull DEF Recv
  <2>3. QED
    <3>1. Rest = leftover
      BY DEF Recv, Rest
    <3>2. Unparsed' = (leftover \o SubSeq(pipe, 1, n)) \o SubSeq(pipe, n + 1, Len(pipe))
      BY <2>2 DEF Recv, Unparsed
    <3>3. QED
      BY <3>1, <3>2, <1>1, CutAndJoined DEF Unparsed
<1>5. QED
  BY <1>3, <1>4, Unchanged DEF Recv

LEMMA KeepLeftoverStep ==
  ASSUME StreamInv, NEW size \in Sizes, KeepLeftover(size)
  PROVE  StreamInv'
<1>1. current \in Nat /\ current <= Len(buffer) /\ buffer \in Seq(Bytes) /\ Len(buffer) \in Nat
  BY DEF StreamInv, StreamTypeOK
<1>2. leftover' \in Seq(Bytes) /\ << >> \in Seq(Bytes) /\ Len(<< >>) = 0
  BY <1>1, EmptySeq DEF KeepLeftover
<1>3. StreamTypeOK'
  <2>1. 0 \in 0 .. Len(<< >>)
    BY <1>2
  <2>2. QED
    BY <1>2, <2>1 DEF StreamInv, StreamTypeOK, KeepLeftover
<1>4. Unparsed' = Unparsed
  BY DEF KeepLeftover, Unparsed, Rest
<1>5. QED
  BY <1>3, <1>4, Unchanged DEF KeepLeftover

LEMMA LeaveLoopStep ==
  ASSUME StreamInv, LeaveLoop
  PROVE  StreamInv'
<1>1. << >> \in Seq(Bytes) /\ Len(<< >>) = 0
  BY EmptySeq
<1>2. StreamTypeOK'
  <2>1. 0 \in 0 .. Len(<< >>)
    BY <1>1
  <2>2. QED
    BY <1>1, <2>1 DEF StreamInv, StreamTypeOK, LeaveLoop
<1>3. SubSeq(buffer, current + 1, Len(buffer)) = << >>
  BY SubSeqEmpty DEF StreamInv, StreamTypeOK, LeaveLoop
<1>4. Unparsed' = Unparsed
  BY <1>3 DEF StreamInv, StreamTypeOK, LeaveLoop, Unparsed, Rest
<1>5. QED
  BY <1>2, <1>4, Unchanged DEF LeaveLoop

LEMMA ReconnectStep ==
  ASSUME StreamInv, Reconnect
  PROVE  StreamInv'
<1>1. << >> \in Seq(Bytes) /\ << >> \in Seq(Lengths) /\ << >> \in Seq((1 .. MaxPackets) \cup {Garbled})
  BY EmptySeq
<1>2. connection + 1 \in 1 .. MaxConnections
  BY FramingAssumption DEF StreamInv, StreamTypeOK, Reconnect
<1>3. StreamTypeOK'
  <2>1. cut' \in BOOLEAN
    BY DEF Reconnect
  <2>2. QED
    BY <1>1, <1>2, <2>1 DEF StreamInv, StreamTypeOK, Reconnect
<1>4. ASSUME ~cut' PROVE Unparsed' = << >>
  <2>1. leftover = << >>
    BY <1>4 DEF Reconnect
  <2>2. << >> \o << >> = << >>
    BY <1>1, ConcatEmptySeq
  <2>3. QED
    BY <2>1, <2>2 DEF Reconnect, Unparsed, Rest
<1>5. AllWhole' = TRUE /\ Sent' = << >> /\ messages' = << >>
  BY DEF Reconnect, AllWhole, Sent
<1>6. InStep(<< >>, << >>, connection', << >>, TRUE)
  BY NothingLaid
<1>7. QED
  BY <1>3, <1>4, <1>5, <1>6 DEF StreamInv

(* The packet at iCurrentPacket is the first of those not parsed yet.  If  *)
(* all of it has arrived the prefix is found and its length is right, and  *)
(* what is parsed is that packet; if not, no number makes it fit.          *)
LEMMA ParseStep ==
  ASSUME StreamInv, NEW size \in Sizes, parsing, current < Len(buffer), ParsePacket(size)
  PROVE  StreamInv'
<1>1. /\ current \in Nat /\ Len(buffer) \in Nat /\ buffer \in Seq(Bytes) /\ pipe \in Seq(Bytes)
      /\ lengths \in Seq(Lengths) /\ Len(lengths) \in Nat /\ messages \in Seq((1 .. MaxPackets) \cup {Garbled})
      /\ Len(messages) \in Nat
  BY DEF StreamInv, StreamTypeOK
<1>2. size \in Nat /\ Prefix \in Nat \ {0} /\ Lengths \subseteq Nat
  <2>1. \A i \in 1 .. Len(lengths) : lengths[i] \in Lengths
    BY <1>1
  <2>2. buffer[current + 1] \in Bytes
    <3>1. current + 1 \in 1 .. Len(buffer)
      BY <1>1
    <3>2. QED
      BY <3>1, <1>1
  <2>3. buffer[current + 1][2] \in Nat /\ buffer[current + 1][2] >= 1
    BY <2>2 DEF Bytes
  <2>4. size \in Lengths
    <3>1. CASE buffer[current + 1][2] <= Len(lengths)
      <4>1. buffer[current + 1][2] \in 1 .. Len(lengths)
        BY <3>1, <2>3, <1>1
      <4>2. QED
        BY <4>1, <2>1 DEF Sizes
    <3>2. CASE ~ (buffer[current + 1][2] <= Len(lengths))
      BY <3>2 DEF Sizes
    <3>3. QED
      BY <3>1, <3>2
  <2>5. QED
    BY <2>4, FramingAssumption
<1> DEFINE d == Prefix + size
           body == SubSeq(buffer, current + 1, current + Prefix + size)
<1>3. d \in Nat /\ d >= 1 /\ current + d <= Len(buffer) /\ current + Prefix + size = current + d
  BY <1>1, <1>2 DEF ParsePacket, Fits
<1>4. /\ body \in Seq(Bytes) /\ Len(body) = d
      /\ \A k \in 1 .. d : body[k] = buffer[current + k]
  <2>1. PICK lb \in Nat : lb = Len(buffer)
    BY <1>1
  <2>2. PICK x \in Nat : x = current + 1
    BY <1>1
  <2>3. PICK y \in Nat : y = current + d
    BY <1>1, <1>3
  <2>4. x \in Int /\ y \in Int /\ x <= y /\ y - x + 1 = d /\ \A k \in 1 .. d : x + k - 1 = current + k
    BY <1>1, <1>3, <2>2, <2>3
  <2>5. body = SubSeq(buffer, x, y)
    BY <1>3, <2>2, <2>3
  <2>6. \A i \in x .. y : buffer[i] \in Bytes
    BY <1>1, <1>3, <2>1, <2>2, <2>3
  <2>7. SubSeq(buffer, x, y) \in Seq(Bytes)
    BY <2>4, <2>6, SubSeqProperties
  <2>8. Len(SubSeq(buffer, x, y)) = IF x <= y THEN y - x + 1 ELSE 0
    BY <2>4, <2>6, SubSeqProperties
  <2>9. \A k \in 1 .. y - x + 1 : SubSeq(buffer, x, y)[k] = buffer[x + k - 1]
    BY <2>4, <2>6, SubSeqProperties
  <2>10. QED
    BY <2>4, <2>5, <2>7, <2>8, <2>9
<1>5. Parsed(size) \in (1 .. MaxPackets) \cup {Garbled}
  <2>1. body[1] \in Bytes
    BY <1>3, <1>4
  <2>2. QED
    BY <2>1 DEF Parsed, Bytes
<1>6. StreamTypeOK'
  <2>1. messages' \in Seq((1 .. MaxPackets) \cup {Garbled})
    BY <1>1, <1>5, AppendProperties DEF ParsePacket
  <2>2. current' \in 0 .. Len(buffer)
    BY <1>1, <1>3 DEF ParsePacket
  <2>3. QED
    BY <2>1, <2>2 DEF StreamInv, StreamTypeOK, ParsePacket
<1>7. Unparsed = From(buffer, current, pipe) /\ Unparsed' = From(buffer, current + d, pipe)
  BY <1>3 DEF ParsePacket, Unparsed, Rest, From
<1> HIDE DEF d, body
<1>8. /\ Shifted(Unparsed, Unparsed', d)
      /\ Len(Unparsed) \in Nat /\ Len(Unparsed') \in Nat /\ Len(Unparsed') = Len(Unparsed) - d
      /\ Len(Unparsed) >= Len(buffer) - current
      /\ \A k \in 1 .. Len(buffer) - current : Unparsed[k] = buffer[current + k]
      /\ \A k \in 1 .. Len(Unparsed') : Unparsed'[k] = Unparsed[d + k]
  <2>1. buffer \in Seq(Bytes) /\ pipe \in Seq(Bytes) /\ current \in Nat /\ d \in Nat
        /\ current + d <= Len(buffer)
    BY <1>1, <1>3
  <2>5. PICK e \in Nat : e = current + d /\ e <= Len(buffer)
    BY <2>1
  <2> DEFINE old == From(buffer, current, pipe)  new == From(buffer, e, pipe)
  <2>2. Continues(buffer, current, old) /\ Shifted(old, new, d)
    BY ONLY <2>1, <2>5, Behind
  <2> HIDE DEF old, new
  <2>3. Unparsed = old /\ Unparsed' = new
    BY <1>7, <2>5 DEF old, new
  <2>4. QED
    BY <2>2, <2>3 DEF Shifted, Continues
<1>20. PICK sizes \in Seq(Lengths) : sizes = Sent
  BY SentTyped DEF StreamInv
<1>21. /\ whole \in Nat /\ whole <= Len(lengths) /\ Len(sizes) = whole
       /\ \A m \in 1 .. whole : sizes[m] = lengths[m]
  BY <1>20, SentTyped DEF StreamInv
<1>22. PICK exact \in BOOLEAN : exact = AllWhole
  BY DEF AllWhole
<1>23. Sent' = sizes /\ AllWhole' = exact /\ UNCHANGED <<connection, whole, lengths, cut>>
  BY <1>20, <1>22 DEF ParsePacket, Sent, AllWhole
<1>24. /\ messages' = Append(messages, Parsed(size)) /\ Len(messages') = Len(messages) + 1
       /\ \A i \in 1 .. Len(messages) : messages'[i] = messages[i]
       /\ messages'[Len(messages) + 1] = Parsed(size)
  BY <1>1, <1>5, AppendProperties DEF ParsePacket
<1>25. ASSUME Past PROVE Past'
  <2>1. \A i \in 1 .. whole : i \in 1 .. Len(messages)
    BY <1>1, <1>21, <1>25 DEF Past
  <2>2. QED
    BY <1>1, <1>21, <1>23, <1>24, <1>25, <2>1 DEF Past
<1>26. ASSUME InStep(Unparsed, sizes, connection, messages, exact), Len(messages) = whole, ~exact
       PROVE  Past'
  <2>1. \A i \in 1 .. whole : messages[i] = i
    BY <1>26 DEF InStep
  <2>2. whole < Len(lengths)
    <3>1. ~AllWhole
      BY <1>22, <1>26
    <3>2. QED
      BY <3>1, <1>1, <1>21 DEF AllWhole
  <2>3. QED
    BY <1>21, <1>23, <1>24, <1>26, <2>1, <2>2 DEF Past
<1>9. ASSUME InStep(Unparsed, sizes, connection, messages, exact), exact \/ Len(messages) # whole
      PROVE  InStep(Unparsed', sizes, connection, messages', exact)
  <2>1. InStep(Unparsed, sizes, connection, messages, exact)
    BY <1>9
  <2>2. PICK f \in Nat : f = Len(messages) + 1
    BY <1>1
  <2>3. IsLaid(Unparsed, sizes, connection, f, exact)
    BY <2>1, <2>2 DEF InStep
  <2>4. /\ f \in 1 .. Len(sizes) + 1 /\ (exact \/ f <= Len(sizes))
        /\ \A i \in 1 .. Len(messages) : messages[i] = i
    <3>1. Len(messages) <= Len(sizes) /\ \A i \in 1 .. Len(messages) : messages[i] = i
      BY <2>1 DEF InStep
    <3>2. QED
      BY <1>1, <1>9, <1>21, <2>2, <3>1
  <2>5. Len(Unparsed) > 0
    BY <1>1, <1>8
  <2>6. /\ f \in 1 .. Len(lengths) /\ lengths[f] \in Lengths /\ lengths[f] \in Nat
        /\ \A k \in 1 .. Prefix + lengths[f] : Unparsed[k] = <<connection, f, k>>
    <3>1. Len(Unparsed) \in Nat /\ sizes \in Seq(Lengths) /\ exact \in BOOLEAN
          /\ f \in 1 .. Len(sizes) + 1 /\ (exact \/ f <= Len(sizes))
      BY <1>8, <2>4
    <3>2. Begins(Unparsed, sizes, connection, f)
      BY ONLY <3>1, <2>3, <2>5, FirstPacket
    <3>3. f \in 1 .. whole /\ f \in 1 .. Len(lengths) /\ sizes[f] = lengths[f]
      BY <3>2, <1>1, <1>21 DEF Begins
    <3>4. QED
      BY <3>2, <3>3 DEF Begins
  <2>14. f \in 1 .. Len(sizes) /\ f <= Len(sizes) /\ sizes[f] = lengths[f]
    <3>1. Len(Unparsed) \in Nat /\ sizes \in Seq(Lengths) /\ exact \in BOOLEAN
          /\ f \in 1 .. Len(sizes) + 1 /\ (exact \/ f <= Len(sizes))
      BY <1>8, <2>4
    <3>2. Begins(Unparsed, sizes, connection, f)
      BY ONLY <3>1, <2>3, <2>5, FirstPacket
    <3>3. QED
      BY <3>2, <1>21 DEF Begins
  <2>7. \A k \in 1 .. d : k \in 1 .. Len(buffer) - current /\ Unparsed[k] = buffer[current + k]
    <3>1. \A k \in 1 .. d : k \in 1 .. Len(buffer) - current
      BY <1>1, <1>3
    <3>2. \A k \in 1 .. Len(buffer) - current : Unparsed[k] = buffer[current + k]
      BY <1>8
    <3>3. QED
      BY <3>1, <3>2
  <2>8. size = lengths[f]
    <3>1. Prefix <= d /\ 1 \in 1 .. Prefix /\ current + Prefix <= Len(buffer)
      BY <1>1, <1>2, <1>3 DEF d
    <3>2. \A k \in 1 .. Prefix : buffer[current + k] = <<connection, f, k>>
      <4>1. \A k \in 1 .. Prefix : k \in 1 .. d /\ k \in 1 .. Prefix + lengths[f]
        BY <1>2, <1>3, <3>1, <2>6
      <4>2. QED
        BY <4>1, <2>6, <2>7
    <3>3. buffer[current + 1][2] = f
      BY <3>1, <3>2
    <3>4. Sizes = {lengths[f]}
      BY <3>1, <3>2, <3>3, <2>6, <1>1 DEF Sizes, Byte
    <3>5. QED
      BY <3>4
  <2>9. body = Written(f, lengths[f])
    <3>1. Written(f, lengths[f]) = [k \in 1 .. d |-> <<connection, f, k>>]
      BY <2>8 DEF Written, Byte, d
    <3>2. \A k \in 1 .. d : body[k] = <<connection, f, k>>
      BY <1>4, <2>6, <2>7, <2>8 DEF d
    <3>3. DOMAIN body = 1 .. d /\ body = [k \in DOMAIN body |-> body[k]]
      BY <1>4, <1>3
    <3>4. QED
      BY <3>1, <3>2, <3>3
  <2>10. Parsed(size) = f
    <3>1. 1 \in 1 .. d
      BY <1>3
    <3>2. body[1] = <<connection, f, 1>>
      BY <1>4, <3>1, <2>6, <2>7, <2>8 DEF d
    <3>3. body[1][2] = f /\ f <= Len(lengths)
      BY <3>2, <2>6, <1>1
    <3>4. QED
      BY <3>3, <2>9 DEF Parsed, body
  <2>11. /\ Len(messages') = f /\ \A i \in 1 .. Len(messages') : messages'[i] = i
         /\ Len(messages') <= Len(sizes)
    <3>1. messages' = Append(messages, f)
      BY <2>10 DEF ParsePacket
    <3>2. /\ Len(messages') = Len(messages) + 1
          /\ \A i \in 1 .. Len(messages) : messages'[i] = messages[i]
          /\ messages'[Len(messages) + 1] = f
      BY <3>1, <1>1, <1>5, <2>10, AppendProperties
    <3>3. \A i \in 1 .. f : i \in 1 .. Len(messages) \/ i = Len(messages) + 1
      BY <1>1, <2>2
    <3>4. Len(messages') = f /\ f <= Len(sizes)
      <4>1. Len(messages') = f
        BY <3>2, <2>2, <1>1
      <4>2. QED
        BY <4>1, <2>14
    <3>5. ASSUME NEW i \in 1 .. f PROVE messages'[i] = i
      BY <3>2, <3>3, <2>2, <2>4
    <3>6. QED
      BY <3>4, <3>5
  <2>12. IsLaid(Unparsed', sizes, connection, f + 1, exact)
    <3>1. d = Prefix + sizes[f]
      BY <2>8, <2>14 DEF d
    <3>2. d \in Nat /\ sizes \in Seq(Lengths) /\ f \in 1 .. Len(sizes) /\ exact \in BOOLEAN
      BY <1>3, <2>14
    <3>3. Shifted(Unparsed, Unparsed', d)
      BY <1>8
    <3>4. QED
      BY ONLY <3>1, <3>2, <3>3, <2>3, FirstParsed
  <2>13. QED
    BY <2>11, <2>12 DEF InStep
<1>10. ASSUME ~cut PROVE InStep(Unparsed', sizes, connection, messages', exact) \/ Past'
  BY <1>9, <1>10, <1>20, <1>22, <1>25, <1>26 DEF StreamInv
<1>11. QED
  BY <1>6, <1>10, <1>23 DEF StreamInv

LEMMA NextStreamInv == StreamInv /\ [StreamNext]_streamVars => StreamInv'
<1> SUFFICES ASSUME StreamInv, [StreamNext]_streamVars PROVE StreamInv'
  OBVIOUS
<1>1. CASE UNCHANGED streamVars
  BY <1>1 DEF streamVars, StreamInv, StreamTypeOK, Unparsed, Rest, Bytes, Sent, AllWhole, Past
<1>2. ASSUME NEW n \in Lengths, NEW k \in 1 .. Prefix + n, Send(n, k) PROVE StreamInv'
  BY <1>2, SendStep
<1>3. CASE Pump
  BY <1>1, <1>3, RecvStep, ParseStep, KeepLeftoverStep, LeaveLoopStep DEF Pump, RecvNothing
<1>4. CASE Reconnect
  BY <1>4, ReconnectStep
<1>5. QED
  BY <1>1, <1>2, <1>3, <1>4 DEF StreamNext

LEMMA StreamInvHolds == StreamSpec => []StreamInv
<1>1. QED
  BY InitStreamInv, NextStreamInv, PTL DEF StreamSpec

(* The variables of the stream keep their types.                           *)
THEOREM StreamTypeCorrect == StreamSpec => []StreamTypeOK
<1>1. StreamInv => StreamTypeOK
  BY DEF StreamInv
<1>2. QED
  BY <1>1, StreamInvHolds, PTL

(* However recv cuts the stream, and whatever the sizes of prefix, packets *)
(* and buffer: the packets parsed are those sent, whole and in order, up   *)
(* to the first of which send took only a part, as long as no connection   *)
(* has ended in the middle of one.                                         *)
THEOREM PacketsAsSentHolds == StreamSpec => []PacketsAsSent
<1>1. StreamInv => PacketsAsSent
  <2> SUFFICES ASSUME StreamInv, ~cut
               PROVE  /\ \A i \in 1 .. Len(messages) : i <= whole => messages[i] = i
                      /\ AllWhole => Len(messages) <= whole
    BY DEF PacketsAsSent, AllWhole
  <2>1. Len(Sent) = whole /\ whole \in Nat /\ Len(lengths) \in Nat
    BY SentTyped DEF StreamInv, StreamTypeOK
  <2>2. CASE InStep(Unparsed, Sent, connection, messages, AllWhole)
    BY <2>1, <2>2 DEF InStep
  <2>3. CASE Past
    BY <2>1, <2>3 DEF Past, AllWhole
  <2>4. QED
    BY <2>2, <2>3 DEF StreamInv
<1>2. QED
  BY <1>1, StreamInvHolds, PTL
=============================================================================
