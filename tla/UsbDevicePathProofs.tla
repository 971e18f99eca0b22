------------------------- MODULE UsbDevicePathProofs -------------------------
(***************************************************************************)
(* What UsbDevicePath and UsbDescriptor promise, proved for layouts of     *)
(* every length a place of which is a byte.  On any device the walk may go *)
(* anywhere, but what it copies are bytes, and an endpoint has the         *)
(* interface it is listed under: this is all the way to the application    *)
(* and back needs.  On a sound device it meets one descriptor after the    *)
(* other: so it stays inside the bytes, and the configuration it ends with *)
(* is the layout's.                                                        *)
(***************************************************************************)
EXTENDS UsbDevicePath, SequenceTheorems, FiniteSetTheorems, WellFoundedInduction, TLAPS

Octet == 0 .. 255

-----------------------------------------------------------------------------
(* Lists of lists. *)

(* Among numbers there is a smallest: what the inductions over lists use. *)
LEMMA SmallestNumber ==
    ASSUME NEW T \in SUBSET Nat, T # {}
    PROVE  \E x \in T : \A y \in T : x <= y
<1>1. IsWellFoundedOn(OpToRel(<, Nat), Nat)
  BY NatLessThanWellFounded
<1>2. PICK x \in T : \A y \in T : <<y, x>> \notin OpToRel(<, Nat)
  BY <1>1, WFMin
<1>3. \A y \in T : ~(y < x)
  BY <1>2 DEF OpToRel
<1>4. QED
  BY <1>3

(* g[i] is the concatenation of the first i sequences of s. *)
ArePrefixes(g, s, n) == \A i \in 1 .. n : g[i] = IF i = 1 THEN s[i] ELSE g[i - 1] \o s[i]

(* There are such prefixes, ... *)
LEMMA PrefixesExist ==
    ASSUME NEW S, NEW s \in Seq(Seq(S)), NEW n \in 0 .. Len(s)
    PROVE  \E g \in [1 .. n -> Seq(S)] : ArePrefixes(g, s, n)
<1> DEFINE Good(m) == \E g \in [1 .. m -> Seq(S)] : ArePrefixes(g, s, m)
           Bad == {m \in 0 .. Len(s) : ~Good(m)}
<1>1. Len(s) \in Nat /\ DOMAIN s = 1 .. Len(s)
  OBVIOUS
<1> SUFFICES ASSUME Bad # {} PROVE FALSE
  OBVIOUS
<1>2. PICK m \in Bad : \A k \in Bad : m <= k
  <2>1. Bad \in SUBSET Nat
    BY <1>1
  <2>2. QED
    BY <2>1, SmallestNumber
<1>3. m \in Nat /\ m <= Len(s) /\ ~Good(m)
  BY <1>1, <1>2
<1>4. m # 0
  <2>1. [i \in 1 .. 0 |-> s[i]] \in [1 .. 0 -> Seq(S)]
    OBVIOUS
  <2>2. ArePrefixes([i \in 1 .. 0 |-> s[i]], s, 0)
    BY DEF ArePrefixes
  <2>2a. Good(0)
    BY <2>1, <2>2
  <2>3. QED
    BY <1>3, <2>2a
<1>5. m - 1 \in 0 .. Len(s) /\ Good(m - 1)
  <2>1. m - 1 \in 0 .. Len(s) /\ ~(m <= m - 1)
    BY <1>1, <1>3, <1>4
  <2>2. m - 1 \notin Bad
    BY <1>2, <2>1
  <2>3. QED
    BY <2>1, <2>2
<1>6. PICK g \in [1 .. m - 1 -> Seq(S)] : ArePrefixes(g, s, m - 1)
  BY <1>5
<1> DEFINE h == [i \in 1 .. m |-> IF i = 1 THEN s[i] ELSE g[i - 1] \o s[i]]
<1>7. \A i \in 1 .. m : s[i] \in Seq(S)
  BY <1>1, <1>3
<1>8. \A i \in 1 .. m : i # 1 => i - 1 \in 1 .. m - 1
  BY <1>3
<1>9. \A i \in 1 .. m : i # 1 => g[i - 1] \in Seq(S)
  BY <1>6, <1>8
<1>10. h \in [1 .. m -> Seq(S)]
  BY <1>7, <1>9, ConcatProperties
<1>11. \A i \in 1 .. m - 1 : i \in 1 .. m /\ h[i] = g[i]
  <2>1. \A i \in 1 .. m - 1 : i \in 1 .. m
    BY <1>3
  <2>2. \A i \in 1 .. m - 1 : g[i] = IF i = 1 THEN s[i] ELSE g[i - 1] \o s[i]
    BY <1>6 DEF ArePrefixes
  <2>3. \A i \in 1 .. m : h[i] = IF i = 1 THEN s[i] ELSE g[i - 1] \o s[i]
    OBVIOUS
  <2>4. QED
    BY <2>1, <2>2, <2>3
<1>12. ArePrefixes(h, s, m)
  BY <1>8, <1>11 DEF ArePrefixes
<1>13. QED
  BY <1>3, <1>10, <1>12

(* ... FlattenSeq is the last of them, ... *)
LEMMA FlattenSeqIsPrefix ==
    ASSUME NEW S, NEW s \in Seq(Seq(S)), Len(s) # 0
    PROVE  \E g : ArePrefixes(g, s, Len(s)) /\ FlattenSeq(s) = g[Len(s)]
<1> DEFINE n == Len(s)
           Longer(g) == [i \in 1 .. n |-> IF i = 1 THEN s[i] ELSE g[i - 1] \o s[i]]
           f == CHOOSE g : g = Longer(g)
<1>1. n \in Nat
  OBVIOUS
<1>2. PICK g \in [1 .. n -> Seq(S)] : ArePrefixes(g, s, n)
  <2>1. n \in 0 .. Len(s)
    BY <1>1
  <2>2. QED
    BY <2>1, PrefixesExist
<1>3. g = Longer(g)
  BY <1>2 DEF ArePrefixes
<1>4. f = Longer(f)
  BY <1>3
<1>5. FlattenSeq(s) = f[n]
  BY DEF FlattenSeq
<1> HIDE DEF f
<1>6. ArePrefixes(f, s, n)
  BY <1>4 DEF ArePrefixes
<1>7. QED
  BY <1>5, <1>6

(* ... and all are sequences. *)
LEMMA PrefixesType ==
    ASSUME NEW S, NEW s \in Seq(Seq(S)), NEW g, NEW n \in 0 .. Len(s), ArePrefixes(g, s, n)
    PROVE  \A i \in 1 .. n : g[i] \in Seq(S)
<1> DEFINE Bad == {m \in 1 .. n : g[m] \notin Seq(S)}
<1>1. Len(s) \in Nat /\ DOMAIN s = 1 .. Len(s) /\ n \in Nat /\ n <= Len(s)
  OBVIOUS
<1> SUFFICES ASSUME Bad # {} PROVE FALSE
  OBVIOUS
<1>2. PICK m \in Bad : \A k \in Bad : m <= k
  <2>1. Bad \in SUBSET Nat
    BY <1>1
  <2>2. QED
    BY <2>1, SmallestNumber
<1>3. m \in 1 .. n /\ g[m] \notin Seq(S) /\ s[m] \in Seq(S)
  BY <1>1, <1>2
<1>4. CASE m = 1
  BY <1>3, <1>4 DEF ArePrefixes
<1>5. CASE m # 1
  <2>1. m - 1 \in 1 .. n /\ ~(m <= m - 1)
    BY <1>1, <1>3, <1>5
  <2>2. g[m - 1] \in Seq(S)
    BY <1>2, <2>1
  <2>3. g[m] = g[m - 1] \o s[m]
    BY <1>3, <1>5 DEF ArePrefixes
  <2>4. QED
    BY <1>3, <2>2, <2>3, ConcatProperties
<1>6. QED
  BY <1>4, <1>5

(* What FlattenSeq returns is a sequence of the items. *)
LEMMA FlattenSeqType ==
    ASSUME NEW S, NEW s \in Seq(Seq(S))
    PROVE  FlattenSeq(s) \in Seq(S)
<1>1. CASE Len(s) = 0
  BY <1>1 DEF FlattenSeq
<1>2. CASE Len(s) # 0
  BY <1>2, FlattenSeqIsPrefix, PrefixesType
<1>3. QED
  BY <1>1, <1>2

-----------------------------------------------------------------------------
(* The bytes of the device. *)

(* A sequence whose entries are octets. *)
LEMMA OctetsByEntry ==
    ASSUME NEW s, NEW n \in Nat, s \in [1 .. n -> Octet]
    PROVE  s \in Seq(Octet)
OBVIOUS

(* The configuration descriptor that the device sends. *)
LEMMA ConfigOctets ==
    ASSUME NEW n \in Octet
    PROVE  ConfigBytes(n) \in Seq(Octet)
BY DEF ConfigBytes, Octet, CONFIG_SIZE, DESCRIPTOR_TYPE_CONFIG

(* The device descriptor that the device sends. *)
LEMMA DeviceOctets ==
    ASSUME NEW size \in Octet, NEW configs \in Octet
    PROVE  DeviceBytes(size, configs) \in Seq(Octet)
BY DEF DeviceBytes, Octet

(* The descriptor at a place. *)
LEMMA PlaceOctets ==
    ASSUME NEW m \in 0 .. 127, NEW l \in [1 .. m -> Standard \cup Faults], NEW k \in 1 .. m
    PROVE  Bytes(l, k) \in Seq(Octet)
<1>1. k \in Nat /\ k - 1 \in Octet /\ k <= 127
  BY DEF Octet
<1>2. l[k] \in Settings \cup {"E", "X", "C", "H", "Z", "S"}
  BY DEF Standard, Faults, Settings
<1>3. CASE l[k] \in Settings
  <2>1. Bytes(l, k) = <<9, 4, Id(l[k]), Alt(l[k]), Eps(l[k]), 255, 0, 0, k - 1>>
    BY <1>3 DEF Bytes, Settings, INTERFACE_SIZE, DESCRIPTOR_TYPE_INTERFACE
  <2>2. Id(l[k]) \in Octet /\ Alt(l[k]) \in Octet /\ Eps(l[k]) \in Octet
    BY DEF Id, Alt, Eps, Octet
  <2>3. 9 \in Octet /\ 4 \in Octet /\ 255 \in Octet /\ 0 \in Octet
    BY DEF Octet
  <2>4. QED
    BY <1>1, <2>1, <2>2, <2>3
<1>4. CASE l[k] = "E"
  <2>1. Address(k) \in Octet
    BY <1>1 DEF Address, Octet
  <2>2. Bytes(l, k) = <<7, 5, Address(k), 2, 64, 0, 0>>
    BY <1>4 DEF Bytes, Settings, ENDPOINT_SIZE, DESCRIPTOR_TYPE_ENDPOINT
  <2>3. QED
    BY <2>1, <2>2 DEF Octet
<1>5. CASE l[k] = "C"
  <2>1. Bytes(l, k) = ConfigBytes(1)
    BY <1>5 DEF Bytes, Settings
  <2>2. QED
    BY <2>1, ConfigOctets DEF Octet
<1>6. CASE l[k] = "X"
  BY <1>6 DEF Bytes, Settings, Octet
<1>7. CASE l[k] = "H"
  BY <1>7 DEF Bytes, Settings, Octet
<1>8. CASE l[k] = "Z"
  BY <1>8 DEF Bytes, Settings, Octet
<1>9. CASE l[k] = "S"
  BY <1>9 DEF Bytes, Settings, Octet, DESCRIPTOR_TYPE_INTERFACE
<1>10. QED
  BY <1>2, <1>3, <1>4, <1>5, <1>6, <1>7, <1>8, <1>9

(* The whole descriptor of a layout. *)
LEMMA RawOctets ==
    ASSUME NEW m \in 0 .. 127, NEW l \in [1 .. m -> Standard \cup Faults],
           NEW interfaces \in Octet, NEW configs \in Octet
    PROVE  Raw(l, interfaces, configs) \in Seq(Octet)
<1> DEFINE parts == [k \in DOMAIN l |-> Bytes(l, k)]
<1>1. parts \in [1 .. m -> Seq(Octet)]
  BY PlaceOctets
<1>2. parts \in Seq(Seq(Octet))
  BY <1>1
<1>3. FlattenSeq(parts) \in Seq(Octet)
  BY <1>2, FlattenSeqType
<1>4. ConfigBytes(interfaces) \in Seq(Octet)
  BY ConfigOctets
<1>5. DEVICE_SIZE \in Octet
  BY DEF DEVICE_SIZE, Octet
<1>6. DeviceBytes(DEVICE_SIZE, configs) \in Seq(Octet)
  BY <1>5, DeviceOctets
<1> HIDE DEF parts
<1>7. Raw(l, interfaces, configs) = DeviceBytes(DEVICE_SIZE, configs) \o ConfigBytes(interfaces) \o FlattenSeq(parts)
  BY DEF Raw, parts
<1>8. DeviceBytes(DEVICE_SIZE, configs) \o ConfigBytes(interfaces) \in Seq(Octet)
  BY <1>4, <1>6, ConcatProperties
<1>9. QED
  BY <1>3, <1>7, <1>8, ConcatProperties

(* There are two interfaces at most. *)
LEMMA InterfacesAreFew ==
    ASSUME NEW l
    PROVE  Interfaces(l) \in Octet
<1> DEFINE ids == {Id(l[k]) : k \in {j \in DOMAIN l : First(l, j) /\ l[j] \in Settings}}
<1>1. ids \subseteq {0, 130}
  BY DEF Id
<1>2. IsFiniteSet({0}) /\ Cardinality({0}) = 1
  BY FS_Singleton
<1>3. IsFiniteSet({0, 130}) /\ Cardinality({0, 130}) <= 2
  <2>1. {0, 130} = {0} \cup {130}
    OBVIOUS
  <2>2. /\ IsFiniteSet({0} \cup {130})
        /\ Cardinality({0} \cup {130}) = IF 130 \in {0} THEN Cardinality({0}) ELSE Cardinality({0}) + 1
    BY <1>2, FS_AddElement
  <2>3. QED
    BY <1>2, <2>1, <2>2
<1>4. Cardinality({0, 130}) \in Nat
  BY <1>3, FS_CardinalityType
<1> HIDE DEF ids
<1>5. IsFiniteSet(ids) /\ Cardinality(ids) <= Cardinality({0, 130})
  BY <1>1, <1>3, FS_Subset
<1>6. Cardinality(ids) \in Nat
  BY <1>5, FS_CardinalityType
<1>7. Interfaces(l) = Cardinality(ids)
  BY DEF Interfaces, ids
<1>8. QED
  BY <1>3, <1>4, <1>5, <1>6, <1>7 DEF Octet

(* A descriptor that is cut is one of octets still. *)
LEMMA CutOctets ==
    ASSUME NEW s \in Seq(Octet), NEW n \in 0 .. Len(s) - 1
    PROVE  SubSeq(s, 1, n) \in Seq(Octet)
<1>1. Len(s) \in Nat /\ DOMAIN s = 1 .. Len(s)
  OBVIOUS
<1>2. \A i \in 1 .. n : i \in 1 .. Len(s) /\ s[i] \in Octet
  BY <1>1
<1>3. QED
  BY <1>1, <1>2

-----------------------------------------------------------------------------
(* The walk. *)

EndpointSet == [address : Octet, interfaceId : Octet]
InterfaceSet ==
    [id : Octet, alternateSetting : Octet, iInterface : Octet, name : Octet, endpoints : Seq(EndpointSet)]
ConfigSet == [present : BOOLEAN, id : Octet, maxPower : Octet, interfaces : Seq(InterfaceSet)]

(* The endpoints of an interface know which one it is. *)
Consistent(f) == \A e \in DOMAIN f.endpoints : f.endpoints[e].interfaceId = f.id

(* What the walk reads are octets, and what it keeps is consistent. *)
WalkType ==
    /\ raw \in Seq(Octet)
    /\ base \in Nat /\ at \in Nat
    /\ interface \in InterfaceSet
    /\ Consistent(interface)
    /\ config \in ConfigSet
    /\ \A i \in DOMAIN config.interfaces : Consistent(config.interfaces[i])

(* An interface that is still looked for has no endpoints. *)
FreshInterface == pc \in {"find interface", "read interface"} => interface.endpoints = <<>>

(* Reading inside the descriptor gives an octet. *)
LEMMA ByteType ==
    ASSUME raw \in Seq(Octet), NEW o \in Nat, o < Len(raw)
    PROVE  Byte(o) \in Octet
<1>1. Len(raw) \in Nat /\ o + 1 \in 1 .. Len(raw)
  OBVIOUS
<1>2. QED
  BY <1>1 DEF Byte

(* A consistent interface stays one with an endpoint more. *)
LEMMA OneEndpointMore ==
    ASSUME NEW f \in InterfaceSet, Consistent(f), NEW a \in Octet
    PROVE  LET g == [f EXCEPT !.endpoints = Append(@, [address |-> a, interfaceId |-> f.id])]
           IN  g \in InterfaceSet /\ Consistent(g)
<1> DEFINE e == [address |-> a, interfaceId |-> f.id]
           es == f.endpoints
           g == [f EXCEPT !.endpoints = Append(es, e)]
<1>1. e \in EndpointSet /\ es \in Seq(EndpointSet) /\ f.id \in Octet
  BY DEF InterfaceSet, EndpointSet
<1>2. Len(es) \in Nat /\ DOMAIN es = 1 .. Len(es)
  BY <1>1
<1>3. /\ Append(es, e) \in Seq(EndpointSet)
      /\ Len(Append(es, e)) = Len(es) + 1
      /\ \A i \in 1 .. Len(es) : Append(es, e)[i] = es[i]
      /\ Append(es, e)[Len(es) + 1] = e
  BY <1>1, AppendProperties
<1>4. DOMAIN Append(es, e) = 1 .. Len(es) + 1
  BY <1>3
<1>5. \A i \in 1 .. Len(es) + 1 : Append(es, e)[i].interfaceId = f.id
  <2> SUFFICES ASSUME NEW i \in 1 .. Len(es) + 1 PROVE Append(es, e)[i].interfaceId = f.id
    OBVIOUS
  <2>1. CASE i \in 1 .. Len(es)
    BY <1>2, <1>3, <2>1 DEF Consistent
  <2>2. CASE i = Len(es) + 1
    BY <1>3, <2>2
  <2>3. QED
    BY <1>2, <2>1, <2>2
<1>6. g \in InterfaceSet /\ g.id = f.id /\ g.endpoints = Append(es, e)
  BY <1>3 DEF InterfaceSet
<1>7. Consistent(g)
  BY <1>4, <1>5, <1>6 DEF Consistent
<1>8. QED
  BY <1>6, <1>7

(* A layout is a function on its places. *)
LEMMA LayoutType ==
    ASSUME NEW n \in 0 .. 127, NEW T \in SUBSET (Standard \cup Faults), NEW l \in SeqOf(T, n)
    PROVE  \E m \in 0 .. 127 : l \in [1 .. m -> Standard \cup Faults]
<1>1. PICK m \in 0 .. n : l \in [1 .. m -> T]
  BY DEF SeqOf
<1>2. m \in 0 .. 127
  OBVIOUS
<1>3. l \in [1 .. m -> Standard \cup Faults]
  BY <1>1
<1>4. QED
  BY <1>2, <1>3

(* The device sends octets. *)
LEMMA WalkInit ==
    ASSUME Init
    PROVE  WalkType
<1>1. base = 0 /\ at = 0 /\ interface = NoInterface /\ config = NoConfig
  BY DEF Init, Start
<1>2. NoInterface \in InterfaceSet /\ NoInterface.endpoints = <<>>
  BY DEF NoInterface, InterfaceSet, Octet
<1>3. NoConfig \in ConfigSet /\ NoConfig.interfaces = <<>>
  BY DEF NoConfig, ConfigSet, Octet
<1>4. 0 \in Octet /\ 1 \in Octet /\ 2 \in Octet /\ DEVICE_SIZE \in Octet /\ DEVICE_SIZE - 1 \in Octet
  BY DEF Octet, DEVICE_SIZE
<1>5. raw \in Seq(Octet)
  <2>1. CASE \E input \in Inputs : layout = input /\ raw = Raw(input.items, input.interfaces, 1)
    <3>1. PICK input \in Inputs : raw = Raw(input.items, input.interfaces, 1)
      BY <2>1
    <3>2. CASE \E l \in SeqOf(Standard \cup Faults, MaxItems), n \in 1 .. 2 :
                  input = [items |-> l, interfaces |-> n, cut |-> FALSE]
      <4>1. PICK l \in SeqOf(Standard \cup Faults, MaxItems), n \in 1 .. 2 :
                  input = [items |-> l, interfaces |-> n, cut |-> FALSE]
        BY <3>2
      <4>2. PICK m \in 0 .. 127 : l \in [1 .. m -> Standard \cup Faults]
        BY DescriptorConstants, LayoutType
      <4>3. raw = Raw(l, n, 1) /\ n \in Octet
        BY <3>1, <4>1 DEF Octet
      <4>4. QED
        BY <1>4, <4>2, <4>3, RawOctets
    <3>3. CASE \E l \in SeqOf(Standard, MaxSound) :
                  input = [items |-> l, interfaces |-> Interfaces(l), cut |-> FALSE]
      <4>1. PICK l \in SeqOf(Standard, MaxSound) :
                  input = [items |-> l, interfaces |-> Interfaces(l), cut |-> FALSE]
        BY <3>3
      <4>2. PICK m \in 0 .. 127 : l \in [1 .. m -> Standard \cup Faults]
        BY DescriptorConstants, LayoutType
      <4>3. raw = Raw(l, Interfaces(l), 1) /\ Interfaces(l) \in Octet
        BY <3>1, <4>1, InterfacesAreFew
      <4>4. QED
        BY <1>4, <4>2, <4>3, RawOctets
    <3>4. \/ \E l \in SeqOf(Standard \cup Faults, MaxItems) : \E n \in 1 .. 2 :
                  input = [items |-> l, interfaces |-> n, cut |-> FALSE]
          \/ \E l \in {m \in SeqOf(Standard, MaxSound) : FollowsStandard(m)} :
                  input = [items |-> l, interfaces |-> Interfaces(l), cut |-> FALSE]
      <4> DEFINE Free == {[items |-> l, interfaces |-> n, cut |-> FALSE] :
                              l \in SeqOf(Standard \cup Faults, MaxItems), n \in 1 .. 2}
                 Whole == {[items |-> l, interfaces |-> Interfaces(l), cut |-> FALSE] :
                              l \in {m \in SeqOf(Standard, MaxSound) : FollowsStandard(m)}}
      <4>1. input \in Free \/ input \in Whole
        BY DEF Inputs
      <4>2. CASE input \in Free
        BY <4>2
      <4>3. CASE input \in Whole
        BY <4>3
      <4>4. QED
        BY <4>1, <4>2, <4>3
    <3>5. QED
      BY <3>2, <3>3, <3>4
  <2>2. CASE \E l \in SeqOf(Standard \cup Faults, MaxCutItems) :
                LET whole == Raw(l, 1, 1) IN
                \E n \in 0 .. Len(whole) - 1 : raw = SubSeq(whole, 1, n)
    <3>1. PICK l \in SeqOf(Standard \cup Faults, MaxCutItems) :
                \E n \in 0 .. Len(Raw(l, 1, 1)) - 1 : raw = SubSeq(Raw(l, 1, 1), 1, n)
      BY <2>2
    <3>2. PICK m \in 0 .. 127 : l \in [1 .. m -> Standard \cup Faults]
      BY DescriptorConstants, LayoutType
    <3>3. Raw(l, 1, 1) \in Seq(Octet)
      BY <1>4, <3>2, RawOctets
    <3>4. QED
      BY <3>1, <3>3, CutOctets
  <2>3. CASE \E size \in {DEVICE_SIZE - 1, DEVICE_SIZE}, configs \in {0, 2} :
                raw = DeviceBytes(size, configs) \o ConfigBytes(1)
    <3>1. PICK size \in {DEVICE_SIZE - 1, DEVICE_SIZE}, configs \in {0, 2} :
                raw = DeviceBytes(size, configs) \o ConfigBytes(1)
      BY <2>3
    <3>2. size \in Octet /\ configs \in Octet
      BY <1>4
    <3>3. DeviceBytes(size, configs) \in Seq(Octet)
      BY <3>2, DeviceOctets
    <3>4. ConfigBytes(1) \in Seq(Octet)
      BY <1>4, ConfigOctets
    <3>5. QED
      BY <3>1, <3>3, <3>4, ConcatProperties
  <2>4. QED
    BY <2>1, <2>2, <2>3 DEF Init
<1>6. QED
  BY <1>1, <1>2, <1>3, <1>5 DEF WalkType, Consistent

(* ParseInterfaceDescriptor and ParseEndpointDescriptor fail. *)
LEMMA FailuresKeep ==
    ASSUME WalkType, InterfaceFails \/ EndpointFails
    PROVE  WalkType'
<1> USE DEF WalkType
<1>1. CASE InterfaceFails
  BY <1>1 DEF InterfaceFails, device, Consistent
<1>2. CASE EndpointFails
  <2>1. [DefaultEndpoint EXCEPT !.interfaceId = interface.id] = [address |-> 0, interfaceId |-> interface.id]
    BY DEF DefaultEndpoint
  <2>2. interface' = [interface EXCEPT !.endpoints = Append(@, [address |-> 0, interfaceId |-> interface.id])]
    BY <1>2, <2>1 DEF EndpointFails
  <2>3. 0 \in Octet
    BY DEF Octet
  <2>4. interface' \in InterfaceSet /\ Consistent(interface')
    BY <2>2, <2>3, OneEndpointMore
  <2>5. QED
    BY <1>2, <2>4 DEF EndpointFails, device, Consistent
<1>3. QED
  BY <1>1, <1>2

(* The search for a descriptor moves the cursor by octets. *)
LEMMA LookKeeps ==
    ASSUME WalkType, NEW here, NEW type, NEW there,
           \/ Look(here, type, there, InterfaceFails)
           \/ Look(here, type, there, EndpointFails)
    PROVE  WalkType'
<1>1. CASE InterfaceFails \/ EndpointFails
  BY <1>1, FailuresKeep
<1>2. CASE UNCHANGED <<raw, base, at, interface, config>>
  BY <1>2 DEF WalkType, Consistent
<1>3. CASE at < Len(raw) /\ at' = at + Byte(at) /\ UNCHANGED <<raw, base, interface, config>>
  <2>1. Byte(at) \in Octet
    BY <1>3, ByteType DEF WalkType
  <2>2. at \in Nat
    BY DEF WalkType
  <2>3. \A m \in Nat : \A n \in Octet : m + n \in Nat
    BY DEF Octet
  <2>4. at' \in Nat
    BY <1>3, <2>1, <2>2, <2>3
  <2>5. QED
    BY <1>3, <2>4 DEF WalkType, Consistent
<1>4. InterfaceFails \/ EndpointFails \/ UNCHANGED <<raw, base, at, interface, config>>
        \/ (at < Len(raw) /\ at' = at + Byte(at) /\ UNCHANGED <<raw, base, interface, config>>)
  <2>1. Len(raw) \in Nat /\ at \in Nat
    BY DEF WalkType
  <2>2. CASE at >= Len(raw)
    BY <2>1, <2>2 DEF Look, device
  <2>3. CASE at < Len(raw)
    BY <2>1, <2>3 DEF Look, device
  <2>4. QED
    BY <2>1, <2>2, <2>3
<1>5. QED
  BY <1>1, <1>2, <1>3, <1>4

(* A configuration stays one with an interface more. *)
LEMMA OneInterfaceMore ==
    ASSUME NEW c \in ConfigSet, \A i \in DOMAIN c.interfaces : Consistent(c.interfaces[i]),
           NEW f \in InterfaceSet, Consistent(f)
    PROVE  LET d == [c EXCEPT !.interfaces = Append(@, f)]
           IN  d \in ConfigSet /\ \A i \in DOMAIN d.interfaces : Consistent(d.interfaces[i])
<1> DEFINE fs == c.interfaces
           d == [c EXCEPT !.interfaces = Append(fs, f)]
<1>1. fs \in Seq(InterfaceSet)
  BY DEF ConfigSet
<1>2. Len(fs) \in Nat /\ DOMAIN fs = 1 .. Len(fs)
  BY <1>1
<1>3. /\ Append(fs, f) \in Seq(InterfaceSet)
      /\ Len(Append(fs, f)) = Len(fs) + 1
      /\ \A i \in 1 .. Len(fs) : Append(fs, f)[i] = fs[i]
      /\ Append(fs, f)[Len(fs) + 1] = f
  BY <1>1, AppendProperties
<1>4. DOMAIN Append(fs, f) = 1 .. Len(fs) + 1
  BY <1>3
<1>5. \A i \in 1 .. Len(fs) + 1 : Consistent(Append(fs, f)[i])
  <2> SUFFICES ASSUME NEW i \in 1 .. Len(fs) + 1 PROVE Consistent(Append(fs, f)[i])
    OBVIOUS
  <2>1. CASE i \in 1 .. Len(fs)
    BY <1>2, <1>3, <2>1
  <2>2. CASE i = Len(fs) + 1
    BY <1>3, <2>2
  <2>3. QED
    BY <1>2, <2>1, <2>2
<1>6. d \in ConfigSet /\ d.interfaces = Append(fs, f)
  BY <1>3 DEF ConfigSet
<1>7. QED
  BY <1>4, <1>5, <1>6

(* The strings are added to the interfaces one by one. *)
LEMMA StringsKeep ==
    ASSUME config \in ConfigSet, \A i \in DOMAIN config.interfaces : Consistent(config.interfaces[i]),
           FillDevStrings
    PROVE  config' \in ConfigSet /\ \A i \in DOMAIN config'.interfaces : Consistent(config'.interfaces[i])
<1> DEFINE fs == config.interfaces
<1>1. fs \in Seq(InterfaceSet)
  BY DEF ConfigSet
<1>2. Len(fs) \in Nat /\ DOMAIN fs = 1 .. Len(fs)
  BY <1>1
<1>3. PICK unreadable :
        config' = [config EXCEPT !.interfaces =
            [i \in DOMAIN @ |-> [@[i] EXCEPT !.name = StringVal(config.interfaces[i].iInterface, unreadable)]]]
  BY DEF FillDevStrings
<1> DEFINE gs == [i \in 1 .. Len(fs) |-> [fs[i] EXCEPT !.name = StringVal(fs[i].iInterface, unreadable)]]
<1>4. \A i \in 1 .. Len(fs) : gs[i] \in InterfaceSet /\ Consistent(gs[i])
  <2> SUFFICES ASSUME NEW i \in 1 .. Len(fs) PROVE gs[i] \in InterfaceSet /\ Consistent(gs[i])
    OBVIOUS
  <2>1. fs[i] \in InterfaceSet /\ Consistent(fs[i])
    BY <1>1, <1>2
  <2>2. StringVal(fs[i].iInterface, unreadable) \in Octet
    <3>1. fs[i].iInterface \in Octet /\ 0 \in Octet
      BY <2>1 DEF InterfaceSet, Octet
    <3>2. QED
      BY <3>1 DEF StringVal
  <2>3. gs[i] = [fs[i] EXCEPT !.name = StringVal(fs[i].iInterface, unreadable)]
    OBVIOUS
  <2> HIDE DEF gs
  <2>4. gs[i] \in InterfaceSet /\ gs[i].id = fs[i].id /\ gs[i].endpoints = fs[i].endpoints
    BY <2>1, <2>2, <2>3 DEF InterfaceSet
  <2>5. QED
    BY <2>1, <2>4 DEF Consistent
<1>5. gs \in Seq(InterfaceSet) /\ DOMAIN gs = 1 .. Len(fs)
  <2>1. DOMAIN gs = 1 .. Len(fs) /\ gs = [i \in 1 .. Len(fs) |-> gs[i]]
    OBVIOUS
  <2> HIDE DEF gs
  <2>2. gs \in [1 .. Len(fs) -> InterfaceSet]
    BY <1>4, <2>1
  <2>3. QED
    BY <1>2, <2>1, <2>2
<1>6. config' = [config EXCEPT !.interfaces = gs]
  BY <1>2, <1>3
<1> HIDE DEF gs
<1>7. config' \in ConfigSet /\ config'.interfaces = gs
  BY <1>5, <1>6 DEF ConfigSet
<1>8. QED
  BY <1>4, <1>5, <1>7

(* Every step of the walk copies octets. *)
LEMMA WalkStep ==
    ASSUME WalkType, FreshInterface, Parse
    PROVE  WalkType'
<1>1. /\ raw \in Seq(Octet) /\ Len(raw) \in Nat /\ base \in Nat /\ at \in Nat
      /\ interface \in InterfaceSet /\ Consistent(interface)
      /\ config \in ConfigSet /\ \A i \in DOMAIN config.interfaces : Consistent(config.interfaces[i])
  BY DEF WalkType
<1>2. CASE ParseDeviceDescriptor
  BY <1>1, <1>2 DEF ParseDeviceDescriptor, WalkType, Consistent
<1>3. CASE ParseConfigDescriptor
  <2>1. CASE UNCHANGED <<base, config>>
    BY <1>1, <1>3, <2>1 DEF ParseConfigDescriptor, WalkType, Consistent, device
  <2>2. CASE /\ ~Beyond(DEVICE_SIZE, CONFIG_SIZE)
             /\ base' = DEVICE_SIZE + CONFIG_SIZE
             /\ config' = [present |-> TRUE, id |-> Byte(DEVICE_SIZE + 5), maxPower |-> Byte(DEVICE_SIZE + 8),
                           interfaces |-> <<>>]
    <3>1. 23 < Len(raw) /\ 26 < Len(raw)
      BY <1>1, <2>2 DEF Beyond, DEVICE_SIZE, CONFIG_SIZE
    <3>2. Byte(23) \in Octet /\ Byte(26) \in Octet
      BY <1>1, <3>1, ByteType
    <3>3. DEVICE_SIZE + 5 = 23 /\ DEVICE_SIZE + 8 = 26 /\ base' \in Nat
      BY <2>2 DEF DEVICE_SIZE, CONFIG_SIZE
    <3>4. config' \in ConfigSet /\ config'.interfaces = <<>>
      BY <2>2, <3>2, <3>3 DEF ConfigSet
    <3>5. QED
      BY <1>1, <1>3, <3>3, <3>4 DEF ParseConfigDescriptor, WalkType, Consistent, device
  <2>3. DEVICE_SIZE \in Nat
    BY DEF DEVICE_SIZE
  <2>4. QED
    BY <1>1, <1>3, <2>1, <2>2, <2>3 DEF ParseConfigDescriptor
<1>4. CASE NextInterface
  <2>1. NoInterface \in InterfaceSet /\ NoInterface.endpoints = <<>>
    BY DEF NoInterface, InterfaceSet, Octet
  <2>2. at' = base /\ interface' = NoInterface /\ UNCHANGED <<raw, base, config>>
    BY <1>4 DEF NextInterface, device
  <2> HIDE DEF NoInterface
  <2>3. QED
    BY <1>1, <2>1, <2>2 DEF WalkType, Consistent
<1>5. CASE FindInterface
  BY <1>5, LookKeeps DEF FindInterface
<1>6. CASE FindEndpoint
  BY <1>6, LookKeeps DEF FindEndpoint
<1>7. CASE ReadInterface
  <2>1. CASE Beyond(at, INTERFACE_SIZE)
    BY <1>1, <1>7, <2>1 DEF ReadInterface, WalkType, Consistent, device
  <2>2. CASE InterfaceFails
    BY <2>2, FailuresKeep
  <2>3. CASE /\ ~Beyond(at, INTERFACE_SIZE)
             /\ at' = at + INTERFACE_SIZE
             /\ interface' = [interface EXCEPT !.id = Byte(at + 2), !.alternateSetting = Byte(at + 3),
                                               !.iInterface = Byte(at + 8)]
             /\ UNCHANGED <<raw, base, config>>
    <3>1. at + 2 \in Nat /\ at + 3 \in Nat /\ at + 8 \in Nat /\ at' \in Nat
      BY <1>1, <2>3 DEF INTERFACE_SIZE
    <3>2. at + 2 < Len(raw) /\ at + 3 < Len(raw) /\ at + 8 < Len(raw)
      BY <1>1, <2>3 DEF Beyond, INTERFACE_SIZE
    <3>3. Byte(at + 2) \in Octet /\ Byte(at + 3) \in Octet /\ Byte(at + 8) \in Octet
      BY <1>1, <3>1, <3>2, ByteType
    <3>4. interface' \in InterfaceSet
      BY <1>1, <2>3, <3>3 DEF InterfaceSet
    <3>5. interface.endpoints = <<>>
      BY <1>7 DEF FreshInterface, ReadInterface
    <3>6. interface'.endpoints = <<>>
      BY <1>1, <2>3, <3>5 DEF InterfaceSet
    <3>7. QED
      BY <1>1, <2>3, <3>1, <3>4, <3>6 DEF WalkType, Consistent
  <2>4. QED
    BY <1>7, <2>1, <2>2, <2>3 DEF ReadInterface, device
<1>8. CASE NextEndpoint
  <2>1. CASE EndpointFails
    BY <2>1, FailuresKeep
  <2>2. CASE base' = at /\ UNCHANGED <<raw, at, interface, config>>
    BY <1>1, <2>2 DEF WalkType, Consistent
  <2>3. QED
    BY <1>8, <2>1, <2>2 DEF NextEndpoint, device
<1>9. CASE ReadEndpoint
  <2>1. CASE Beyond(at, ENDPOINT_SIZE)
    BY <1>1, <1>9, <2>1 DEF ReadEndpoint, WalkType, Consistent, device
  <2>2. CASE EndpointFails
    BY <2>2, FailuresKeep
  <2>3. CASE /\ ~Beyond(at, ENDPOINT_SIZE)
             /\ at' = at + ENDPOINT_SIZE
             /\ interface' = [interface EXCEPT !.endpoints =
                                  Append(@, [address |-> Byte(at + 2), interfaceId |-> interface.id])]
             /\ UNCHANGED <<raw, base, config>>
    <3>1. at + 2 \in Nat /\ at + 2 < Len(raw) /\ at' \in Nat
      BY <1>1, <2>3 DEF Beyond, ENDPOINT_SIZE
    <3>2. Byte(at + 2) \in Octet
      BY <1>1, <3>1, ByteType
    <3>3. interface' \in InterfaceSet /\ Consistent(interface')
      BY <1>1, <2>3, <3>2, OneEndpointMore
    <3>4. QED
      BY <1>1, <2>3, <3>1, <3>3 DEF WalkType, Consistent
  <2>4. QED
    BY <1>9, <2>1, <2>2, <2>3 DEF ReadEndpoint, device
<1>10. CASE EndInterface
  <2>1. /\ base' = at /\ UNCHANGED <<raw, at, interface>>
    BY <1>10 DEF EndInterface, device
  <2>2. config' = [config EXCEPT !.interfaces = Append(@, interface)] \/ config' = config
    BY <1>10 DEF EndInterface
  <2>3. CASE config' = [config EXCEPT !.interfaces = Append(@, interface)]
    <3>1. config' \in ConfigSet /\ \A i \in DOMAIN config'.interfaces : Consistent(config'.interfaces[i])
      BY <1>1, <2>3, OneInterfaceMore
    <3>2. QED
      BY <1>1, <2>1, <3>1 DEF WalkType, Consistent
  <2>4. QED
    BY <1>1, <2>1, <2>2, <2>3 DEF WalkType, Consistent
<1>11. CASE FillDevStrings
  <2>1. /\ UNCHANGED <<raw, base, at, interface>>
    BY <1>11 DEF FillDevStrings, device
  <2>2. config' \in ConfigSet /\ \A i \in DOMAIN config'.interfaces : Consistent(config'.interfaces[i])
    BY <1>1, <1>11, StringsKeep
  <2>3. QED
    BY <1>1, <2>1, <2>2 DEF WalkType, Consistent
<1>12. QED
  BY <1>2, <1>3, <1>4, <1>5, <1>6, <1>7, <1>8, <1>9, <1>10, <1>11 DEF Parse

(* Only the loop over interfaces sets out for one, and it begins afresh. *)
LEMMA FreshInit ==
    ASSUME Init
    PROVE  FreshInterface
BY DEF Init, Start, FreshInterface

(* Every step of the walk keeps it so. *)
LEMMA FreshStep ==
    ASSUME FreshInterface, Parse
    PROVE  FreshInterface'
<1>1. CASE ParseDeviceDescriptor
  BY <1>1 DEF ParseDeviceDescriptor, FreshInterface, Go
<1>2. CASE ParseConfigDescriptor
  <2>1. pc' \in {"strings", "failed", "interfaces"}
    BY <1>2 DEF ParseConfigDescriptor, Go
  <2>2. QED
    BY <2>1 DEF FreshInterface
<1>3. CASE NextInterface
  BY <1>3 DEF NextInterface, FreshInterface, NoInterface
<1>4. CASE FindInterface
  <2>1. pc = "find interface"
    BY <1>4 DEF FindInterface, Look
  <2>2. interface' = interface
    BY <1>4 DEF FindInterface, Look, InterfaceFails
  <2>3. QED
    BY <2>1, <2>2 DEF FreshInterface
<1>5. CASE FindEndpoint
  <2>1. pc' \in {"undefined", "endpoints", "read endpoint", "find endpoint"}
    BY <1>5 DEF FindEndpoint, Look, EndpointFails, Go
  <2>2. QED
    BY <2>1 DEF FreshInterface
<1>6. CASE ReadInterface
  <2>1. pc' \in {"undefined", "endpoints", "interfaces"}
    BY <1>6 DEF ReadInterface, InterfaceFails, Go
  <2>2. QED
    BY <2>1 DEF FreshInterface
<1>7. CASE NextEndpoint \/ ReadEndpoint
  <2>1. pc' \in {"undefined", "endpoints", "find endpoint"}
    BY <1>7 DEF NextEndpoint, ReadEndpoint, EndpointFails, Go
  <2>2. QED
    BY <2>1 DEF FreshInterface
<1>8. CASE EndInterface
  BY <1>8 DEF EndInterface, FreshInterface, Go
<1>9. CASE FillDevStrings
  BY <1>9 DEF FillDevStrings, FreshInterface, Go
<1>10. QED
  BY <1>1, <1>2, <1>3, <1>4, <1>5, <1>6, <1>7, <1>8, <1>9 DEF Parse

-----------------------------------------------------------------------------
(* Going out and coming back. *)

(* The application has the device as one of the two ways out copies it. *)
DeviceIsCopied ==
    js # None =>
        /\ pc = "done"
        /\ js.busNum = BusNum /\ js.devAddress = DevAddr
        /\ js.config \in {config, CtoJSUsbConfig(FromParcel(config))}

(* Its pipe names the device. *)
PipeNamesDevice == pipe # None => pipe = <<BusNum, DevAddr>>

(* A request has the endpoint as the proxy copied it. *)
RequestIsCopied ==
    request # None =>
        /\ pc = "done"
        /\ \A i, e : request.of = <<i, e>> => request.endpoint = FromParcel(config).interfaces[i].endpoints[e]

PathInv ==
    /\ WalkType
    /\ FreshInterface
    /\ DeviceIsCopied
    /\ PipeNamesDevice
    /\ RequestIsCopied
    /\ CallsNameTheirTarget

(* An octet comes back the same from a signed byte. *)
LEMMA RoundTrip ==
    ASSUME NEW n \in Octet
    PROVE  /\ Uint8(n) = n
           /\ Uint8(Int8(n)) = n
           /\ Uint8(Int8(Uint8(n))) = n
           /\ Uint8(Int8(Uint8(Int8(n)))) = n
<1>1. n \in Nat /\ n < 256
  BY DEF Octet
<1>2. Uint8(n) = n
  BY <1>1 DEF Uint8
<1>3. Int8(n) = IF n >= 128 THEN n - 256 ELSE n
  BY <1>2 DEF Int8
<1>4. Uint8(Int8(n)) = n
  <2>1. CASE n >= 128
    BY <1>1, <1>3, <2>1 DEF Uint8
  <2>2. CASE n < 128
    BY <1>1, <1>2, <1>3, <2>2
  <2>3. QED
    BY <1>1, <2>1, <2>2
<1>5. QED
  BY <1>2, <1>4

(* A sequence behind another, item by item. *)
LEMMA SomeMore ==
    ASSUME NEW S, NEW s \in Seq(S), NEW q \in Seq(S), NEW t \in Seq(S),
           Len(t) = Len(s) + Len(q),
           \A i \in 1 .. Len(s) : t[i] = s[i],
           \A i \in 1 .. Len(q) : t[Len(s) + i] = q[i]
    PROVE  s \o q = t
<1>1. Len(s) \in Nat /\ Len(q) \in Nat
  OBVIOUS
<1>2. s \o q \in Seq(S)
  BY ConcatProperties
<1>3. Len(s \o q) = Len(s) + Len(q)
  BY ConcatProperties
<1>4. \A i \in 1 .. Len(s) + Len(q) : (s \o q)[i] = IF i <= Len(s) THEN s[i] ELSE q[i - Len(s)]
  BY ConcatProperties, Zenon
<1>5. \A i \in 1 .. Len(t) : (s \o q)[i] = t[i]
  <2> SUFFICES ASSUME NEW i \in 1 .. Len(t) PROVE (s \o q)[i] = t[i]
    OBVIOUS
  <2>1. (s \o q)[i] = IF i <= Len(s) THEN s[i] ELSE q[i - Len(s)]
    BY <1>4
  <2>2. CASE i <= Len(s)
    <3>1. i \in 1 .. Len(s)
      BY <1>1, <2>2
    <3>2. QED
      BY <2>1, <2>2, <3>1
  <2>3. CASE i > Len(s)
    <3>1. i - Len(s) \in 1 .. Len(q) /\ Len(s) + (i - Len(s)) = i /\ ~(i <= Len(s))
      BY <1>1, <2>3
    <3>2. q[i - Len(s)] = t[Len(s) + (i - Len(s))]
      BY <3>1
    <3>3. QED
      BY <2>1, <3>1, <3>2
  <2>4. QED
    BY <1>1, <2>2, <2>3
<1>6. QED
  BY <1>2, <1>3, <1>5, SeqEqual

(* The arguments of a call, behind those of the pipe. *)
LEMMA Arguments ==
    ASSUME NEW a, NEW b
    PROVE  /\ <<BusNum, DevAddr>> \o <<a>> = <<BusNum, DevAddr, a>>
           /\ <<BusNum, DevAddr>> \o <<a, b>> = <<BusNum, DevAddr, a, b>>
<1> DEFINE S == {BusNum, DevAddr, a, b}
           s == <<BusNum, DevAddr>>
           q == <<a>>
           r == <<a, b>>
           t == <<BusNum, DevAddr, a>>
           u == <<BusNum, DevAddr, a, b>>
<1>1. s \in Seq(S) /\ Len(s) = 2 /\ s[1] = BusNum /\ s[2] = DevAddr
  OBVIOUS
<1>2. q \in Seq(S) /\ Len(q) = 1 /\ q[1] = a
  OBVIOUS
<1>3. r \in Seq(S) /\ Len(r) = 2 /\ r[1] = a /\ r[2] = b
  OBVIOUS
<1>4. t \in Seq(S) /\ Len(t) = 3 /\ t[1] = BusNum /\ t[2] = DevAddr /\ t[3] = a
  OBVIOUS
<1>5. u \in Seq(S) /\ Len(u) = 4 /\ u[1] = BusNum /\ u[2] = DevAddr /\ u[3] = a /\ u[4] = b
  OBVIOUS
<1> HIDE DEF S, s, q, r, t, u
<1>6. s \o q = t
  <2>1. \A i \in 1 .. Len(s) : t[i] = s[i]
    BY <1>1, <1>4
  <2>2. \A i \in 1 .. Len(q) : t[Len(s) + i] = q[i]
    BY <1>1, <1>2, <1>4
  <2>3. Len(t) = Len(s) + Len(q)
    BY <1>1, <1>2, <1>4
  <2>4. QED
    BY <1>1, <1>2, <1>4, <2>1, <2>2, <2>3, SomeMore
<1>7. s \o r = u
  <2>1. \A i \in 1 .. Len(s) : u[i] = s[i]
    BY <1>1, <1>5
  <2>2. \A i \in 1 .. Len(r) : u[Len(s) + i] = r[i]
    BY <1>1, <1>3, <1>5
  <2>3. Len(u) = Len(s) + Len(r)
    BY <1>1, <1>3, <1>5
  <2>4. QED
    BY <1>1, <1>3, <1>5, <2>1, <2>2, <2>3, SomeMore
<1>8. QED
  BY <1>6, <1>7 DEF s, q, r, t, u

(* A configuration on its way: the maximum power is no octet any more. *)
CopySet == [present : BOOLEAN, id : Octet, maxPower : Nat, interfaces : Seq(InterfaceSet)]

(* The parser's configuration is one. *)
LEMMA ConfigIsCopy == ConfigSet \subseteq CopySet
<1>1. Octet \subseteq Nat
  BY DEF Octet
<1>2. QED
  BY <1>1 DEF ConfigSet, CopySet

(* An endpoint that gets another interface is an endpoint again. *)
LEMMA EndpointCopy ==
    ASSUME NEW f \in EndpointSet, NEW n
    PROVE  /\ [f EXCEPT !.interfaceId = n] = [address |-> f.address, interfaceId |-> n]
           /\ n \in Octet => [address |-> f.address, interfaceId |-> n] \in EndpointSet
BY DEF EndpointSet

(* What the proxy reads is again one, with the same identities. *)
LEMMA FromParcelKeeps ==
    ASSUME NEW c \in CopySet
    PROVE  LET p == FromParcel(c) IN
           /\ p \in CopySet
           /\ p.id = c.id /\ p.present = c.present
           /\ DOMAIN p.interfaces = DOMAIN c.interfaces
           /\ \A i \in DOMAIN c.interfaces :
                 LET f == c.interfaces[i]
                     g == p.interfaces[i] IN
                 /\ g.id = f.id /\ g.alternateSetting = f.alternateSetting
                 /\ DOMAIN g.endpoints = DOMAIN f.endpoints
                 /\ \A e \in DOMAIN f.endpoints :
                       g.endpoints[e] = [address |-> f.endpoints[e].address, interfaceId |-> f.id]
<1> DEFINE fs == c.interfaces
           es(i) == [e \in DOMAIN fs[i].endpoints |->
                        [fs[i].endpoints[e] EXCEPT !.interfaceId = Uint8(fs[i].id)]]
           gs == [i \in DOMAIN fs |-> [fs[i] EXCEPT !.endpoints = es(i)]]
           p == FromParcel(c)
<1>1. fs \in Seq(InterfaceSet) /\ c.maxPower \in Nat /\ c.id \in Octet /\ c.present \in BOOLEAN
  BY DEF CopySet
<1>2. Len(fs) \in Nat /\ DOMAIN fs = 1 .. Len(fs)
  BY <1>1
<1>3. p = [c EXCEPT !.maxPower = GetMaxPower(c.maxPower), !.interfaces = gs]
  BY DEF FromParcel
<1>4. \A i \in DOMAIN fs :
        /\ gs[i] \in InterfaceSet
        /\ gs[i].id = fs[i].id /\ gs[i].alternateSetting = fs[i].alternateSetting
        /\ DOMAIN gs[i].endpoints = DOMAIN fs[i].endpoints
        /\ \A e \in DOMAIN fs[i].endpoints :
              gs[i].endpoints[e] = [address |-> fs[i].endpoints[e].address, interfaceId |-> fs[i].id]
  <2> SUFFICES ASSUME NEW i \in DOMAIN fs
               PROVE  /\ gs[i] \in InterfaceSet
                      /\ gs[i].id = fs[i].id /\ gs[i].alternateSetting = fs[i].alternateSetting
                      /\ DOMAIN gs[i].endpoints = DOMAIN fs[i].endpoints
                      /\ \A e \in DOMAIN fs[i].endpoints :
                            gs[i].endpoints[e] = [address |-> fs[i].endpoints[e].address, interfaceId |-> fs[i].id]
    OBVIOUS
  <2>1. fs[i] \in InterfaceSet
    BY <1>1, <1>2
  <2>2. fs[i].id \in Octet /\ fs[i].endpoints \in Seq(EndpointSet)
    BY <2>1 DEF InterfaceSet
  <2>3. Uint8(fs[i].id) = fs[i].id
    BY <2>2, RoundTrip
  <2>4. /\ DOMAIN es(i) = DOMAIN fs[i].endpoints
        /\ \A e \in DOMAIN fs[i].endpoints : es(i)[e] = [fs[i].endpoints[e] EXCEPT !.interfaceId = fs[i].id]
    BY <2>3
  <2>5. gs[i] = [fs[i] EXCEPT !.endpoints = es(i)]
    OBVIOUS
  <2> DEFINE h == es(i)
  <2>6. h = [e \in DOMAIN h |-> h[e]]
    OBVIOUS
  <2> HIDE DEF es, gs, h
  <2>7. Len(fs[i].endpoints) \in Nat /\ DOMAIN fs[i].endpoints = 1 .. Len(fs[i].endpoints)
    BY <2>2
  <2>8. \A e \in DOMAIN fs[i].endpoints :
          /\ fs[i].endpoints[e] \in EndpointSet
          /\ h[e] = [address |-> fs[i].endpoints[e].address, interfaceId |-> fs[i].id]
    <3> SUFFICES ASSUME NEW e \in DOMAIN fs[i].endpoints
                 PROVE  /\ fs[i].endpoints[e] \in EndpointSet
                        /\ h[e] = [address |-> fs[i].endpoints[e].address, interfaceId |-> fs[i].id]
      OBVIOUS
    <3>1. fs[i].endpoints[e] \in EndpointSet
      BY <2>2, <2>7
    <3>2. h[e] = [fs[i].endpoints[e] EXCEPT !.interfaceId = fs[i].id]
      BY <2>4 DEF h
    <3>3. QED
      BY <3>1, <3>2, EndpointCopy
  <2>9. \A e \in DOMAIN fs[i].endpoints : h[e] \in EndpointSet
    <3> SUFFICES ASSUME NEW e \in DOMAIN fs[i].endpoints PROVE h[e] \in EndpointSet
      OBVIOUS
    <3>1. fs[i].endpoints[e] \in EndpointSet
      BY <2>8
    <3>2. [address |-> fs[i].endpoints[e].address, interfaceId |-> fs[i].id] \in EndpointSet
      BY <2>2, <3>1, EndpointCopy
    <3>3. QED
      BY <2>8, <3>2
  <2>10. h \in [1 .. Len(fs[i].endpoints) -> EndpointSet]
    BY <2>4, <2>6, <2>7, <2>9 DEF h
  <2>11. h \in Seq(EndpointSet)
    BY <2>7, <2>10
  <2>12. gs[i] \in InterfaceSet /\ gs[i].id = fs[i].id /\ gs[i].alternateSetting = fs[i].alternateSetting
          /\ gs[i].endpoints = h
    BY <2>1, <2>5, <2>11 DEF InterfaceSet, h
  <2>13. QED
    BY <2>4, <2>8, <2>12 DEF h
<1>5. gs = [i \in DOMAIN fs |-> gs[i]] /\ DOMAIN gs = DOMAIN fs
  OBVIOUS
<1>6. GetMaxPower(c.maxPower) \in Nat
  BY <1>1 DEF GetMaxPower
<1> HIDE DEF gs, p
<1>7. gs \in [1 .. Len(fs) -> InterfaceSet]
  BY <1>2, <1>4, <1>5
<1>8. gs \in Seq(InterfaceSet)
  BY <1>2, <1>7
<1>9. p \in CopySet /\ p.id = c.id /\ p.present = c.present /\ p.interfaces = gs
  BY <1>1, <1>3, <1>6, <1>8 DEF CopySet
<1>10. QED
  BY <1>4, <1>5, <1>9 DEF p

(* CtoJSUsbConfig keeps the identities, and gives an endpoint a signed one. *)
LEMMA CtoJSKeeps ==
    ASSUME NEW c \in CopySet
    PROVE  LET p == CtoJSUsbConfig(c) IN
           /\ p.id = c.id /\ p.present = c.present
           /\ \A i \in DOMAIN c.interfaces :
                 LET f == c.interfaces[i]
                     g == p.interfaces[i] IN
                 /\ DOMAIN g = DOMAIN f
                 /\ g.id = f.id /\ g.alternateSetting = f.alternateSetting
                 /\ DOMAIN g.endpoints = DOMAIN f.endpoints
                 /\ \A e \in DOMAIN f.endpoints :
                       g.endpoints[e] = [address |-> f.endpoints[e].address,
                                         interfaceId |-> Int8(f.endpoints[e].interfaceId)]
<1> DEFINE fs == c.interfaces
           es(i) == [e \in DOMAIN fs[i].endpoints |->
                        [fs[i].endpoints[e] EXCEPT !.interfaceId = GetInterfaceId(fs[i].endpoints[e])]]
           gs == [i \in DOMAIN fs |-> [fs[i] EXCEPT !.endpoints = es(i)]]
           p == CtoJSUsbConfig(c)
<1>1. fs \in Seq(InterfaceSet)
  BY DEF CopySet
<1>2. Len(fs) \in Nat /\ DOMAIN fs = 1 .. Len(fs)
  BY <1>1
<1>3. p = [c EXCEPT !.maxPower = GetMaxPower(c.maxPower), !.interfaces = gs]
  BY DEF CtoJSUsbConfig
<1>4. \A i \in DOMAIN fs :
        /\ DOMAIN gs[i] = DOMAIN fs[i]
        /\ gs[i].id = fs[i].id /\ gs[i].alternateSetting = fs[i].alternateSetting
        /\ DOMAIN gs[i].endpoints = DOMAIN fs[i].endpoints
        /\ \A e \in DOMAIN fs[i].endpoints :
              gs[i].endpoints[e] = [address |-> fs[i].endpoints[e].address,
                                    interfaceId |-> Int8(fs[i].endpoints[e].interfaceId)]
  <2> SUFFICES ASSUME NEW i \in DOMAIN fs
               PROVE  /\ DOMAIN gs[i] = DOMAIN fs[i]
                      /\ gs[i].id = fs[i].id /\ gs[i].alternateSetting = fs[i].alternateSetting
                      /\ DOMAIN gs[i].endpoints = DOMAIN fs[i].endpoints
                      /\ \A e \in DOMAIN fs[i].endpoints :
                            gs[i].endpoints[e] = [address |-> fs[i].endpoints[e].address,
                                                  interfaceId |-> Int8(fs[i].endpoints[e].interfaceId)]
    OBVIOUS
  <2>1. fs[i] \in InterfaceSet
    BY <1>1, <1>2
  <2>2. fs[i].endpoints \in Seq(EndpointSet)
    BY <2>1 DEF InterfaceSet
  <2>4. /\ DOMAIN es(i) = DOMAIN fs[i].endpoints
        /\ \A e \in DOMAIN fs[i].endpoints :
              es(i)[e] = [fs[i].endpoints[e] EXCEPT !.interfaceId = Int8(fs[i].endpoints[e].interfaceId)]
    BY DEF GetInterfaceId
  <2>5. gs[i] = [fs[i] EXCEPT !.endpoints = es(i)]
    OBVIOUS
  <2> HIDE DEF es, gs
  <2>7. Len(fs[i].endpoints) \in Nat /\ DOMAIN fs[i].endpoints = 1 .. Len(fs[i].endpoints)
    BY <2>2
  <2>8. \A e \in DOMAIN fs[i].endpoints :
          es(i)[e] = [address |-> fs[i].endpoints[e].address, interfaceId |-> Int8(fs[i].endpoints[e].interfaceId)]
    <3> SUFFICES ASSUME NEW e \in DOMAIN fs[i].endpoints
                 PROVE  es(i)[e] = [address |-> fs[i].endpoints[e].address,
                                    interfaceId |-> Int8(fs[i].endpoints[e].interfaceId)]
      OBVIOUS
    <3>1. fs[i].endpoints[e] \in EndpointSet
      BY <2>2, <2>7
    <3>2. es(i)[e] = [fs[i].endpoints[e] EXCEPT !.interfaceId = Int8(fs[i].endpoints[e].interfaceId)]
      BY <2>4
    <3>3. QED
      BY <3>1, <3>2, EndpointCopy
  <2>12. /\ DOMAIN gs[i] = DOMAIN fs[i] /\ gs[i].endpoints = es(i)
         /\ gs[i].id = fs[i].id /\ gs[i].alternateSetting = fs[i].alternateSetting
    BY <2>1, <2>5 DEF InterfaceSet
  <2>13. QED
    BY <2>4, <2>8, <2>12
<1> HIDE DEF gs, p
<1>9. p.id = c.id /\ p.present = c.present /\ p.interfaces = gs
  BY <1>3 DEF CopySet
<1>10. QED
  BY <1>4, <1>9 DEF p

(* Whichever way the application got the device: what it passes back       *)
(* becomes the interface, setting and endpoint of the descriptor again.    *)
LEMMA ComesBack ==
    ASSUME WalkType, NEW d \in {config, CtoJSUsbConfig(FromParcel(config))}
    PROVE  /\ d.id = config.id
           /\ Uint8(config.id) = config.id
           /\ \A i \in DOMAIN config.interfaces :
                 /\ LET f == ParseInterfaceObj(d.interfaces[i]) IN
                    /\ Uint8(f.id) = Interface(i).id
                    /\ Uint8(f.alternateSetting) = Interface(i).alternateSetting
                 /\ \A e \in DOMAIN Interface(i).endpoints :
                       UsbPipe(ParseEndpointObj(d.interfaces[i].endpoints[e]))
                           = <<Interface(i).id, Endpoint(i, e).address>>
<1>1. config \in ConfigSet /\ config \in CopySet /\ config.id \in Octet
  BY ConfigIsCopy DEF WalkType, ConfigSet
<1>2. Uint8(config.id) = config.id
  BY <1>1, RoundTrip
<1>3. config.interfaces \in Seq(InterfaceSet)
  BY <1>1 DEF ConfigSet
<1>4. d.id = config.id
  BY <1>1, FromParcelKeeps, CtoJSKeeps
<1>5. ASSUME NEW i \in DOMAIN config.interfaces
      PROVE  /\ LET f == ParseInterfaceObj(d.interfaces[i]) IN
                /\ Uint8(f.id) = Interface(i).id
                /\ Uint8(f.alternateSetting) = Interface(i).alternateSetting
             /\ \A e \in DOMAIN Interface(i).endpoints :
                   UsbPipe(ParseEndpointObj(d.interfaces[i].endpoints[e]))
                       = <<Interface(i).id, Endpoint(i, e).address>>
  <2> DEFINE f == config.interfaces[i]
             g == d.interfaces[i]
             p == FromParcel(config)
             h == p.interfaces[i]
             q == CtoJSUsbConfig(p)
             k == q.interfaces[i]
  <2>1. f \in InterfaceSet /\ Consistent(f)
    BY <1>3 DEF WalkType
  <2>2. /\ f.id \in Octet /\ f.alternateSetting \in Octet /\ f.endpoints \in Seq(EndpointSet)
        /\ DOMAIN f = {"id", "alternateSetting", "iInterface", "name", "endpoints"}
    BY <2>1 DEF InterfaceSet
  <2>3. /\ p \in CopySet /\ i \in DOMAIN p.interfaces
        /\ h.id = f.id /\ h.alternateSetting = f.alternateSetting
        /\ DOMAIN h.endpoints = DOMAIN f.endpoints
        /\ \A e \in DOMAIN f.endpoints : h.endpoints[e] = [address |-> f.endpoints[e].address, interfaceId |-> f.id]
    BY <1>1, FromParcelKeeps
  <2>4. DOMAIN h = {"id", "alternateSetting", "iInterface", "name", "endpoints"}
    <3>1. p.interfaces \in Seq(InterfaceSet)
      BY <2>3 DEF CopySet
    <3>2. h \in InterfaceSet
      BY <2>3, <3>1
    <3>3. QED
      BY <3>2 DEF InterfaceSet
  <2>5. /\ DOMAIN k = DOMAIN h /\ k.id = h.id /\ k.alternateSetting = h.alternateSetting
        /\ \A e \in DOMAIN h.endpoints :
              k.endpoints[e] = [address |-> h.endpoints[e].address, interfaceId |-> Int8(h.endpoints[e].interfaceId)]
    BY <2>3, CtoJSKeeps
  <2> HIDE DEF h, k, p, q
  <2>6. /\ DOMAIN g = {"id", "alternateSetting", "iInterface", "name", "endpoints"}
        /\ g.id = f.id /\ g.alternateSetting = f.alternateSetting
    BY <2>2, <2>3, <2>4, <2>5 DEF h, k, p, q
  <2>7. ASSUME NEW e \in DOMAIN f.endpoints
        PROVE  \/ g.endpoints[e] = [address |-> f.endpoints[e].address, interfaceId |-> f.id]
               \/ g.endpoints[e] = [address |-> f.endpoints[e].address, interfaceId |-> Int8(f.id)]
    <3>1. CASE d = config
      <4>1. f.endpoints[e] \in EndpointSet /\ f.endpoints[e].interfaceId = f.id
        BY <2>1, <2>2, <2>7 DEF Consistent
      <4>2. f.endpoints[e] = [address |-> f.endpoints[e].address, interfaceId |-> f.id]
        BY <4>1 DEF EndpointSet
      <4>3. QED
        BY <3>1, <4>2
    <3>2. CASE d = CtoJSUsbConfig(FromParcel(config))
      <4>1. h.endpoints[e] = [address |-> f.endpoints[e].address, interfaceId |-> f.id]
        BY <2>3, <2>7
      <4>2. k.endpoints[e] = [address |-> h.endpoints[e].address, interfaceId |-> Int8(h.endpoints[e].interfaceId)]
        BY <2>3, <2>5, <2>7
      <4>3. k.endpoints[e] = [address |-> f.endpoints[e].address, interfaceId |-> Int8(f.id)]
        BY <4>1, <4>2
      <4>4. g = k
        BY <3>2 DEF k, p, q
      <4>5. QED
        BY <4>3, <4>4
    <3>3. QED
      BY <3>1, <3>2
  <2> HIDE DEF f, g
  <2>8. Interface(i) = f
    BY DEF Interface, f
  <2>9. LET r == ParseInterfaceObj(g) IN r.id = g.id /\ r.alternateSetting = g.alternateSetting
    BY <2>6 DEF ParseInterfaceObj
  <2>10. Uint8(f.id) = f.id /\ Uint8(f.alternateSetting) = f.alternateSetting
    BY <2>2, RoundTrip
  <2>11. ASSUME NEW e \in DOMAIN f.endpoints
         PROVE  UsbPipe(ParseEndpointObj(g.endpoints[e])) = <<f.id, f.endpoints[e].address>>
    <3> DEFINE a == f.endpoints[e].address
    <3>1. PICK n \in {f.id, Int8(f.id)} : g.endpoints[e] = [address |-> a, interfaceId |-> n]
      BY <2>7, <2>11
    <3>2. ParseEndpointObj(g.endpoints[e]) = [address |-> a, interfaceId |-> Uint8(n)]
      BY <3>1 DEF ParseEndpointObj
    <3>3. UsbPipe(ParseEndpointObj(g.endpoints[e])) = <<Uint8(Int8(Uint8(n))), a>>
      BY <3>2 DEF UsbPipe, GetInterfaceId
    <3>4. Uint8(Int8(Uint8(n))) = f.id
      BY <2>2, <3>1, RoundTrip
    <3>5. QED
      BY <3>3, <3>4
  <2>12. QED
    BY <2>6, <2>8, <2>9, <2>10, <2>11 DEF g, Endpoint
<1>6. QED
  BY <1>2, <1>4, <1>5

-----------------------------------------------------------------------------
(* The steps. *)

(* The application starts with nothing. *)
LEMMA PathInitStep ==
    ASSUME PathInit
    PROVE  PathInv
<1>1. Init /\ js = None /\ pipe = None /\ request = None /\ call = None
  BY DEF PathInit
<1>2. WalkType /\ FreshInterface
  BY <1>1, WalkInit, FreshInit
<1>3. QED
  BY <1>1, <1>2 DEF PathInv, DeviceIsCopied, PipeNamesDevice, RequestIsCopied, CallsNameTheirTarget

(* The walk is over when the application meets the device. *)
LEMMA ParseStep ==
    ASSUME PathInv, Parse, UNCHANGED pathVars
    PROVE  PathInv'
<1>1. pc # "done"
  BY DEF Parse, ParseDeviceDescriptor, ParseConfigDescriptor, NextInterface, FindInterface, FindEndpoint, Look,
         ReadInterface, EndInterface, NextEndpoint, ReadEndpoint, FillDevStrings
<1>2. js = None /\ request = None
  BY <1>1 DEF PathInv, DeviceIsCopied, RequestIsCopied
<1>3. WalkType' /\ FreshInterface'
  BY WalkStep, FreshStep DEF PathInv
<1>4. js' = None /\ request' = None /\ pipe' = pipe /\ call' = call
  BY <1>2 DEF pathVars
<1>5. QED
  BY <1>3, <1>4 DEF PathInv, DeviceIsCopied, PipeNamesDevice, RequestIsCopied, CallsNameTheirTarget

(* While the application works the parsed device stays as it is. *)
LEMMA DeviceStays ==
    ASSUME PathInv, UNCHANGED vars
    PROVE  /\ WalkType' /\ FreshInterface'
           /\ UNCHANGED js => DeviceIsCopied'
           /\ UNCHANGED pipe => PipeNamesDevice'
           /\ UNCHANGED request => RequestIsCopied'
<1>1. UNCHANGED <<raw, base, at, interface, config, pc>>
  BY DEF vars
<1>2. WalkType'
  BY <1>1 DEF PathInv, WalkType, Consistent
<1>3. FreshInterface'
  BY <1>1 DEF PathInv, FreshInterface
<1>4. UNCHANGED js => DeviceIsCopied'
  BY <1>1 DEF PathInv, DeviceIsCopied
<1>5. UNCHANGED pipe => PipeNamesDevice'
  BY DEF PathInv, PipeNamesDevice
<1>6. UNCHANGED request => RequestIsCopied'
  BY <1>1 DEF PathInv, RequestIsCopied
<1>7. QED
  BY <1>2, <1>3, <1>4, <1>5, <1>6

(* A call with the device's own arguments, which changes only the history. *)
LEMMA CallStep ==
    ASSUME PathInv, UNCHANGED <<vars, js, pipe>>, RequestIsCopied',
           NEW to, NEW meant, NEW thrown, Calls(to, meant, thrown), thrown \/ to = meant
    PROVE  PathInv'
<1>1. CallsNameTheirTarget'
  BY DEF Calls, CallsNameTheirTarget
<1>2. UNCHANGED vars /\ UNCHANGED js /\ UNCHANGED pipe
  OBVIOUS
<1>3. QED
  BY <1>1, <1>2, DeviceStays DEF PathInv

(* GetDevices and the event give the application a copy. *)
LEMMA OutStep ==
    ASSUME PathInv, GetDevices \/ Attached
    PROVE  PathInv'
<1>1. /\ pc = "done" /\ UNCHANGED vars /\ UNCHANGED pipe /\ UNCHANGED request /\ UNCHANGED call
      /\ js'.busNum = BusNum /\ js'.devAddress = DevAddr
      /\ js'.config \in {config, CtoJSUsbConfig(FromParcel(config))}
  BY DEF GetDevices, Attached
<1>2. pc' = pc /\ config' = config
  BY <1>1 DEF vars
<1>3. DeviceIsCopied'
  BY <1>1, <1>2 DEF DeviceIsCopied, BusNum, DevAddr
<1>4. CallsNameTheirTarget'
  BY <1>1 DEF PathInv, CallsNameTheirTarget
<1>5. QED
  BY <1>1, <1>3, <1>4, DeviceStays DEF PathInv

(* connectDevice names the device, and the pipe keeps its name. *)
LEMMA ConnectStep ==
    ASSUME PathInv, ConnectDevice
    PROVE  PathInv'
<1>1. Uint8(js.busNum) = BusNum /\ Uint8(js.devAddress) = DevAddr
  BY RoundTrip DEF PathInv, DeviceIsCopied, ConnectDevice, BusNum, DevAddr, Octet
<1>2. UNCHANGED vars /\ UNCHANGED js /\ UNCHANGED request
  BY DEF ConnectDevice
<1>3. pipe' = pipe \/ pipe' = <<BusNum, DevAddr>>
  BY <1>1 DEF ConnectDevice
<1>4. PipeNamesDevice'
  BY <1>3 DEF PathInv, PipeNamesDevice
<1>5. Calls(<<BusNum, DevAddr>>, <<BusNum, DevAddr>>, DeviceThrows)
  BY <1>1 DEF ConnectDevice
<1>6. CallsNameTheirTarget'
  BY <1>5 DEF Calls, CallsNameTheirTarget
<1>7. QED
  BY <1>2, <1>4, <1>6, DeviceStays DEF PathInv

(* claimInterface, releaseInterface and setInterface. *)
LEMMA UseInterfaceStep ==
    ASSUME PathInv, NEW i \in DOMAIN config.interfaces, UseInterface(i)
    PROVE  PathInv'
<1> DEFINE f == ParseInterfaceObj(js.config.interfaces[i])
           to == pipe \o <<Uint8(f.id), Uint8(f.alternateSetting)>>
           meant == <<BusNum, DevAddr, Interface(i).id, Interface(i).alternateSetting>>
<1>1. Calls(to, meant, FALSE) /\ UNCHANGED <<vars, js, pipe>> /\ UNCHANGED vars /\ UNCHANGED request
  BY DEF UseInterface
<1>2. pipe = <<BusNum, DevAddr>> /\ js.config \in {config, CtoJSUsbConfig(FromParcel(config))}
  BY DEF UseInterface, Piped, PathInv, DeviceIsCopied, PipeNamesDevice
<1>3. Uint8(f.id) = Interface(i).id /\ Uint8(f.alternateSetting) = Interface(i).alternateSetting
  BY <1>2, ComesBack DEF PathInv
<1>4. to = meant
  BY <1>2, <1>3, Arguments
<1> HIDE DEF to, meant
<1>5. RequestIsCopied'
  BY <1>1, DeviceStays
<1>6. QED
  BY <1>1, <1>4, <1>5, CallStep

(* setConfiguration. *)
LEMMA SetConfigurationStep ==
    ASSUME PathInv, SetConfiguration
    PROVE  PathInv'
<1> DEFINE to == pipe \o <<Uint8(ParseConfigObj(js.config).id)>>
           meant == <<BusNum, DevAddr, config.id>>
           thrown == ConfigThrows(js.config)
<1>1. Calls(to, meant, thrown) /\ UNCHANGED <<vars, js, pipe>> /\ UNCHANGED vars /\ UNCHANGED request
  BY DEF SetConfiguration
<1>2. pipe = <<BusNum, DevAddr>> /\ js.config \in {config, CtoJSUsbConfig(FromParcel(config))}
  BY DEF SetConfiguration, Piped, PathInv, DeviceIsCopied, PipeNamesDevice
<1>3. js.config.id = config.id /\ Uint8(config.id) = config.id
  BY <1>2, ComesBack DEF PathInv
<1>4. "id" \in DOMAIN js.config
  <2>1. config \in ConfigSet /\ config \in CopySet
    BY ConfigIsCopy DEF PathInv, WalkType
  <2>2. DOMAIN config = {"present", "id", "maxPower", "interfaces"}
    BY <2>1 DEF ConfigSet
  <2>3. DOMAIN CtoJSUsbConfig(FromParcel(config)) = DOMAIN config
    BY DEF CtoJSUsbConfig, FromParcel
  <2>4. QED
    BY <1>2, <2>2, <2>3
<1>5. thrown \/ ParseConfigObj(js.config).id = config.id
  BY <1>3, <1>4 DEF ParseConfigObj
<1>6. thrown \/ to = meant
  BY <1>2, <1>3, <1>5, Arguments
<1> HIDE DEF to, meant, thrown
<1>7. RequestIsCopied'
  BY <1>1, DeviceStays
<1>8. QED
  BY <1>1, <1>6, <1>7, CallStep

(* bulkTransfer. *)
LEMMA BulkTransferStep ==
    ASSUME PathInv, NEW i \in DOMAIN config.interfaces, NEW e \in DOMAIN Interface(i).endpoints, BulkTransfer(i, e)
    PROVE  PathInv'
<1> DEFINE to == pipe \o UsbPipe(ParseEndpointObj(js.config.interfaces[i].endpoints[e]))
           meant == <<BusNum, DevAddr, Interface(i).id, Endpoint(i, e).address>>
<1>1. Calls(to, meant, FALSE) /\ UNCHANGED <<vars, js, pipe>> /\ UNCHANGED vars /\ UNCHANGED request
  BY DEF BulkTransfer
<1>2. pipe = <<BusNum, DevAddr>> /\ js.config \in {config, CtoJSUsbConfig(FromParcel(config))}
  BY DEF BulkTransfer, Piped, PathInv, DeviceIsCopied, PipeNamesDevice
<1>3. UsbPipe(ParseEndpointObj(js.config.interfaces[i].endpoints[e])) = <<Interface(i).id, Endpoint(i, e).address>>
  BY <1>2, ComesBack DEF PathInv
<1>4. to = meant
  BY <1>2, <1>3, Arguments
<1> HIDE DEF to, meant
<1>5. RequestIsCopied'
  BY <1>1, DeviceStays
<1>6. QED
  BY <1>1, <1>4, <1>5, CallStep

(* The endpoint a native client uses names its interface. *)
LEMMA ProxyEndpoint ==
    ASSUME WalkType, NEW i \in DOMAIN config.interfaces, NEW e \in DOMAIN Interface(i).endpoints
    PROVE  LET f == FromParcel(config).interfaces[i].endpoints[e] IN
           /\ Uint8(GetInterfaceId(f)) = Interface(i).id
           /\ UsbPipe(f) = <<Interface(i).id, Endpoint(i, e).address>>
<1> DEFINE f == FromParcel(config).interfaces[i].endpoints[e]
<1>1. config \in ConfigSet /\ config \in CopySet /\ config.interfaces \in Seq(InterfaceSet)
  BY ConfigIsCopy DEF WalkType, ConfigSet
<1>2. Interface(i) \in InterfaceSet
  BY <1>1 DEF Interface
<1>3. Interface(i).id \in Octet
  BY <1>2 DEF InterfaceSet
<1>4. f = [address |-> Endpoint(i, e).address, interfaceId |-> Interface(i).id]
  BY <1>1, FromParcelKeeps DEF Interface, Endpoint
<1> HIDE DEF f
<1>5. Uint8(GetInterfaceId(f)) = Interface(i).id
  BY <1>3, <1>4, RoundTrip DEF GetInterfaceId
<1>6. QED
  BY <1>4, <1>5 DEF UsbPipe, f

(* UsbRequest::Initialize. *)
LEMMA InitializeStep ==
    ASSUME PathInv, NEW i \in DOMAIN config.interfaces, NEW e \in DOMAIN Interface(i).endpoints,
           RequestInitialize(i, e)
    PROVE  PathInv'
<1> DEFINE f == FromParcel(config).interfaces[i].endpoints[e]
           to == pipe \o <<Uint8(GetInterfaceId(f))>>
           meant == <<BusNum, DevAddr, Interface(i).id>>
<1>1. /\ request' = [endpoint |-> f, of |-> <<i, e>>] /\ pc = "done"
      /\ UNCHANGED <<vars, js, pipe>> /\ UNCHANGED vars
  BY DEF RequestInitialize, Piped
<1>2. pipe = <<BusNum, DevAddr>>
  BY DEF RequestInitialize, Piped, PathInv, PipeNamesDevice
<1>3. request'.endpoint = f /\ request'.of = <<i, e>>
  BY <1>1
<1>4. Calls(to, meant, FALSE)
  BY <1>3 DEF RequestInitialize
<1>5. to = meant
  BY <1>2, ProxyEndpoint, Arguments DEF PathInv
<1>6. pc' = pc /\ config' = config
  BY <1>1 DEF vars
<1>7. RequestIsCopied'
  <2> SUFFICES ASSUME NEW j, NEW k, request'.of = <<j, k>>
               PROVE  request'.endpoint = FromParcel(config').interfaces[j].endpoints[k]
    BY <1>1, <1>6 DEF RequestIsCopied
  <2>1. j = i /\ k = e
    BY <1>3
  <2>2. QED
    BY <1>3, <1>6, <2>1
<1> HIDE DEF to, meant
<1>8. QED
  BY <1>1, <1>4, <1>5, <1>7, CallStep

(* Queue, Abort and Free of a UsbRequest. *)
LEMMA RequestUseStep ==
    ASSUME PathInv, NEW i \in DOMAIN config.interfaces, NEW e \in DOMAIN Interface(i).endpoints, RequestUse(i, e)
    PROVE  PathInv'
<1> DEFINE to == pipe \o UsbPipe(request.endpoint)
           meant == <<BusNum, DevAddr, Interface(i).id, Endpoint(i, e).address>>
<1>1. /\ Calls(to, meant, FALSE) /\ UNCHANGED <<vars, js, pipe>> /\ UNCHANGED vars /\ UNCHANGED request
      /\ request # None /\ request.of = <<i, e>>
  BY DEF RequestUse
<1>2. pipe = <<BusNum, DevAddr>>
  BY DEF RequestUse, Piped, PathInv, PipeNamesDevice
<1>3. request.endpoint = FromParcel(config).interfaces[i].endpoints[e]
  BY <1>1 DEF PathInv, RequestIsCopied
<1>4. UsbPipe(request.endpoint) = <<Interface(i).id, Endpoint(i, e).address>>
  BY <1>3, ProxyEndpoint DEF PathInv
<1>5. to = meant
  BY <1>2, <1>4, Arguments
<1> HIDE DEF to, meant
<1>6. RequestIsCopied'
  BY <1>1, DeviceStays
<1>7. QED
  BY <1>1, <1>5, <1>6, CallStep

(* The invariant holds always: what the walk copies are octets, and every  *)
(* copy after it keeps the identities.                                     *)
THEOREM PathInvariance == PathSpec => []PathInv
<1>1. PathInit => PathInv
  BY PathInitStep
<1>2. PathInv /\ [PathNext]_<<vars, pathVars>> => PathInv'
  <2> SUFFICES ASSUME PathInv, [PathNext]_<<vars, pathVars>> PROVE PathInv'
    OBVIOUS
  <2>1. CASE Parse /\ UNCHANGED pathVars
    BY <2>1, ParseStep
  <2>2. CASE GetDevices \/ Attached
    BY <2>2, OutStep
  <2>3. CASE ConnectDevice
    BY <2>3, ConnectStep
  <2>4. CASE SetConfiguration
    BY <2>4, SetConfigurationStep
  <2>5. CASE \E i \in DOMAIN config.interfaces : UseInterface(i)
    BY <2>5, UseInterfaceStep
  <2>6. CASE \E i \in DOMAIN config.interfaces : \E e \in DOMAIN Interface(i).endpoints : BulkTransfer(i, e)
    BY <2>6, BulkTransferStep
  <2>7. CASE \E i \in DOMAIN config.interfaces : \E e \in DOMAIN Interface(i).endpoints : RequestInitialize(i, e)
    BY <2>7, InitializeStep
  <2>8. CASE \E i \in DOMAIN config.interfaces : \E e \in DOMAIN Interface(i).endpoints : RequestUse(i, e)
    BY <2>8, RequestUseStep
  <2>9. CASE UNCHANGED <<vars, pathVars>>
    <3>1. UNCHANGED vars /\ UNCHANGED js /\ UNCHANGED pipe /\ UNCHANGED request /\ UNCHANGED call
      BY <2>9 DEF pathVars
    <3>2. CallsNameTheirTarget'
      BY <3>1 DEF PathInv, CallsNameTheirTarget
    <3>3. QED
      BY <3>1, <3>2, DeviceStays DEF PathInv
  <2>10. QED
    BY <2>1, <2>2, <2>3, <2>4, <2>5, <2>6, <2>7, <2>8, <2>9 DEF PathNext
<1>3. QED
  BY <1>1, <1>2, PTL DEF PathSpec

(* A call reaches the service with what the device's descriptor has, for   *)
(* devices of every layout: none of the narrowing copies exchanges a       *)
(* device, configuration, interface, setting or endpoint.                  *)
THEOREM CallsReachTheirTarget == PathSpec => []CallsNameTheirTarget
<1>1. PathInv => CallsNameTheirTarget
  BY DEF PathInv
<1>2. QED
  BY <1>1, PathInvariance, PTL

-----------------------------------------------------------------------------
(* Places in order. *)

(* The places up to one are finitely many. *)
LEMMA UpToIsFinite ==
    ASSUME NEW S \in SUBSET Nat, NEW k \in Nat
    PROVE  IsFiniteSet({m \in S : m <= k})
<1>1. {m \in S : m <= k} \in SUBSET Nat /\ \A m \in {m \in S : m <= k} : m <= k
  OBVIOUS
<1>2. QED
  BY <1>1, FS_BoundedSetOfNaturals

(* A rank counts. *)
LEMMA RankType ==
    ASSUME NEW S \in SUBSET Nat, NEW k \in Nat
    PROVE  Rank(S, k) \in Nat
BY UpToIsFinite, FS_CardinalityType DEF Rank

(* It grows with the places. *)
LEMMA RankGrows ==
    ASSUME NEW S \in SUBSET Nat, NEW j \in Nat, NEW k \in Nat, j <= k
    PROVE  Rank(S, j) <= Rank(S, k)
<1>1. {m \in S : m <= j} \in SUBSET {m \in S : m <= k}
  <2>1. \A m \in S : m <= j => m <= k
    OBVIOUS
  <2>2. QED
    BY <2>1, Zenon
<1>2. IsFiniteSet({m \in S : m <= k})
  BY UpToIsFinite
<1>3. QED
  BY <1>1, <1>2, FS_Subset DEF Rank

(* It counts a place of the set itself, and no other. *)
LEMMA RankOfNext ==
    ASSUME NEW S \in SUBSET Nat, NEW k \in Nat, k > 0
    PROVE  Rank(S, k) = IF k \in S THEN Rank(S, k - 1) + 1 ELSE Rank(S, k - 1)
<1> DEFINE below == {m \in S : m <= k - 1}
           upto == {m \in S : m <= k}
<1>1. k - 1 \in Nat /\ k \notin below
  OBVIOUS
<1>2. IsFiniteSet(below)
  BY <1>1, UpToIsFinite
<1>3. CASE k \in S
  <2>1. upto = below \cup {k}
    <3>1. \A m \in S : m <= k <=> m <= k - 1 \/ m = k
      OBVIOUS
    <3>2. QED
      BY <1>3, <3>1, Zenon
  <2> HIDE DEF below, upto
  <2>2. Cardinality(upto) = Cardinality(below) + 1
    BY <1>1, <1>2, <2>1, FS_AddElement
  <2>3. QED
    BY <1>3, <2>2 DEF Rank, below, upto
<1>4. CASE k \notin S
  <2>1. upto = below
    <3>1. \A m \in S : m <= k <=> m <= k - 1 \/ m = k
      OBVIOUS
    <3>2. QED
      BY <1>4, <3>1, Zenon
  <2> HIDE DEF below, upto
  <2>2. QED
    BY <1>4, <2>1 DEF Rank, below, upto
<1>5. QED
  BY <1>3, <1>4

(* Where there are no places of the set it stays. *)
LEMMA RankOfGap ==
    ASSUME NEW S \in SUBSET Nat, NEW j \in Nat, NEW k \in Nat, j <= k,
           \A m \in j + 1 .. k : m \notin S
    PROVE  Rank(S, k) = Rank(S, j)
<1>1. {m \in S : m <= k} = {m \in S : m <= j}
  <2>1. \A m \in S : m <= k => m <= j
    <3> SUFFICES ASSUME NEW m \in S, m <= k, ~(m <= j) PROVE FALSE
      OBVIOUS
    <3>1. m \in j + 1 .. k
      OBVIOUS
    <3>2. QED
      BY <3>1
  <2>2. \A m \in S : m <= j => m <= k
    OBVIOUS
  <2>3. QED
    BY <2>1, <2>2, Zenon
<1>2. QED
  BY <1>1 DEF Rank

(* Before the first place it is 0. *)
LEMMA RankOfNone ==
    ASSUME NEW S \in SUBSET (Nat \ {0})
    PROVE  Rank(S, 0) = 0
<1>1. {m \in S : m <= 0} = {}
  <2>1. \A m \in S : ~(m <= 0)
    OBVIOUS
  <2>2. QED
    BY <2>1, Zenon
<1>2. QED
  BY <1>1, FS_EmptySet DEF Rank

(* At the end, all of the set are counted, ... *)
LEMMA RankOfAll ==
    ASSUME NEW n \in Nat, NEW S \in SUBSET (1 .. n)
    PROVE  /\ Rank(S, n) = Cardinality(S)
           /\ Cardinality(S) \in Nat
           /\ \A k \in 0 .. n : Rank(S, k) <= Cardinality(S)
<1>1. {m \in S : m <= n} = S /\ S \in SUBSET Nat
  <2>1. \A m \in S : m \in Nat /\ m <= n
    OBVIOUS
  <2>2. QED
    BY <2>1, Zenon
<1>2. Rank(S, n) = Cardinality(S)
  BY <1>1 DEF Rank
<1>3. \A k \in 0 .. n : Rank(S, k) <= Rank(S, n)
  BY <1>1, RankGrows
<1>4. QED
  BY <1>1, <1>2, <1>3, RankType

(* ... and where all are counted no place is behind. *)
LEMMA RankIsFull ==
    ASSUME NEW n \in Nat, NEW S \in SUBSET (1 .. n), NEW k \in 0 .. n
    PROVE  Rank(S, k) < Cardinality(S) <=> \E m \in S : m > k
<1>1. S \in SUBSET Nat /\ k \in Nat /\ {m \in S : m <= n} = S
  <2>1. k \in Nat /\ \A m \in S : m \in Nat /\ m <= n
    OBVIOUS
  <2>2. QED
    BY <2>1, Zenon
<1>2. IsFiniteSet(S)
  BY <1>1, UpToIsFinite
<1>3. {m \in S : m <= k} \in SUBSET S
  OBVIOUS
<1>4. /\ Rank(S, k) <= Cardinality(S)
      /\ Cardinality(S) = Rank(S, k) => S = {m \in S : m <= k}
  BY <1>2, <1>3, FS_Subset DEF Rank
<1>5. Rank(S, k) \in Nat /\ Cardinality(S) \in Nat
  BY <1>1, <1>2, RankType, FS_CardinalityType
<1>6. (\E m \in S : m > k) <=> S # {m \in S : m <= k}
  <2>1. \A m \in S : m > k <=> ~(m <= k)
    OBVIOUS
  <2>2. QED
    BY <2>1, Zenon
<1>7. S = {m \in S : m <= k} => Rank(S, k) = Cardinality(S)
  BY DEF Rank
<1>8. QED
  BY <1>4, <1>5, <1>6, <1>7

-----------------------------------------------------------------------------
(* The bytes of a sound device. *)

(* Descriptor k of l begins after f[k] bytes of r, and the last one ends   *)
(* the bytes.                                                              *)
LaysOut(f, l, r) ==
    /\ f \in [1 .. Len(l) + 1 -> Nat]
    /\ f[1] = DEVICE_SIZE + CONFIG_SIZE
    /\ f[Len(l) + 1] = Len(r)
    /\ \A k \in 1 .. Len(l) :
          /\ f[k + 1] = f[k] + Len(Bytes(l, k))
          /\ f[k + 1] <= Len(r)
          /\ \A j \in 1 .. Len(Bytes(l, k)) : r[f[k] + j] = Bytes(l, k)[j]

(* The device and its first configuration precede them. *)
Heads(r, interfaces) ==
    /\ r \in Seq(Octet) /\ Len(r) >= DEVICE_SIZE + CONFIG_SIZE
    /\ r[1] = DEVICE_SIZE /\ r[18] = 1
    /\ r[DEVICE_SIZE + 1] = CONFIG_SIZE /\ r[DEVICE_SIZE + 5] = interfaces

(* What the parser reads of a descriptor that follows the standard. *)
LEMMA StandardBytes ==
    ASSUME NEW l, NEW k, l[k] \in Standard
    PROVE  LET b == Bytes(l, k) IN
           /\ Len(b) \in Nat /\ Len(b) >= 3 /\ b[1] = Len(b)
           /\ b[2] = DESCRIPTOR_TYPE_INTERFACE <=> l[k] \in Settings
           /\ b[2] = DESCRIPTOR_TYPE_ENDPOINT <=> l[k] = "E"
           /\ l[k] \in Settings =>
                 Len(b) = INTERFACE_SIZE /\ b[3] = Id(l[k]) /\ b[4] = Alt(l[k]) /\ b[5] = Eps(l[k])
           /\ l[k] = "E" => Len(b) = ENDPOINT_SIZE /\ b[3] = Address(k)
<1> USE DEF DESCRIPTOR_TYPE_INTERFACE, DESCRIPTOR_TYPE_ENDPOINT, INTERFACE_SIZE, ENDPOINT_SIZE
<1>1. CASE l[k] \in Settings
  <2>1. Bytes(l, k) = <<9, 4, Id(l[k]), Alt(l[k]), Eps(l[k]), 255, 0, 0, k - 1>>
    BY <1>1 DEF Bytes, Settings
  <2>2. l[k] # "E"
    BY <1>1 DEF Settings
  <2>3. QED
    BY <1>1, <2>1, <2>2
<1>2. CASE l[k] = "E"
  <2>1. Bytes(l, k) = <<7, 5, Address(k), 2, 64, 0, 0>>
    BY <1>2 DEF Bytes, Settings
  <2>2. QED
    BY <1>2, <2>1 DEF Settings
<1>3. CASE l[k] = "X"
  BY <1>3 DEF Bytes, Settings
<1>4. CASE l[k] = "C"
  <2>1. Bytes(l, k) = <<9, 2, 0, 0, 1, 1, 0, 128, 50>>
    BY <1>4 DEF Bytes, Settings, ConfigBytes, CONFIG_SIZE, DESCRIPTOR_TYPE_CONFIG
  <2>2. QED
    BY <1>4, <2>1 DEF Settings
<1>5. QED
  BY <1>1, <1>2, <1>3, <1>4 DEF Standard, Settings

(* The same, where the descriptor lies in the device's bytes. *)
LEMMA DescriptorAt ==
    ASSUME NEW l \in Seq(Standard), raw \in Seq(Octet), NEW f, LaysOut(f, l, raw), NEW k \in 1 .. Len(l)
    PROVE  /\ f[k] \in Nat /\ Len(raw) \in Nat /\ k + 1 \in DOMAIN f /\ Byte(f[k]) \in Nat
           /\ f[k + 1] = f[k] + Byte(f[k]) /\ f[k] + Byte(f[k]) <= Len(raw) /\ Byte(f[k]) >= 3
           /\ Byte(f[k] + 1) = DESCRIPTOR_TYPE_INTERFACE <=> l[k] \in Settings
           /\ Byte(f[k] + 1) = DESCRIPTOR_TYPE_ENDPOINT <=> l[k] = "E"
           /\ l[k] \in Settings =>
                 /\ Byte(f[k]) = INTERFACE_SIZE
                 /\ Byte(f[k] + 2) = Id(l[k]) /\ Byte(f[k] + 3) = Alt(l[k]) /\ Byte(f[k] + 4) = Eps(l[k])
           /\ l[k] = "E" => Byte(f[k]) = ENDPOINT_SIZE /\ Byte(f[k] + 2) = Address(k)
<1> DEFINE b == Bytes(l, k)
<1>1. Len(l) \in Nat /\ Len(raw) \in Nat /\ l[k] \in Standard /\ k \in Nat
  OBVIOUS
<1>2. /\ Len(b) \in Nat /\ Len(b) >= 3 /\ b[1] = Len(b)
      /\ b[2] = DESCRIPTOR_TYPE_INTERFACE <=> l[k] \in Settings
      /\ b[2] = DESCRIPTOR_TYPE_ENDPOINT <=> l[k] = "E"
      /\ l[k] \in Settings =>
            Len(b) = INTERFACE_SIZE /\ b[3] = Id(l[k]) /\ b[4] = Alt(l[k]) /\ b[5] = Eps(l[k])
      /\ l[k] = "E" => Len(b) = ENDPOINT_SIZE /\ b[3] = Address(k)
  BY <1>1, StandardBytes
<1>3. k \in 1 .. Len(l) + 1 /\ k + 1 \in 1 .. Len(l) + 1
  BY <1>1
<1>4. f \in [1 .. Len(l) + 1 -> Nat]
  BY DEF LaysOut
<1>5. f[k] \in Nat /\ f[k + 1] \in Nat /\ k + 1 \in DOMAIN f
  BY <1>3, <1>4
<1> HIDE DEF b
<1>6. f[k + 1] = f[k] + Len(b) /\ f[k + 1] <= Len(raw) /\ \A j \in 1 .. Len(b) : raw[f[k] + j] = b[j]
  BY DEF LaysOut, b
<1>7. f[k] + 0 + 1 = f[k] + 1 /\ f[k] + 1 + 1 = f[k] + 2 /\ f[k] + 2 + 1 = f[k] + 3
      /\ f[k] + 3 + 1 = f[k] + 4 /\ f[k] + 4 + 1 = f[k] + 5
  BY <1>5
<1>8. 1 \in 1 .. Len(b) /\ 2 \in 1 .. Len(b) /\ 3 \in 1 .. Len(b)
  BY <1>2
<1>9. Byte(f[k]) = b[1] /\ Byte(f[k] + 1) = b[2] /\ Byte(f[k] + 2) = b[3]
  BY <1>6, <1>7, <1>8 DEF Byte
<1>10. l[k] \in Settings => Byte(f[k] + 3) = b[4] /\ Byte(f[k] + 4) = b[5]
  <2> SUFFICES ASSUME l[k] \in Settings PROVE Byte(f[k] + 3) = b[4] /\ Byte(f[k] + 4) = b[5]
    OBVIOUS
  <2>1. 4 \in 1 .. Len(b) /\ 5 \in 1 .. Len(b)
    BY <1>2 DEF INTERFACE_SIZE
  <2>2. QED
    BY <1>6, <1>7, <2>1 DEF Byte
<1>11. QED
  BY <1>1, <1>2, <1>5, <1>6, <1>9, <1>10

(* A list of lists begins with its prefixes. *)
LEMMA PrefixesBegin ==
    ASSUME NEW S, NEW s \in Seq(Seq(S)), NEW n \in Nat, n = Len(s), NEW g, ArePrefixes(g, s, n)
    PROVE  \A i \in 1 .. n : /\ Len(g[i]) <= Len(g[n])
                             /\ \A j \in 1 .. Len(g[i]) : g[n][j] = g[i][j]
<1> DEFINE Begins(i) == Len(g[i]) <= Len(g[n]) /\ \A j \in 1 .. Len(g[i]) : g[n][j] = g[i][j]
           Bad == {d \in 0 .. n - 1 : ~Begins(n - d)}
<1>1. \A i \in 1 .. n : g[i] \in Seq(S) /\ Len(g[i]) \in Nat /\ s[i] \in Seq(S)
  <2>1. n \in 0 .. Len(s) /\ DOMAIN s = 1 .. n
    OBVIOUS
  <2>2. \A i \in 1 .. n : g[i] \in Seq(S) /\ s[i] \in Seq(S)
    BY <2>1, PrefixesType
  <2>3. QED
    BY <2>2
<1>2. Bad = {}
  <2> SUFFICES ASSUME Bad # {} PROVE FALSE
    OBVIOUS
  <2>1. PICK d \in Bad : \A e \in Bad : d <= e
    <3>1. Bad \in SUBSET Nat
      OBVIOUS
    <3>2. QED
      BY <3>1, SmallestNumber
  <2>2. d \in 0 .. n - 1 /\ ~Begins(n - d)
    BY <2>1
  <2>3. d # 0
    <3>1. n - 0 = n
      OBVIOUS
    <3>2. n \in 1 .. n => Len(g[n]) <= Len(g[n])
      BY <1>1
    <3>3. QED
      BY <2>2, <3>1, <3>2
  <2> HIDE DEF Begins
  <2>4. PICK p \in 1 .. n : p = n - (d - 1)
    <3>1. n - (d - 1) \in 1 .. n
      BY <2>2, <2>3
    <3>2. QED
      BY <3>1, Zenon
  <2>5. PICK q \in 1 .. n : q = p - 1
    <3>1. p - 1 \in 1 .. n
      BY <2>2, <2>4
    <3>2. QED
      BY <3>1, Zenon
  <2>6. q = n - d /\ p # 1 /\ d - 1 \in 0 .. n - 1 /\ ~(d <= d - 1) /\ n \in 1 .. n
    BY <2>2, <2>3, <2>4, <2>5
  <2>7. Begins(p)
    BY <2>1, <2>4, <2>6
  <2>8. g[p] = g[q] \o s[p]
    BY <2>5, <2>6 DEF ArePrefixes
  <2>9. g[q] \in Seq(S) /\ s[p] \in Seq(S)
    BY <1>1
  <2>10. Len(g[q]) \in Nat /\ Len(s[p]) \in Nat /\ Len(g[n]) \in Nat
    <3>1. Len(s[p]) \in Nat
      BY <2>9
    <3>2. QED
      BY <1>1, <2>6, <3>1
  <2> HIDE DEF Bad
  <2>11. Begins(q)
    <3> DEFINE a == Len(g[q])
               b == Len(s[p])
               c == Len(g[n])
    <3>1. Len(g[p]) = a + b
      BY <2>8, <2>9, ConcatProperties
    <3>2. \A j \in 1 .. a + b : g[p][j] = IF j <= a THEN g[q][j] ELSE s[p][j - a]
      <4>1. \A j \in 1 .. a + b : (g[q] \o s[p])[j] = IF j <= a THEN g[q][j] ELSE s[p][j - a]
        BY <2>9, ConcatProperties, Zenon
      <4>2. QED
        BY <2>8, <4>1, Zenon
    <3>3. a + b <= c /\ \A j \in 1 .. a + b : g[n][j] = g[p][j]
      BY <2>7, <3>1, Zenon DEF Begins
    <3>4. a \in Nat /\ b \in Nat /\ c \in Nat
      BY <2>10, Zenon
    <3> HIDE DEF a, b, c
    <3>5. a <= c /\ \A j \in 1 .. a : j \in 1 .. a + b /\ j <= a
      BY <3>3, <3>4
    <3>6. \A j \in 1 .. a : g[n][j] = g[q][j]
      BY <3>2, <3>3, <3>5, Zenon
    <3>7. QED
      BY <3>5, <3>6 DEF Begins, a, c
  <2>12. QED
    BY <2>2, <2>6, <2>11
<1>3. \A i \in 1 .. n : Begins(i)
  <2> SUFFICES ASSUME NEW i \in 1 .. n PROVE Begins(i)
    OBVIOUS
  <2>1. n - i \in 0 .. n - 1 /\ n - (n - i) = i
    OBVIOUS
  <2> HIDE DEF Begins
  <2>2. QED
    BY <1>2, <2>1
<1>4. QED
  BY <1>3

(* Where the items of two sequences are in their concatenation. *)
LEMMA Concatenation ==
    ASSUME NEW S, NEW s \in Seq(S), NEW t \in Seq(S)
    PROVE  /\ s \o t \in Seq(S)
           /\ Len(s) \in Nat /\ Len(t) \in Nat /\ Len(s \o t) = Len(s) + Len(t)
           /\ \A j \in 1 .. Len(s) : (s \o t)[j] = s[j]
           /\ \A j \in 1 .. Len(t) : (s \o t)[Len(s) + j] = t[j]
<1> DEFINE a == Len(s)
           b == Len(t)
           r == s \o t
<1>1. a \in Nat /\ b \in Nat
  OBVIOUS
<1>2. r \in Seq(S) /\ Len(r) = a + b
  BY ConcatProperties
<1>3. \A i \in 1 .. a + b : r[i] = IF i <= a THEN s[i] ELSE t[i - a]
  BY ConcatProperties, Zenon
<1> HIDE DEF a, b, r
<1>4. \A j \in 1 .. a : j \in 1 .. a + b /\ j <= a
  BY <1>1
<1>5. \A j \in 1 .. b : a + j \in 1 .. a + b /\ ~(a + j <= a) /\ a + j - a = j
  BY <1>1
<1>6. \A j \in 1 .. a : r[j] = s[j]
  BY <1>3, <1>4, Zenon
<1>7. \A j \in 1 .. b : r[a + j] = t[j]
  <2> SUFFICES ASSUME NEW j \in 1 .. b PROVE r[a + j] = t[j]
    OBVIOUS
  <2>1. a + j \in 1 .. a + b
    BY <1>5
  <2>2. r[a + j] = IF a + j <= a THEN s[a + j] ELSE t[(a + j) - a]
    BY <1>3, <2>1, Zenon
  <2>3. ~(a + j <= a) /\ (a + j) - a = j
    BY <1>1
  <2>4. QED
    BY <2>2, <2>3, Zenon
<1>8. QED
  BY <1>1, <1>2, <1>6, <1>7, Zenon DEF a, b, r

(* How much of a list of lists precedes item k, with the prefixes g. *)
Preceding(g, k) == IF k = 1 THEN 0 ELSE Len(g[k - 1])

(* Where an item of a list of lists is in the whole. *)
LEMMA ItemInFlattenSeq ==
    ASSUME NEW S, NEW s \in Seq(Seq(S)), NEW n \in Nat, n = Len(s), NEW g, ArePrefixes(g, s, n),
           NEW k \in 1 .. n
    PROVE  LET o == Preceding(g, k) IN
           /\ o \in Nat /\ s[k] \in Seq(S) /\ Len(g[k]) = o + Len(s[k]) /\ Len(g[k]) <= Len(g[n])
           /\ \A j \in 1 .. Len(s[k]) : g[n][o + j] = s[k][j]
<1>1. \A i \in 1 .. n : g[i] \in Seq(S) /\ Len(g[i]) \in Nat /\ s[i] \in Seq(S)
  <2>1. n \in 0 .. Len(s) /\ DOMAIN s = 1 .. n
    OBVIOUS
  <2>2. \A i \in 1 .. n : g[i] \in Seq(S) /\ s[i] \in Seq(S)
    BY <2>1, PrefixesType
  <2>3. QED
    BY <2>2
<1> DEFINE b == Len(s[k])
           c == Len(g[k])
           o == Preceding(g, k)
<1>0. o = IF k = 1 THEN 0 ELSE Len(g[k - 1])
  BY DEF Preceding
<1> HIDE DEF o
<1>2. s[k] \in Seq(S) /\ b \in Nat /\ c \in Nat
  <2>1. s[k] \in Seq(S)
    BY <1>1
  <2>2. b \in Nat
    BY <2>1
  <2>3. QED
    BY <1>1, <2>1, <2>2
<1>3. o \in Nat /\ c = o + b /\ \A j \in 1 .. b : g[k][o + j] = s[k][j]
  <2>1. CASE k = 1
    <3>1. g[k] = s[k]
      BY <2>1 DEF ArePrefixes
    <3>2. o = 0 /\ c = b
      BY <1>0, <2>1, <3>1, Zenon
    <3> HIDE DEF b, c
    <3>3. \A j \in 1 .. b : 0 + j = j
      BY <1>2
    <3>4. 0 \in Nat /\ b = 0 + b
      BY <1>2
    <3>5. QED
      BY <3>1, <3>2, <3>3, <3>4, Zenon
  <2>2. CASE k # 1
    <3>1. PICK q \in 1 .. n : q = k - 1
      <4>1. k - 1 \in 1 .. n
        BY <2>2
      <4>2. QED
        BY <4>1, Zenon
    <3>2. g[k] = g[q] \o s[k] /\ o = Len(g[q])
      BY <1>0, <2>2, <3>1 DEF ArePrefixes
    <3>3. g[q] \in Seq(S) /\ s[k] \in Seq(S)
      BY <1>1, Zenon
    <3> DEFINE u == g[q]
               v == s[k]
    <3>4. /\ Len(u) \in Nat /\ Len(u \o v) = Len(u) + Len(v)
          /\ \A j \in 1 .. Len(v) : (u \o v)[Len(u) + j] = v[j]
      <4>1. u \in Seq(S) /\ v \in Seq(S)
        BY <3>3
      <4> HIDE DEF u, v
      <4>2. QED
        BY <4>1, Concatenation
    <3>5. QED
      BY <3>2, <3>4, Zenon
  <2>3. QED
    BY <2>1, <2>2
<1>4. c <= Len(g[n]) /\ \A j \in 1 .. c : g[n][j] = g[k][j]
  <2>1. \A i \in 1 .. n : Len(g[i]) <= Len(g[n]) /\ \A j \in 1 .. Len(g[i]) : g[n][j] = g[i][j]
    BY PrefixesBegin
  <2>2. QED
    BY <2>1, Zenon
<1> HIDE DEF b, c
<1>5. \A j \in 1 .. b : o + j \in 1 .. c
  BY <1>2, <1>3
<1>6. \A j \in 1 .. b : g[n][o + j] = s[k][j]
  BY <1>3, <1>4, <1>5
<1>7. QED
  BY <1>2, <1>3, <1>4, <1>6 DEF b, c, o

(* What precedes the descriptors of the layout. *)
LEMMA HeadsOfRaw ==
    ASSUME NEW interfaces \in Octet
    PROVE  LET h == DeviceBytes(DEVICE_SIZE, 1) \o ConfigBytes(interfaces) IN
           /\ h \in Seq(Octet) /\ Len(h) = DEVICE_SIZE + CONFIG_SIZE
           /\ h[1] = DEVICE_SIZE /\ h[18] = 1 /\ h[19] = CONFIG_SIZE /\ h[23] = interfaces
<1> DEFINE d == DeviceBytes(DEVICE_SIZE, 1)
           c == ConfigBytes(interfaces)
<1>1. DEVICE_SIZE \in Octet /\ 1 \in Octet
  BY DEF DEVICE_SIZE, Octet
<1>2. d \in Seq(Octet) /\ c \in Seq(Octet)
  BY <1>1, DeviceOctets, ConfigOctets
<1>3. Len(d) = 18 /\ d[1] = 18 /\ d[18] = 1
  BY DEF DeviceBytes, DEVICE_SIZE
<1>4. Len(c) = 9 /\ c[1] = 9 /\ c[5] = interfaces
  BY DEF ConfigBytes, CONFIG_SIZE
<1> HIDE DEF d, c
<1>5. /\ d \o c \in Seq(Octet) /\ Len(d \o c) = Len(d) + Len(c)
      /\ \A j \in 1 .. Len(d) : (d \o c)[j] = d[j]
      /\ \A j \in 1 .. Len(c) : (d \o c)[Len(d) + j] = c[j]
  BY <1>2, Concatenation
<1>6. Len(d \o c) = 27
  BY <1>3, <1>4, <1>5
<1>7. 1 \in 1 .. 18 /\ 18 \in 1 .. 18 /\ 1 \in 1 .. 9 /\ 5 \in 1 .. 9 /\ 18 + 1 = 19 /\ 18 + 5 = 23
  OBVIOUS
<1>8. (d \o c)[1] = 18 /\ (d \o c)[18] = 1 /\ (d \o c)[19] = 9 /\ (d \o c)[23] = interfaces
  <2>1. (d \o c)[1] = 18 /\ (d \o c)[18] = 1
    BY <1>3, <1>5, <1>7, Zenon
  <2>2. (d \o c)[18 + 1] = 9 /\ (d \o c)[18 + 5] = interfaces
    BY <1>3, <1>4, <1>5, <1>7, Zenon
  <2>3. QED
    BY <1>7, <2>1, <2>2
<1>9. QED
  BY <1>5, <1>6, <1>8 DEF d, c, DEVICE_SIZE, CONFIG_SIZE

(* The bytes of a device that is whole are laid out. *)
LEMMA RawIsLaidOut ==
    ASSUME NEW m \in 0 .. 127, NEW l \in [1 .. m -> Standard \cup Faults], NEW interfaces \in Octet
    PROVE  LET r == Raw(l, interfaces, 1) IN Heads(r, interfaces) /\ \E f : LaysOut(f, l, r)
<1> DEFINE h == DeviceBytes(DEVICE_SIZE, 1) \o ConfigBytes(interfaces)
           parts == [k \in DOMAIN l |-> Bytes(l, k)]
           F == FlattenSeq(parts)
           r == h \o F
<1>1. /\ h \in Seq(Octet) /\ Len(h) = 27
      /\ h[1] = 18 /\ h[18] = 1 /\ h[19] = 9 /\ h[23] = interfaces
  <2>1. DEVICE_SIZE = 18 /\ CONFIG_SIZE = 9 /\ 18 + 9 = 27
    BY DEF DEVICE_SIZE, CONFIG_SIZE
  <2>2. /\ h \in Seq(Octet) /\ Len(h) = DEVICE_SIZE + CONFIG_SIZE
        /\ h[1] = DEVICE_SIZE /\ h[18] = 1 /\ h[19] = CONFIG_SIZE /\ h[23] = interfaces
    BY HeadsOfRaw, Zenon
  <2> HIDE DEF h
  <2>3. QED
    BY <2>1, <2>2
<1>2. parts \in Seq(Seq(Octet)) /\ Len(parts) = m /\ m \in Nat /\ Len(l) = m
  <2>1. parts \in [1 .. m -> Seq(Octet)]
    BY PlaceOctets
  <2>2. QED
    BY <2>1
<1>3. \A k \in 1 .. m : parts[k] = Bytes(l, k)
  OBVIOUS
<1>4. Raw(l, interfaces, 1) = r
  BY DEF Raw
<1> HIDE DEF h, parts
<1>5. F \in Seq(Octet)
  BY <1>2, FlattenSeqType
<1>6. Len(F) \in Nat
  BY <1>5
<1> HIDE DEF F
<1>7. r \in Seq(Octet) /\ Len(r) = Len(h) + Len(F)
  BY <1>1, <1>5, ConcatProperties
<1>8. \A i \in 1 .. Len(h) + Len(F) : r[i] = IF i <= Len(h) THEN h[i] ELSE F[i - Len(h)]
  BY <1>1, <1>5, ConcatProperties, Zenon
<1> HIDE DEF r
<1>9. Len(r) = 27 + Len(F)
  BY <1>1, <1>7
<1>10. \A i \in 1 .. 27 + Len(F) : r[i] = IF i <= 27 THEN h[i] ELSE F[i - 27]
  BY <1>1, <1>8
<1>11. Heads(r, interfaces)
  <2>1. 1 \in 1 .. 27 + Len(F) /\ 18 \in 1 .. 27 + Len(F) /\ 19 \in 1 .. 27 + Len(F) /\ 23 \in 1 .. 27 + Len(F)
    BY <1>6
  <2>2. r[1] = 18 /\ r[18] = 1 /\ r[19] = 9 /\ r[23] = interfaces
    BY <1>1, <1>10, <2>1
  <2>3. Len(r) >= 27
    BY <1>6, <1>9
  <2>4. QED
    BY <1>7, <2>2, <2>3 DEF Heads, DEVICE_SIZE, CONFIG_SIZE
<1>12. \E f : LaysOut(f, l, r)
  <2>1. CASE m = 0
    <3> DEFINE f == [k \in 1 .. 1 |-> 27]
    <3>1. F = parts
      BY <1>2, <2>1 DEF F, FlattenSeq
    <3>2. Len(r) = 27
      BY <1>2, <1>9, <2>1, <3>1
    <3>3. LaysOut(f, l, r)
      BY <1>2, <2>1, <3>2 DEF LaysOut, DEVICE_SIZE, CONFIG_SIZE
    <3>4. QED
      BY <3>3
  <2>2. CASE m # 0
    <3>1. PICK g : ArePrefixes(g, parts, m) /\ F = g[m]
      <4>1. Len(parts) # 0
        BY <1>2, <2>2
      <4>2. \E g : ArePrefixes(g, parts, Len(parts)) /\ FlattenSeq(parts) = g[Len(parts)]
        BY <1>2, <4>1, FlattenSeqIsPrefix
      <4>3. QED
        BY <1>2, <4>2 DEF F
    <3> DEFINE o(k) == Preceding(g, k)
               f == [k \in 1 .. m + 1 |-> 27 + o(k)]
    <3>2. ASSUME NEW k \in 1 .. m
          PROVE  /\ o(k) \in Nat /\ parts[k] \in Seq(Octet)
                 /\ Len(g[k]) = o(k) + Len(parts[k]) /\ Len(g[k]) <= Len(F)
                 /\ \A j \in 1 .. Len(parts[k]) : F[o(k) + j] = parts[k][j]
      <4>1. /\ o(k) \in Nat /\ parts[k] \in Seq(Octet)
            /\ Len(g[k]) = o(k) + Len(parts[k]) /\ Len(g[k]) <= Len(g[m])
            /\ \A j \in 1 .. Len(parts[k]) : g[m][o(k) + j] = parts[k][j]
        BY <1>2, <3>1, ItemInFlattenSeq
      <4>2. QED
        BY <3>1, <4>1
    <3>3. \A k \in 1 .. m : Len(parts[k]) \in Nat /\ o(k + 1) = Len(g[k])
      <4>1. \A k \in 1 .. m : k + 1 # 1 /\ k + 1 - 1 = k
        OBVIOUS
      <4>2. \A k \in 1 .. m : Len(parts[k]) \in Nat
        BY <3>2
      <4>3. QED
        BY <4>1, <4>2 DEF Preceding
    <3>4. o(1) = 0 /\ o(m + 1) = Len(F)
      BY <1>2, <2>2, <3>1, <3>3 DEF Preceding
    <3>5. \A k \in 1 .. m + 1 : o(k) \in Nat
      <4>1. \A k \in 1 .. m + 1 : k \in 1 .. m \/ k = m + 1
        BY <1>2
      <4>2. QED
        BY <1>6, <3>2, <3>4, <4>1
    <3> HIDE DEF o
    <3>6. f \in [1 .. m + 1 -> Nat]
      BY <3>5
    <3>7. \A k \in 1 .. m + 1 : f[k] = 27 + o(k)
      OBVIOUS
    <3> HIDE DEF f
    <3>8. f[1] = 27 /\ f[m + 1] = Len(r)
      BY <1>2, <1>9, <3>4, <3>7
    <3>9. ASSUME NEW k \in 1 .. m
          PROVE  /\ f[k + 1] = f[k] + Len(parts[k]) /\ f[k + 1] <= Len(r)
                 /\ \A j \in 1 .. Len(parts[k]) : r[f[k] + j] = parts[k][j]
      <4> DEFINE a == o(k)
                 b == Len(parts[k])
                 z == Len(F)
      <4>1. a \in Nat /\ b \in Nat /\ z \in Nat
        BY <1>6, <3>2, <3>3
      <4>2. k \in 1 .. m + 1 /\ k + 1 \in 1 .. m + 1
        BY <1>2
      <4>3. f[k] = 27 + a /\ f[k + 1] = 27 + o(k + 1)
        BY <3>7, <4>2
      <4>4. o(k + 1) = a + b /\ a + b <= z
        BY <3>2, <3>3
      <4>5. \A j \in 1 .. b : F[a + j] = parts[k][j]
        BY <3>2
      <4>6. Len(r) = 27 + z /\ \A i \in 1 .. 27 + z : r[i] = IF i <= 27 THEN h[i] ELSE F[i - 27]
        BY <1>9, <1>10
      <4> HIDE DEF a, b, z
      <4>7. f[k + 1] = f[k] + b /\ f[k + 1] <= Len(r)
        BY <4>1, <4>3, <4>4, <4>6
      <4>8. \A j \in 1 .. b : f[k] + j \in 1 .. 27 + z /\ ~(f[k] + j <= 27) /\ f[k] + j - 27 = a + j
        BY <4>1, <4>3, <4>4
      <4>9. \A j \in 1 .. b : r[f[k] + j] = parts[k][j]
        <5> SUFFICES ASSUME NEW j \in 1 .. b PROVE r[f[k] + j] = parts[k][j]
          OBVIOUS
        <5>1. f[k] + j \in 1 .. 27 + z /\ ~(f[k] + j <= 27) /\ (f[k] + j) - 27 = a + j
          BY <4>1, <4>3, <4>8
        <5>2. r[f[k] + j] = IF f[k] + j <= 27 THEN h[f[k] + j] ELSE F[(f[k] + j) - 27]
          BY <4>6, <5>1, Zenon
        <5>3. QED
          BY <4>5, <5>1, <5>2, Zenon
      <4>10. QED
        BY <4>7, <4>9 DEF b
    <3>10. LaysOut(f, l, r)
      <4>1. f \in [1 .. Len(l) + 1 -> Nat]
        BY <1>2, <3>6
      <4>2. f[1] = DEVICE_SIZE + CONFIG_SIZE /\ f[Len(l) + 1] = Len(r)
        BY <1>2, <3>8 DEF DEVICE_SIZE, CONFIG_SIZE
      <4>3. ASSUME NEW k \in 1 .. Len(l)
            PROVE  /\ f[k + 1] = f[k] + Len(Bytes(l, k)) /\ f[k + 1] <= Len(r)
                   /\ \A j \in 1 .. Len(Bytes(l, k)) : r[f[k] + j] = Bytes(l, k)[j]
        <5>1. k \in 1 .. m
          BY <1>2
        <5>2. QED
          BY <1>3, <3>9, <5>1
      <4>4. QED
        BY <4>1, <4>2, <4>3 DEF LaysOut
    <3>11. QED
      BY <3>10
  <2>3. QED
    BY <2>1, <2>2
<1>13. QED
  BY <1>4, <1>11, <1>12

-----------------------------------------------------------------------------
(* What the walk finds on a sound device. *)

(* The settings before place k, and no others, are in the configuration. *)
ListedUpTo(l, k) ==
    /\ Len(config.interfaces) = Rank(Used(l), k - 1)
    /\ left = Interfaces(l) - Len(config.interfaces)
    /\ Len(config.interfaces) <= Interfaces(l)
    /\ \A s \in Used(l) : s < k => Describes(config.interfaces[Rank(Used(l), s)], l, s)

(* No setting before place k has an endpoint at k or behind. *)
EndpointsBefore(l, k) == \A s \in 1 .. k - 1 : \A m \in OwnEndpoints(l, s) : m < k

(* A further setting of the first configuration is at place k or behind. *)
SettingAhead(l, k) == \E t \in k .. Len(l) : First(l, t) /\ l[t] \in Settings

(* The interface is that of the setting at place s, with the endpoints     *)
(* before place k so far.                                                  *)
Collecting(l, s, k) ==
    /\ s \in 1 .. k - 1 /\ First(l, s) /\ l[s] \in Settings
    /\ \A m \in s + 1 .. k - 1 : l[m] \notin Settings
    /\ interface.id = Id(l[s]) /\ interface.alternateSetting = Alt(l[s])
    /\ wanted = Eps(l[s])
    /\ Len(interface.endpoints) = Rank(OwnEndpoints(l, s), k - 1)
    /\ \A m \in OwnEndpoints(l, s) :
          m < k => interface.endpoints[Rank(OwnEndpoints(l, s), m)]
                     = [address |-> Address(m), interfaceId |-> Id(l[s])]

(* A further endpoint of the setting at s is at place k or behind. *)
EndpointAhead(l, s, k) == \E m \in OwnEndpoints(l, s) : m >= k

(* The walk is about to look for a setting at descriptor k, ... *)
Goes(f, l) == \E k \in DOMAIN f : base = f[k] /\ ListedUpTo(l, k) /\ EndpointsBefore(l, k)

(* ... looks at descriptor k, ... *)
SeeksInterface(f, l) ==
    \E k \in DOMAIN f : base <= at /\ at = f[k] /\ left > 0 /\ ListedUpTo(l, k) /\ SettingAhead(l, k)

(* ... is there, ... *)
MeetsInterface(f, l) ==
    \E k \in 1 .. Len(l) : at = f[k] /\ left > 0 /\ ListedUpTo(l, k) /\ First(l, k) /\ l[k] \in Settings

(* ... and does the same for an endpoint of the setting at s. *)
Collects(f, l) ==
    \E s \in 1 .. Len(l) : \E k \in DOMAIN f :
       at = f[k] /\ left > 0 /\ ListedUpTo(l, s) /\ Collecting(l, s, k)
SeeksEndpoint(f, l) ==
    \E s \in 1 .. Len(l) : \E k \in DOMAIN f :
       base <= at /\ at = f[k] /\ left > 0 /\ ListedUpTo(l, s) /\ Collecting(l, s, k) /\ EndpointAhead(l, s, k)
MeetsEndpoint(f, l) ==
    \E s \in 1 .. Len(l) : \E k \in OwnEndpoints(l, s) :
       at = f[k] /\ left > 0 /\ ListedUpTo(l, s) /\ Collecting(l, s, k)

Labels == {"device", "config", "interfaces", "find interface", "read interface", "endpoints",
           "find endpoint", "read endpoint", "strings", "done"}

(* Where the cursor is, and what the configuration holds, at each label:   *)
(* the walk meets the descriptors of the layout one after the other and is *)
(* never anywhere else.                                                    *)
OnTheWay(f, l) ==
    /\ pc \in Labels
    /\ pc = "config" => count
    /\ pc = "interfaces" => Goes(f, l)
    /\ pc = "find interface" => SeeksInterface(f, l)
    /\ pc = "read interface" => MeetsInterface(f, l)
    /\ pc = "endpoints" => Collects(f, l)
    /\ pc = "find endpoint" => SeeksEndpoint(f, l)
    /\ pc = "read endpoint" => MeetsEndpoint(f, l)
    /\ ParsedAsLaidOut

SoundWalk ==
    Sound =>
      /\ layout.items \in Seq(Standard)
      /\ Heads(raw, Interfaces(layout.items))
      /\ \E f : LaysOut(f, layout.items, raw) /\ OnTheWay(f, layout.items)

-----------------------------------------------------------------------------
(* The steps of the walk. *)

(* Where the places of a layout are. *)
LEMMA Places ==
    ASSUME NEW l \in Seq(Standard), NEW f, NEW r, LaysOut(f, l, r)
    PROVE  /\ Len(l) \in Nat /\ DOMAIN l = 1 .. Len(l) /\ DOMAIN f = 1 .. Len(l) + 1
           /\ \A k \in DOMAIN f : f[k] \in Nat
           /\ Used(l) \in SUBSET (1 .. Len(l))
           /\ \A s : OwnEndpoints(l, s) \in SUBSET (1 .. Len(l))
<1>1. Len(l) \in Nat /\ DOMAIN l = 1 .. Len(l)
  OBVIOUS
<1>2. f \in [1 .. Len(l) + 1 -> Nat]
  BY DEF LaysOut
<1>3. Used(l) \in SUBSET (1 .. Len(l)) /\ \A s : OwnEndpoints(l, s) \in SUBSET (1 .. Len(l))
  BY <1>1 DEF Used, OwnEndpoints
<1>4. QED
  BY <1>1, <1>2, <1>3

(* The interfaces are counted. *)
LEMMA InterfacesType ==
    ASSUME NEW l
    PROVE  Interfaces(l) \in Nat
BY InterfacesAreFew DEF Octet

(* Where descriptor k begins inside the bytes, and where it does not. *)
LEMMA Inside ==
    ASSUME NEW l \in Seq(Standard), raw \in Seq(Octet), NEW f, LaysOut(f, l, raw), NEW k \in DOMAIN f
    PROVE  f[k] < Len(raw) <=> k \in 1 .. Len(l)
<1>1. Len(l) \in Nat /\ DOMAIN f = 1 .. Len(l) + 1
  BY Places
<1>2. CASE k \in 1 .. Len(l)
  <2>1. /\ f[k] \in Nat /\ Len(raw) \in Nat /\ Byte(f[k]) \in Nat
        /\ f[k] + Byte(f[k]) <= Len(raw) /\ Byte(f[k]) >= 3
    BY <1>2, DescriptorAt
  <2>2. QED
    BY <1>2, <2>1
<1>3. CASE k \notin 1 .. Len(l)
  <2>1. k = Len(l) + 1
    BY <1>1, <1>3
  <2>2. f[k] = Len(raw)
    BY <2>1 DEF LaysOut
  <2>3. Len(raw) \in Nat
    OBVIOUS
  <2>4. QED
    BY <1>3, <2>2, <2>3
<1>4. QED
  BY <1>2, <1>3

(* What a device is does not change. *)
LEMMA SoundStays ==
    ASSUME SoundWalk, UNCHANGED <<layout, raw>>,
           ASSUME Sound, layout.items \in Seq(Standard), Heads(raw, Interfaces(layout.items)),
                  NEW f, LaysOut(f, layout.items, raw), OnTheWay(f, layout.items)
           PROVE  OnTheWay(f, layout.items)'
    PROVE  SoundWalk'
<1> SUFFICES ASSUME Sound
             PROVE  /\ layout.items \in Seq(Standard)
                    /\ Heads(raw, Interfaces(layout.items))
                    /\ \E f : LaysOut(f, layout.items, raw) /\ OnTheWay(f, layout.items)'
  BY DEF SoundWalk, Sound
<1>1. QED
  BY DEF SoundWalk

(* A device begins with what ParseDeviceDescriptor and                     *)
(* ParseConfigDescriptor ask of it.                                        *)
LEMMA DeviceStep ==
    ASSUME SoundWalk, ParseDeviceDescriptor
    PROVE  SoundWalk'
<1>1. UNCHANGED <<layout, raw>>
  BY DEF ParseDeviceDescriptor
<1>2. ASSUME Heads(raw, Interfaces(layout.items)), NEW f
      PROVE  OnTheWay(f, layout.items)'
  <2>1. Len(raw) \in Nat /\ Len(raw) >= 27 /\ raw[1] = 18 /\ raw[18] = 1
    BY <1>2 DEF Heads, DEVICE_SIZE, CONFIG_SIZE
  <2>2. pc' = "config"
    BY DEF ParseDeviceDescriptor, Go
  <2>3. count'
    <3>1. ~Beyond(0, DEVICE_SIZE) /\ Byte(0) = DEVICE_SIZE /\ Byte(17) # 0
      BY <2>1 DEF Beyond, Byte, DEVICE_SIZE
    <3>2. QED
      BY <3>1, Zenon DEF ParseDeviceDescriptor
  <2>4. QED
    BY <2>2, <2>3 DEF OnTheWay, Labels, ParsedAsLaidOut
<1>3. QED
  BY <1>1, <1>2, SoundStays

(* The configuration begins with no interface, before the first            *)
(* descriptor.                                                             *)
LEMMA ConfigStep ==
    ASSUME SoundWalk, ParseConfigDescriptor
    PROVE  SoundWalk'
<1>1. UNCHANGED <<layout, raw>> /\ pc = "config"
  BY DEF ParseConfigDescriptor, device
<1>2. ASSUME layout.items \in Seq(Standard), Heads(raw, Interfaces(layout.items)),
             NEW f, LaysOut(f, layout.items, raw), OnTheWay(f, layout.items)
      PROVE  OnTheWay(f, layout.items)'
  <2> DEFINE l == layout.items
  <2>1. Len(raw) \in Nat /\ Len(raw) >= 27 /\ raw[19] = 9 /\ raw[23] = Interfaces(l)
    BY <1>2 DEF Heads, DEVICE_SIZE, CONFIG_SIZE
  <2>2. count
    BY <1>1, <1>2 DEF OnTheWay
  <2>3. ~Beyond(DEVICE_SIZE, CONFIG_SIZE) /\ Byte(DEVICE_SIZE) = CONFIG_SIZE /\ Len(raw) > DEVICE_SIZE
    BY <2>1 DEF Beyond, Byte, DEVICE_SIZE, CONFIG_SIZE
  <2>4. /\ pc' = "interfaces" /\ base' = DEVICE_SIZE + CONFIG_SIZE /\ left' = Byte(DEVICE_SIZE + 4)
        /\ config' = [present |-> TRUE, id |-> Byte(DEVICE_SIZE + 5), maxPower |-> Byte(DEVICE_SIZE + 8),
                      interfaces |-> <<>>]
    <3>1. Len(raw) \in Nat /\ DEVICE_SIZE \in Nat
      BY <2>1 DEF DEVICE_SIZE
    <3>2. ~(Len(raw) <= DEVICE_SIZE)
      BY <2>3, <3>1
    <3>3. QED
      BY <2>2, <2>3, <3>2 DEF ParseConfigDescriptor, Go
  <2>5. base' = f[1] /\ 1 \in DOMAIN f
    <3>1. DOMAIN f = 1 .. Len(l) + 1 /\ Len(l) \in Nat
      BY <1>2, Places
    <3>2. QED
      BY <1>2, <2>4, <3>1 DEF LaysOut
  <2>6. left' = Interfaces(l) /\ config'.interfaces = <<>>
    BY <2>1, <2>4 DEF Byte, DEVICE_SIZE
  <2>7. Interfaces(l) \in Nat
    BY InterfacesType
  <2>8. Used(l) \in SUBSET (1 .. Len(l)) /\ Rank(Used(l), 0) = 0
    <3>1. Used(l) \in SUBSET (1 .. Len(l))
      BY <1>2, Places
    <3>2. Used(l) \in SUBSET (Nat \ {0})
      BY <3>1
    <3>3. QED
      BY <3>1, <3>2, RankOfNone
  <2>9. ListedUpTo(l, 1)'
    <3>1. l' = l
      BY <1>1
    <3> HIDE DEF l
    <3>2. Len(config'.interfaces) = 0
      BY <2>6
    <3>3. 1 - 1 = 0 /\ \A s \in Used(l) : ~(s < 1)
      BY <2>8
    <3>4. QED
      BY <2>6, <2>7, <2>8, <3>1, <3>2, <3>3 DEF ListedUpTo
  <2>10. EndpointsBefore(l, 1)
    BY DEF EndpointsBefore
  <2>11. Goes(f, l)'
    BY <1>1, <2>5, <2>9, <2>10 DEF Goes
  <2>12. QED
    BY <2>4, <2>11 DEF OnTheWay, Labels, ParsedAsLaidOut
<1>3. QED
  BY <1>1, <1>2, SoundStays

(* Where a setting is still wanted, the layout has one. *)
LEMMA SettingIsAhead ==
    ASSUME NEW l \in Seq(Standard), FollowsStandard(l), EnoughSettings(l), NEW k \in 1 .. Len(l),
           EndpointsBefore(l, k), Rank(Used(l), k - 1) < Interfaces(l)
    PROVE  SettingAhead(l, k)
<1>1. Len(l) \in Nat /\ DOMAIN l = 1 .. Len(l) /\ Len(l) \in 1 .. Len(l)
  OBVIOUS
<1>2. Used(l) \in SUBSET (1 .. Len(l))
  BY <1>1 DEF Used
<1>3. CASE Cardinality(Used(l)) >= Interfaces(l)
  <2>1. Rank(Used(l), k - 1) \in Nat /\ Cardinality(Used(l)) \in Nat /\ Interfaces(l) \in Nat
    <3>1. Used(l) \in SUBSET Nat /\ k - 1 \in Nat
      BY <1>2
    <3>2. QED
      BY <1>1, <1>2, <3>1, RankType, RankOfAll, InterfacesType
  <2>2. Rank(Used(l), k - 1) < Cardinality(Used(l))
    BY <1>3, <2>1
  <2>3. k - 1 \in 0 .. Len(l)
    OBVIOUS
  <2>4. PICK t \in Used(l) : t > k - 1
    BY <1>1, <1>2, <2>2, <2>3, RankIsFull
  <2>5. t \in k .. Len(l)
    BY <1>1, <1>2, <2>4
  <2>6. First(l, t) /\ l[t] \in Settings
    BY DEF Used
  <2>7. QED
    BY <2>5, <2>6 DEF SettingAhead
<1>4. CASE l = <<>>
  BY <1>4
<1>5. CASE l[Len(l)] \in Settings \cup {"E"} /\ First(l, Len(l))
  <2> DEFINE n == Len(l)
  <2>1. n \in k .. n
    BY <1>1
  <2>2. CASE l[n] \in Settings
    BY <1>5, <2>1, <2>2 DEF SettingAhead
  <2>3. CASE l[n] = "E"
    <3>1. PICK s \in DOMAIN l : Owns(l, s, n)
      BY <1>1, <2>3 DEF FollowsStandard
    <3>2. n \in OwnEndpoints(l, s) /\ s \in 1 .. n /\ l[s] \in Settings
      BY <1>1, <3>1 DEF OwnEndpoints, Owns
    <3>3. s \in k .. n
      <4>1. CASE s < k
        <5>1. s \in 1 .. k - 1
          BY <3>2, <4>1
        <5>2. n < k
          BY <3>2, <5>1 DEF EndpointsBefore
        <5>3. QED
          BY <1>1, <5>2
      <4>2. QED
        BY <3>2, <4>1
    <3>4. First(l, s)
      <4>1. \A j \in 1 .. s : j \in 1 .. n
        BY <1>1, <3>2
      <4>2. QED
        BY <1>5, <4>1 DEF First
    <3>5. QED
      BY <3>2, <3>3, <3>4 DEF SettingAhead
  <2>4. QED
    BY <1>5, <2>2, <2>3
<1>6. QED
  BY <1>3, <1>4, <1>5 DEF EnoughSettings, Last

(* What is listed when nothing is wanted any more, or nothing is left. *)
LEMMA ListIsComplete ==
    ASSUME NEW l \in Seq(Standard), NEW k \in 1 .. Len(l) + 1, ListedUpTo(l, k), left = 0 \/ k = Len(l) + 1
    PROVE  LET n == Len(config.interfaces)
           IN  /\ n = IF Cardinality(Used(l)) < Interfaces(l) THEN Cardinality(Used(l)) ELSE Interfaces(l)
               /\ \A s \in Used(l) : Rank(Used(l), s) <= n => Describes(config.interfaces[Rank(Used(l), s)], l, s)
<1> DEFINE S == Used(l)
           n == Len(config.interfaces)
           all == Cardinality(Used(l))
           some == Interfaces(l)
<1>1. Len(l) \in Nat /\ DOMAIN l = 1 .. Len(l) /\ k - 1 \in 0 .. Len(l) /\ k - 1 \in Nat /\ k \in Nat
  OBVIOUS
<1>2. S \in SUBSET (1 .. Len(l)) /\ S \in SUBSET Nat
  <2>1. S \in SUBSET (1 .. Len(l))
    BY <1>1 DEF Used
  <2>2. QED
    BY <2>1
<1>3. some \in Nat /\ all \in Nat /\ n \in Nat /\ n <= all /\ n <= some /\ left = some - n
  <2>1. n = Rank(S, k - 1) /\ n <= some /\ left = some - n
    BY DEF ListedUpTo
  <2>2. some \in Nat
    BY InterfacesType
  <2>3. Rank(S, k - 1) \in Nat /\ all \in Nat /\ Rank(S, k - 1) <= all
    BY <1>1, <1>2, RankType, RankOfAll
  <2>4. QED
    BY <2>1, <2>2, <2>3
<1>4. k = Len(l) + 1 => n = all
  <2> SUFFICES ASSUME k = Len(l) + 1 PROVE n = all
    OBVIOUS
  <2>1. k - 1 = Len(l)
    BY <1>1
  <2>2. QED
    BY <1>1, <1>2, <2>1, RankOfAll DEF ListedUpTo
<1>5. n = IF all < some THEN all ELSE some
  <2> HIDE DEF n, all, some
  <2>1. QED
    BY <1>3, <1>4
<1>6. ASSUME NEW s \in S, Rank(S, s) <= n
      PROVE  Describes(config.interfaces[Rank(S, s)], l, s)
  <2>1. s < k
    <3> SUFFICES ASSUME ~(s < k) PROVE FALSE
      OBVIOUS
    <3>1. s \in Nat /\ s > 0 /\ s - 1 \in Nat /\ k - 1 <= s - 1
      BY <1>1, <1>2
    <3>2. Rank(S, s) = Rank(S, s - 1) + 1
      BY <1>2, <3>1, RankOfNext
    <3>3. Rank(S, k - 1) <= Rank(S, s - 1) /\ Rank(S, s - 1) \in Nat /\ Rank(S, k - 1) \in Nat
      BY <1>1, <1>2, <3>1, RankGrows, RankType
    <3>4. n = Rank(S, k - 1)
      BY DEF ListedUpTo
    <3>5. QED
      BY <1>6, <3>2, <3>3, <3>4
  <2>2. QED
    BY <2>1 DEF ListedUpTo
<1>7. QED
  BY <1>5, <1>6

(* The loop over interfaces goes on while there is a setting, and ends     *)
(* with the configuration as it is laid out.                               *)
LEMMA NextInterfaceStep ==
    ASSUME SoundWalk, NextInterface
    PROVE  SoundWalk'
<1>1. UNCHANGED <<layout, raw>> /\ UNCHANGED <<base, left, config>> /\ pc = "interfaces" /\ at' = base
  BY DEF NextInterface, device
<1>2. ASSUME Sound, layout.items \in Seq(Standard), Heads(raw, Interfaces(layout.items)),
             NEW f, LaysOut(f, layout.items, raw), OnTheWay(f, layout.items)
      PROVE  OnTheWay(f, layout.items)'
  <2> DEFINE l == layout.items
  <2>1. raw \in Seq(Octet) /\ Len(raw) \in Nat
    BY <1>2 DEF Heads
  <2>2. PICK k \in DOMAIN f : base = f[k] /\ ListedUpTo(l, k) /\ EndpointsBefore(l, k)
    BY <1>1, <1>2 DEF OnTheWay, Goes
  <2>3. Len(l) \in Nat /\ DOMAIN f = 1 .. Len(l) + 1 /\ f[k] \in Nat
    BY <1>2, Places
  <2>4. Interfaces(l) \in Nat
    BY InterfacesType
  <2>5. l' = l
    BY <1>1
  <2>6. k \in Nat /\ Rank(Used(l), k - 1) \in Nat
    <3>1. k \in Nat /\ k - 1 \in Nat
      BY <2>3
    <3>2. Used(l) \in SUBSET (1 .. Len(l))
      BY <1>2, Places
    <3>3. Used(l) \in SUBSET Nat
      BY <3>2
    <3>4. QED
      BY <3>1, <3>3, RankType
  <2>7. CASE left > 0 /\ base < Len(raw)
    <3>1. k \in 1 .. Len(l)
      BY <1>2, <2>1, <2>2, <2>7, Inside
    <3>2. Rank(Used(l), k - 1) < Interfaces(l)
      BY <2>2, <2>4, <2>6, <2>7 DEF ListedUpTo
    <3>3. SettingAhead(l, k)
      BY <1>2, <2>2, <3>1, <3>2, SettingIsAhead DEF Sound
    <3>4. pc' = "find interface"
      BY <2>7 DEF NextInterface, Go
    <3>5. ListedUpTo(l, k)'
      BY <1>1, <2>2, <2>5 DEF ListedUpTo
    <3>6. base' <= at' /\ at' = f[k] /\ left' > 0
      BY <1>1, <2>2, <2>3, <2>7
    <3>7. SeeksInterface(f, l)'
      BY <2>5, <3>3, <3>5, <3>6 DEF SeeksInterface
    <3>8. QED
      BY <3>4, <3>7 DEF OnTheWay, Labels, ParsedAsLaidOut
  <2>8. CASE ~(left > 0 /\ base < Len(raw))
    <3>1. pc' = "strings"
      BY <2>8 DEF NextInterface, Go
    <3>2. left = 0 \/ k = Len(l) + 1
      <4>1. left \in Nat
        <5>1. Len(config.interfaces) = Rank(Used(l), k - 1) /\ Len(config.interfaces) <= Interfaces(l)
              /\ left = Interfaces(l) - Len(config.interfaces)
          BY <2>2 DEF ListedUpTo
        <5>2. QED
          BY <2>4, <2>6, <5>1
      <4>2. CASE base < Len(raw)
        BY <2>8, <4>1, <4>2
      <4>3. CASE ~(base < Len(raw))
        <5>1. k \notin 1 .. Len(l)
          BY <1>2, <2>1, <2>2, <4>3, Inside
        <5>2. QED
          BY <2>3, <5>1
      <4>4. QED
        BY <4>2, <4>3
    <3>3. LET n == Len(config.interfaces)
          IN  /\ n = IF Cardinality(Used(l)) < Interfaces(l) THEN Cardinality(Used(l)) ELSE Interfaces(l)
              /\ \A s \in Used(l) : Rank(Used(l), s) <= n => Describes(config.interfaces[Rank(Used(l), s)], l, s)
      BY <1>2, <2>2, <2>3, <3>2, ListIsComplete
    <3>4. ParsedAsLaidOut'
      BY <1>1, <3>3 DEF ParsedAsLaidOut
    <3>5. QED
      BY <3>1, <3>4 DEF OnTheWay, Labels
  <2>9. QED
    BY <2>7, <2>8
<1>3. QED
  BY <1>1, <1>2, SoundStays

(* A descriptor that is looked at is one of the type that is looked for,   *)
(* or is passed: nothing in it is taken for a fault.                       *)
LEMMA LookPasses ==
    ASSUME NEW l \in Seq(Standard), raw \in Seq(Octet), NEW f, LaysOut(f, l, raw), NEW k \in 1 .. Len(l),
           base \in Nat, base <= at, at = f[k], NEW here, NEW type, NEW there,
           \/ Look(here, type, there, InterfaceFails)
           \/ Look(here, type, there, EndpointFails)
    PROVE  /\ UNCHANGED <<layout, raw>> /\ UNCHANGED <<base, left, interface, wanted, config>>
           /\ \/ Byte(at + 1) = type /\ pc' = there /\ at' = at
              \/ Byte(at + 1) # type /\ pc' = pc /\ at' = f[k + 1]
<1>1. /\ at \in Nat /\ Len(raw) \in Nat /\ Byte(at) \in Nat
      /\ f[k + 1] = at + Byte(at) /\ at + Byte(at) <= Len(raw) /\ Byte(at) >= 3
  BY DescriptorAt
<1>2. ~(at >= Len(raw)) /\ at < Len(raw) /\ ~(HEADER_SIZE >= Len(raw) - base) /\ HEADER_SIZE < Len(raw) - base
  BY <1>1 DEF HEADER_SIZE
<1>3. ~Beyond(at, HEADER_SIZE)
  BY <1>1 DEF Beyond, HEADER_SIZE
<1>4. ~(Byte(at) > Len(raw) - base)
  BY <1>1
<1>5. \/ /\ Byte(at + 1) = type /\ Go(there)
         /\ UNCHANGED <<device, base, at, left, interface, wanted, config>>
      \/ /\ Byte(at + 1) # type /\ at' = at + Byte(at)
         /\ UNCHANGED <<pc, device, base, left, interface, wanted, config>>
  <2>1. CASE Look(here, type, there, InterfaceFails)
    BY <1>2, <1>3, <1>4, <2>1, Zenon DEF Look
  <2>2. CASE Look(here, type, there, EndpointFails)
    BY <1>2, <1>3, <1>4, <2>2, Zenon DEF Look
  <2>3. QED
    BY <2>1, <2>2
<1>6. QED
  BY <1>1, <1>5 DEF device, Go

(* The search for a setting passes what belongs to no setting any more,    *)
(* and stops at the next one.                                              *)
LEMMA FindInterfaceStep ==
    ASSUME WalkType, SoundWalk, FindInterface
    PROVE  SoundWalk'
<1>1. pc = "find interface" /\ UNCHANGED <<layout, raw>>
  BY DEF FindInterface, Look, InterfaceFails, device
<1>2. ASSUME layout.items \in Seq(Standard), Heads(raw, Interfaces(layout.items)),
             NEW f, LaysOut(f, layout.items, raw), OnTheWay(f, layout.items)
      PROVE  OnTheWay(f, layout.items)'
  <2> DEFINE l == layout.items
  <2>1. raw \in Seq(Octet) /\ base \in Nat
    BY <1>2 DEF Heads, WalkType
  <2>2. PICK k \in DOMAIN f : base <= at /\ at = f[k] /\ left > 0 /\ ListedUpTo(l, k) /\ SettingAhead(l, k)
    BY <1>1, <1>2 DEF OnTheWay, SeeksInterface
  <2>3. PICK t \in k .. Len(l) : First(l, t) /\ l[t] \in Settings
    BY <2>2 DEF SettingAhead
  <2>4. Len(l) \in Nat /\ DOMAIN f = 1 .. Len(l) + 1 /\ DOMAIN l = 1 .. Len(l) /\ Used(l) \in SUBSET (1 .. Len(l))
    BY <1>2, Places
  <2>5. k \in 1 .. Len(l) /\ k + 1 \in DOMAIN f /\ t \in Nat /\ k <= t
    BY <2>3, <2>4
  <2>6. /\ UNCHANGED <<layout, raw>> /\ UNCHANGED <<base, left, interface, wanted, config>>
        /\ \/ Byte(at + 1) = DESCRIPTOR_TYPE_INTERFACE /\ pc' = "read interface" /\ at' = at
           \/ Byte(at + 1) # DESCRIPTOR_TYPE_INTERFACE /\ pc' = pc /\ at' = f[k + 1]
    BY <1>2, <2>1, <2>2, <2>5, LookPasses DEF FindInterface
  <2>7. /\ f[k] \in Nat /\ Byte(f[k]) \in Nat /\ f[k + 1] = f[k] + Byte(f[k])
        /\ Byte(at + 1) = DESCRIPTOR_TYPE_INTERFACE <=> l[k] \in Settings
    BY <1>2, <2>1, <2>2, <2>5, DescriptorAt
  <2>8. l' = l
    BY <2>6
  <2>9. CASE l[k] \in Settings
    <3>1. pc' = "read interface" /\ at' = at
      BY <2>6, <2>7, <2>9
    <3>2. First(l, k)
      BY <2>3, <2>5 DEF First
    <3>3. ListedUpTo(l, k)'
      BY <2>2, <2>6, <2>8 DEF ListedUpTo
    <3>4. MeetsInterface(f, l)'
      BY <2>2, <2>5, <2>6, <2>8, <2>9, <3>1, <3>2, <3>3 DEF MeetsInterface
    <3>5. QED
      BY <2>6, <3>1, <3>4 DEF OnTheWay, Labels, ParsedAsLaidOut
  <2>10. CASE l[k] \notin Settings
    <3>1. pc' = "find interface" /\ at' = f[k + 1]
      BY <1>1, <2>6, <2>7, <2>10
    <3>2. t \in k + 1 .. Len(l)
      <4>1. t # k
        BY <2>3, <2>10
      <4>2. QED
        BY <2>3, <2>4, <2>5, <4>1
    <3>3. SettingAhead(l, k + 1)
      BY <2>3, <3>2 DEF SettingAhead
    <3>4. k \notin Used(l) /\ Used(l) \in SUBSET Nat
      BY <2>4, <2>10 DEF Used
    <3>5. Rank(Used(l), k + 1 - 1) = Rank(Used(l), k - 1)
      <4>1. k \in Nat /\ k > 0 /\ k + 1 - 1 = k
        BY <2>5
      <4>2. QED
        BY <3>4, <4>1, RankOfNext
    <3>6. \A s \in Used(l) : s < k + 1 => s < k
      BY <2>5, <3>4
    <3>7. ListedUpTo(l, k + 1)'
      <4>1. /\ Len(config.interfaces) = Rank(Used(l), k + 1 - 1)
            /\ left = Interfaces(l) - Len(config.interfaces) /\ Len(config.interfaces) <= Interfaces(l)
        BY <2>2, <3>5 DEF ListedUpTo
      <4>2. \A s \in Used(l) : s < k + 1 => Describes(config.interfaces[Rank(Used(l), s)], l, s)
        BY <2>2, <3>6 DEF ListedUpTo
      <4>3. config' = config /\ left' = left
        BY <2>6
      <4>4. QED
        BY <2>8, <4>1, <4>2, <4>3 DEF ListedUpTo
    <3>8. base' <= at' /\ at' = f[k + 1] /\ left' > 0
      <4>1. base <= f[k] /\ left > 0 /\ base' = base /\ left' = left
        BY <2>2, <2>6
      <4>2. base <= f[k] + Byte(f[k])
        BY <2>1, <2>7, <4>1
      <4>3. QED
        BY <2>7, <3>1, <4>1, <4>2
    <3>9. SeeksInterface(f, l)'
      BY <2>5, <2>8, <3>3, <3>7, <3>8 DEF SeeksInterface
    <3>10. QED
      BY <2>6, <3>1, <3>9 DEF OnTheWay, Labels, ParsedAsLaidOut
  <2>11. QED
    BY <2>9, <2>10
<1>3. QED
  BY <1>1, <1>2, SoundStays

(* The setting that is met is the next one of the layout, with no endpoint *)
(* yet.                                                                    *)
LEMMA ReadInterfaceStep ==
    ASSUME WalkType, FreshInterface, SoundWalk, ReadInterface
    PROVE  SoundWalk'
<1>1. pc = "read interface" /\ UNCHANGED <<layout, raw>>
  BY DEF ReadInterface, InterfaceFails, device
<1>2. ASSUME layout.items \in Seq(Standard), Heads(raw, Interfaces(layout.items)),
             NEW f, LaysOut(f, layout.items, raw), OnTheWay(f, layout.items)
      PROVE  OnTheWay(f, layout.items)'
  <2> DEFINE l == layout.items
  <2>1. raw \in Seq(Octet) /\ interface \in InterfaceSet /\ interface.endpoints = <<>>
    BY <1>1, <1>2 DEF Heads, WalkType, FreshInterface
  <2>2. PICK k \in 1 .. Len(l) :
          at = f[k] /\ left > 0 /\ ListedUpTo(l, k) /\ First(l, k) /\ l[k] \in Settings
    BY <1>1, <1>2 DEF OnTheWay, MeetsInterface
  <2>3. /\ at \in Nat /\ Len(raw) \in Nat /\ k + 1 \in DOMAIN f
        /\ f[k + 1] = at + Byte(at) /\ at + Byte(at) <= Len(raw) /\ Byte(at) = INTERFACE_SIZE
        /\ Byte(at + 2) = Id(l[k]) /\ Byte(at + 3) = Alt(l[k]) /\ Byte(at + 4) = Eps(l[k])
    BY <1>2, <2>1, <2>2, DescriptorAt
  <2>4. ~Beyond(at, INTERFACE_SIZE)
    BY <2>3 DEF Beyond, INTERFACE_SIZE
  <2>5. /\ pc' = "endpoints" /\ at' = at + INTERFACE_SIZE /\ wanted' = Byte(at + 4)
        /\ interface' = [interface EXCEPT !.id = Byte(at + 2), !.alternateSetting = Byte(at + 3),
                                          !.iInterface = Byte(at + 8)]
        /\ UNCHANGED <<left, config>>
    BY <2>3, <2>4 DEF ReadInterface, Go
  <2>6. /\ interface'.id = Id(l[k]) /\ interface'.alternateSetting = Alt(l[k])
        /\ interface'.endpoints = <<>> /\ wanted' = Eps(l[k]) /\ at' = f[k + 1]
    BY <2>1, <2>3, <2>5 DEF InterfaceSet
  <2>7. l' = l
    BY <1>1
  <2>8. OwnEndpoints(l, k) \in SUBSET Nat /\ \A m \in OwnEndpoints(l, k) : m > k
    <3>1. OwnEndpoints(l, k) \in SUBSET (1 .. Len(l))
      BY <1>2, Places
    <3>2. QED
      BY <3>1 DEF OwnEndpoints, Owns
  <2>9. k \in Nat /\ k + 1 - 1 = k /\ k \in 1 .. k + 1 - 1 /\ k + 1 .. k + 1 - 1 = {}
    OBVIOUS
  <2>10. Rank(OwnEndpoints(l, k), k) = 0
    <3>1. {m \in OwnEndpoints(l, k) : m <= k} = {}
      <4>1. \A m \in OwnEndpoints(l, k) : ~(m <= k)
        BY <2>8, <2>9
      <4>2. QED
        BY <4>1, Zenon
    <3>2. QED
      BY <3>1, FS_EmptySet DEF Rank
  <2>11. Collecting(l, k, k + 1)'
    <3>1. \A m \in OwnEndpoints(l, k) : ~(m < k + 1)
      BY <2>8, <2>9
    <3>2. Len(interface'.endpoints) = Rank(OwnEndpoints(l, k), k + 1 - 1)
      BY <2>6, <2>9, <2>10
    <3>3. QED
      BY <2>2, <2>6, <2>7, <2>9, <3>1, <3>2 DEF Collecting
  <2>12. ListedUpTo(l, k)'
    BY <2>2, <2>5, <2>7 DEF ListedUpTo
  <2>13. Collects(f, l)'
    BY <2>2, <2>3, <2>5, <2>6, <2>7, <2>11, <2>12 DEF Collects
  <2>14. QED
    BY <2>5, <2>13 DEF OnTheWay, Labels, ParsedAsLaidOut
<1>3. QED
  BY <1>1, <1>2, SoundStays

(* Of a setting whose endpoints are not complete there is one ahead, and   *)
(* of one whose are there is none.                                         *)
LEMMA EndpointIsAhead ==
    ASSUME NEW l \in Seq(Standard), FollowsStandard(l), NEW s \in 1 .. Len(l), NEW k \in 1 .. Len(l) + 1,
           Collecting(l, s, k)
    PROVE  /\ Len(interface.endpoints) < wanted <=> EndpointAhead(l, s, k)
           /\ Len(interface.endpoints) \in Nat /\ wanted \in Nat /\ Len(interface.endpoints) <= wanted
<1> DEFINE S == OwnEndpoints(l, s)
<1>1. Len(l) \in Nat /\ DOMAIN l = 1 .. Len(l) /\ k - 1 \in 0 .. Len(l) /\ k \in Nat
  OBVIOUS
<1>2. S \in SUBSET (1 .. Len(l))
  BY <1>1 DEF OwnEndpoints
<1>3. wanted = Cardinality(S)
  BY <1>1 DEF Collecting, FollowsStandard
<1>4. Len(interface.endpoints) = Rank(S, k - 1)
  BY DEF Collecting
<1> HIDE DEF S
<1>5. Rank(S, k - 1) < Cardinality(S) <=> \E m \in S : m > k - 1
  BY <1>1, <1>2, RankIsFull
<1>6. (\E m \in S : m > k - 1) <=> \E m \in S : m >= k
  <2>1. \A m \in S : m > k - 1 <=> m >= k
    BY <1>1, <1>2
  <2>2. QED
    BY <2>1
<1>7. Rank(S, k - 1) \in Nat /\ Cardinality(S) \in Nat /\ Rank(S, k - 1) <= Cardinality(S)
  <2>1. S \in SUBSET Nat /\ k - 1 \in Nat
    BY <1>1, <1>2
  <2>2. QED
    BY <1>1, <1>2, <2>1, RankType, RankOfAll
<1>8. QED
  BY <1>3, <1>4, <1>5, <1>6, <1>7 DEF EndpointAhead, S

(* An endpoint is looked for only where the layout has one more, before    *)
(* the end of the bytes.                                                   *)
LEMMA NextEndpointStep ==
    ASSUME WalkType, SoundWalk, NextEndpoint
    PROVE  SoundWalk'
<1>1. pc = "endpoints" /\ UNCHANGED <<layout, raw>> /\ Len(interface.endpoints) < wanted
  BY DEF NextEndpoint, EndpointFails, device
<1>2. ASSUME Sound, layout.items \in Seq(Standard), Heads(raw, Interfaces(layout.items)),
             NEW f, LaysOut(f, layout.items, raw), OnTheWay(f, layout.items)
      PROVE  OnTheWay(f, layout.items)'
  <2> DEFINE l == layout.items
  <2>1. raw \in Seq(Octet) /\ Len(raw) \in Nat
    BY <1>2 DEF Heads
  <2>2. PICK s \in 1 .. Len(l) : \E k \in DOMAIN f :
          at = f[k] /\ left > 0 /\ ListedUpTo(l, s) /\ Collecting(l, s, k)
    BY <1>1, <1>2 DEF OnTheWay, Collects
  <2>3. PICK k \in DOMAIN f : at = f[k] /\ left > 0 /\ ListedUpTo(l, s) /\ Collecting(l, s, k)
    BY <2>2
  <2>4. /\ Len(l) \in Nat /\ DOMAIN f = 1 .. Len(l) + 1 /\ f[k] \in Nat
        /\ OwnEndpoints(l, s) \in SUBSET (1 .. Len(l))
    BY <1>2, Places
  <2>5. EndpointAhead(l, s, k)
    BY <1>1, <1>2, <2>3, <2>4, EndpointIsAhead DEF Sound
  <2>6. k \in 1 .. Len(l)
    BY <2>4, <2>5 DEF EndpointAhead
  <2>7. at # Len(raw)
    BY <1>2, <2>1, <2>3, <2>4, <2>6, Inside
  <2>8. pc' = "find endpoint" /\ base' = at /\ UNCHANGED <<at, left, interface, wanted, config>>
    BY <2>7 DEF NextEndpoint, Go
  <2>9. l' = l
    BY <1>1
  <2>10. ListedUpTo(l, s)'
    BY <2>3, <2>8, <2>9 DEF ListedUpTo
  <2>11. Collecting(l, s, k)'
    BY <2>3, <2>8, <2>9 DEF Collecting
  <2>12. base' <= at' /\ at' = f[k] /\ left' > 0
    <3>1. f[k] <= f[k]
      BY <2>4
    <3>2. base' = f[k] /\ at' = f[k] /\ left' = left /\ left > 0
      BY <2>3, <2>8
    <3>3. QED
      BY <3>1, <3>2
  <2>13. SeeksEndpoint(f, l)'
    BY <2>5, <2>9, <2>10, <2>11, <2>12 DEF SeeksEndpoint
  <2>14. QED
    BY <2>8, <2>13 DEF OnTheWay, Labels, ParsedAsLaidOut
<1>3. QED
  BY <1>1, <1>2, SoundStays

(* The search for an endpoint passes what is none, and stops at the        *)
(* setting's next one.                                                     *)
LEMMA FindEndpointStep ==
    ASSUME WalkType, SoundWalk, FindEndpoint
    PROVE  SoundWalk'
<1>1. pc = "find endpoint" /\ UNCHANGED <<layout, raw>>
  BY DEF FindEndpoint, Look, EndpointFails, device
<1>2. ASSUME layout.items \in Seq(Standard), Heads(raw, Interfaces(layout.items)),
             NEW f, LaysOut(f, layout.items, raw), OnTheWay(f, layout.items)
      PROVE  OnTheWay(f, layout.items)'
  <2> DEFINE l == layout.items
             S(s) == OwnEndpoints(l, s)
  <2>1. raw \in Seq(Octet) /\ base \in Nat
    BY <1>2 DEF Heads, WalkType
  <2>2. PICK s \in 1 .. Len(l) : \E k \in DOMAIN f :
          base <= at /\ at = f[k] /\ left > 0 /\ ListedUpTo(l, s) /\ Collecting(l, s, k) /\ EndpointAhead(l, s, k)
    BY <1>1, <1>2 DEF OnTheWay, SeeksEndpoint
  <2>3. PICK k \in DOMAIN f :
          base <= at /\ at = f[k] /\ left > 0 /\ ListedUpTo(l, s) /\ Collecting(l, s, k) /\ EndpointAhead(l, s, k)
    BY <2>2
  <2>4. /\ Len(l) \in Nat /\ DOMAIN f = 1 .. Len(l) + 1 /\ DOMAIN l = 1 .. Len(l)
        /\ S(s) \in SUBSET (1 .. Len(l))
    BY <1>2, Places
  <2>5. PICK m \in S(s) : m >= k
    BY <2>3 DEF EndpointAhead
  <2>6. /\ m \in 1 .. Len(l) /\ k \in 1 .. Len(l) /\ k + 1 \in DOMAIN f /\ k \in Nat /\ k <= m
        /\ s \in 1 .. k - 1 /\ s < k
    BY <2>3, <2>4, <2>5 DEF Collecting
  <2>7. Owns(l, s, m)
    BY <2>5 DEF OwnEndpoints
  <2>8. k \in s + 1 .. m
    BY <2>6
  <2>9. l[k] \notin Settings
    BY <2>7, <2>8 DEF Owns
  <2>10. k \in S(s) <=> l[k] = "E"
    <3>1. \A j \in s + 1 .. k : j \in s + 1 .. m
      BY <2>6
    <3>2. \A j \in s + 1 .. k : l[j] \notin Settings \cup {"C"}
      BY <2>7, <3>1 DEF Owns
    <3>3. l[s] \in Settings
      BY <2>7 DEF Owns
    <3>4. Owns(l, s, k) <=> l[k] = "E"
      BY <2>6, <3>2, <3>3 DEF Owns
    <3>5. QED
      BY <2>4, <2>6, <3>4 DEF OwnEndpoints
  <2>11. /\ UNCHANGED <<layout, raw>> /\ UNCHANGED <<base, left, interface, wanted, config>>
         /\ \/ Byte(at + 1) = DESCRIPTOR_TYPE_ENDPOINT /\ pc' = "read endpoint" /\ at' = at
            \/ Byte(at + 1) # DESCRIPTOR_TYPE_ENDPOINT /\ pc' = pc /\ at' = f[k + 1]
    BY <1>2, <2>1, <2>3, <2>6, LookPasses DEF FindEndpoint
  <2>12. /\ f[k] \in Nat /\ Byte(f[k]) \in Nat /\ f[k + 1] = f[k] + Byte(f[k])
         /\ Byte(at + 1) = DESCRIPTOR_TYPE_ENDPOINT <=> l[k] = "E"
    BY <1>2, <2>1, <2>3, <2>6, DescriptorAt
  <2>13. l' = l
    BY <1>1
  <2>14. ListedUpTo(l, s)'
    BY <2>3, <2>11, <2>13 DEF ListedUpTo
  <2>15. CASE l[k] = "E"
    <3>1. pc' = "read endpoint" /\ at' = at
      BY <2>11, <2>12, <2>15
    <3>2. Collecting(l, s, k)'
      BY <2>3, <2>11, <2>13 DEF Collecting
    <3>3. k \in S(s)
      BY <2>10, <2>15
    <3>4. MeetsEndpoint(f, l)'
      BY <2>3, <2>11, <2>13, <2>14, <3>1, <3>2, <3>3 DEF MeetsEndpoint
    <3>5. QED
      BY <3>1, <3>4 DEF OnTheWay, Labels, ParsedAsLaidOut
  <2>16. CASE l[k] # "E"
    <3>1. pc' = "find endpoint" /\ at' = f[k + 1]
      BY <1>1, <2>11, <2>12, <2>16
    <3>2. k \notin S(s) /\ S(s) \in SUBSET Nat /\ k > 0 /\ k + 1 - 1 = k
      BY <2>4, <2>6, <2>10, <2>16
    <3>3. Rank(S(s), k + 1 - 1) = Rank(S(s), k - 1)
      BY <2>6, <3>2, RankOfNext
    <3>4. Collecting(l, s, k + 1)
      <4>1. \A j \in S(s) : j < k + 1 => j < k
        BY <2>6, <3>2
      <4>2. \A j \in s + 1 .. k + 1 - 1 : l[j] \notin Settings
        <5>1. \A j \in s + 1 .. k : j \in s + 1 .. m
          BY <2>6
        <5>2. QED
          BY <2>7, <3>2, <5>1 DEF Owns
      <4>3. s \in 1 .. k + 1 - 1
        BY <2>6
      <4>4. QED
        BY <2>3, <3>3, <4>1, <4>2, <4>3 DEF Collecting
    <3>5. Collecting(l, s, k + 1)'
      BY <2>11, <2>13, <3>4 DEF Collecting
    <3>6. EndpointAhead(l, s, k + 1)
      <4>1. m # k
        BY <2>5, <3>2
      <4>2. m >= k + 1
        BY <2>6, <4>1
      <4>3. QED
        BY <2>5, <4>2 DEF EndpointAhead
    <3>7. base' <= at' /\ at' = f[k + 1] /\ left' > 0
      <4>1. base <= f[k] /\ left > 0 /\ base' = base /\ left' = left
        BY <2>3, <2>11
      <4>2. base <= f[k] + Byte(f[k])
        BY <2>1, <2>12, <4>1
      <4>3. QED
        BY <2>12, <3>1, <4>1, <4>2
    <3>8. SeeksEndpoint(f, l)'
      BY <2>6, <2>13, <2>14, <3>5, <3>6, <3>7 DEF SeeksEndpoint
    <3>9. QED
      BY <3>1, <3>8 DEF OnTheWay, Labels, ParsedAsLaidOut
  <2>17. QED
    BY <2>15, <2>16
<1>3. QED
  BY <1>1, <1>2, SoundStays

(* The endpoint that is met is the setting's next one. *)
LEMMA ReadEndpointStep ==
    ASSUME WalkType, SoundWalk, ReadEndpoint
    PROVE  SoundWalk'
<1>1. pc = "read endpoint" /\ UNCHANGED <<layout, raw>>
  BY DEF ReadEndpoint, EndpointFails, device
<1>2. ASSUME layout.items \in Seq(Standard), Heads(raw, Interfaces(layout.items)),
             NEW f, LaysOut(f, layout.items, raw), OnTheWay(f, layout.items)
      PROVE  OnTheWay(f, layout.items)'
  <2> DEFINE l == layout.items
             S(s) == OwnEndpoints(l, s)
             es == interface.endpoints
  <2>1. raw \in Seq(Octet) /\ interface \in InterfaceSet /\ es \in Seq(EndpointSet)
    BY <1>2 DEF Heads, WalkType, InterfaceSet
  <2>2. PICK s \in 1 .. Len(l) : \E k \in OwnEndpoints(l, s) :
          at = f[k] /\ left > 0 /\ ListedUpTo(l, s) /\ Collecting(l, s, k)
    BY <1>1, <1>2 DEF OnTheWay, MeetsEndpoint
  <2>3. PICK k \in OwnEndpoints(l, s) : at = f[k] /\ left > 0 /\ ListedUpTo(l, s) /\ Collecting(l, s, k)
    BY <2>2
  <2>4. S(s) \in SUBSET (1 .. Len(l)) /\ S(s) \in SUBSET Nat /\ k \in 1 .. Len(l) /\ k \in Nat /\ k > 0
        /\ k + 1 - 1 = k /\ k - 1 \in Nat
    <3>1. S(s) \in SUBSET (1 .. Len(l))
      BY <1>2, Places
    <3>2. QED
      BY <3>1
  <2>5. l[k] = "E"
    BY DEF OwnEndpoints, Owns
  <2>6. /\ at \in Nat /\ Len(raw) \in Nat /\ k + 1 \in DOMAIN f
        /\ f[k + 1] = at + Byte(at) /\ at + Byte(at) <= Len(raw)
        /\ Byte(at) = ENDPOINT_SIZE /\ Byte(at + 2) = Address(k)
    BY <1>2, <2>1, <2>3, <2>4, <2>5, DescriptorAt
  <2>7. ~Beyond(at, ENDPOINT_SIZE)
    BY <2>6 DEF Beyond, ENDPOINT_SIZE
  <2> DEFINE e == [address |-> Byte(at + 2), interfaceId |-> interface.id]
  <2>8. /\ pc' = "endpoints" /\ at' = at + ENDPOINT_SIZE
        /\ interface' = [interface EXCEPT !.endpoints = Append(@, e)]
        /\ UNCHANGED <<left, wanted, config>>
    BY <2>6, <2>7 DEF ReadEndpoint, Go
  <2>9. e = [address |-> Address(k), interfaceId |-> Id(l[s])]
    BY <2>3, <2>6 DEF Collecting
  <2>10. e \in EndpointSet
    <3>1. interface.id \in Octet
      BY <2>1 DEF InterfaceSet
    <3>2. at + 2 \in Nat /\ at + 2 < Len(raw)
      BY <2>6 DEF ENDPOINT_SIZE
    <3>3. Byte(at + 2) \in Octet
      BY <2>1, <3>2, ByteType
    <3>4. QED
      BY <3>1, <3>3 DEF EndpointSet
  <2> HIDE DEF e
  <2>11. /\ interface'.id = interface.id /\ interface'.alternateSetting = interface.alternateSetting
         /\ interface'.endpoints = Append(es, e) /\ at' = f[k + 1]
    BY <2>1, <2>6, <2>8 DEF InterfaceSet
  <2>12. /\ Len(es) \in Nat /\ Len(Append(es, e)) = Len(es) + 1
         /\ \A i \in 1 .. Len(es) : Append(es, e)[i] = es[i]
         /\ Append(es, e)[Len(es) + 1] = e
    BY <2>1, <2>10, AppendProperties
  <2>13. Len(es) = Rank(S(s), k - 1) /\ Rank(S(s), k) = Len(es) + 1
    <3>1. Len(es) = Rank(S(s), k - 1)
      BY <2>3 DEF Collecting
    <3>2. QED
      BY <2>3, <2>4, <3>1, RankOfNext
  <2>14. ASSUME NEW m \in S(s), m < k + 1
         PROVE  interface'.endpoints[Rank(S(s), m)] = [address |-> Address(m), interfaceId |-> Id(l[s])]
    <3>1. m \in Nat /\ m > 0
      BY <2>4
    <3>2. CASE m = k
      BY <2>9, <2>11, <2>12, <2>13, <3>2
    <3>3. CASE m # k
      <4>1. m < k /\ m <= k - 1 /\ m - 1 \in Nat
        BY <2>4, <2>14, <3>1, <3>3
      <4>2. es[Rank(S(s), m)] = [address |-> Address(m), interfaceId |-> Id(l[s])]
        BY <2>3, <4>1 DEF Collecting
      <4>3. Rank(S(s), m) <= Len(es)
        BY <2>4, <2>13, <3>1, <4>1, RankGrows
      <4>4. Rank(S(s), m) = Rank(S(s), m - 1) + 1 /\ Rank(S(s), m - 1) \in Nat
        BY <2>4, <3>1, <4>1, RankOfNext, RankType
      <4>5. Rank(S(s), m) \in 1 .. Len(es)
        BY <2>12, <4>3, <4>4
      <4>6. QED
        BY <2>11, <2>12, <4>2, <4>5
    <3>4. QED
      BY <3>2, <3>3
  <2>15. l' = l
    BY <1>1
  <2>16. Collecting(l, s, k + 1)'
    <3>1. s \in 1 .. k + 1 - 1 /\ First(l, s) /\ l[s] \in Settings
      BY <2>3, <2>4 DEF Collecting
    <3>2. \A j \in s + 1 .. k + 1 - 1 : l[j] \notin Settings
      <4>1. \A j \in s + 1 .. k + 1 - 1 : j = k \/ j \in s + 1 .. k - 1
        BY <2>4
      <4>2. l[k] \notin Settings
        BY <2>5 DEF Settings
      <4>3. QED
        BY <2>3, <4>1, <4>2 DEF Collecting
    <3>3. interface'.id = Id(l[s]) /\ interface'.alternateSetting = Alt(l[s]) /\ wanted' = Eps(l[s])
      BY <2>3, <2>8, <2>11 DEF Collecting
    <3>4. Len(interface'.endpoints) = Rank(S(s), k + 1 - 1)
      BY <2>4, <2>11, <2>12, <2>13
    <3>5. \A m \in OwnEndpoints(l, s) :
             m < k + 1 => interface'.endpoints[Rank(OwnEndpoints(l, s), m)]
                            = [address |-> Address(m), interfaceId |-> Id(l[s])]
      BY <2>14
    <3>6. QED
      BY <2>4, <2>15, <3>1, <3>2, <3>3, <3>4, <3>5 DEF Collecting
  <2>17. ListedUpTo(l, s)'
    BY <2>3, <2>8, <2>15 DEF ListedUpTo
  <2>18. Collects(f, l)'
    BY <2>3, <2>6, <2>8, <2>11, <2>15, <2>16, <2>17 DEF Collects
  <2>19. QED
    BY <2>8, <2>18 DEF OnTheWay, Labels, ParsedAsLaidOut
<1>3. QED
  BY <1>1, <1>2, SoundStays

(* An interface with all its endpoints is its setting's. *)
LEMMA CompleteDescribes ==
    ASSUME NEW l \in Seq(Standard), FollowsStandard(l), NEW s \in 1 .. Len(l), NEW k \in 1 .. Len(l) + 1,
           Collecting(l, s, k), Len(interface.endpoints) = wanted
    PROVE  Describes(interface, l, s) /\ \A m \in OwnEndpoints(l, s) : m < k
<1>1. wanted \in Nat /\ ~EndpointAhead(l, s, k)
  BY EndpointIsAhead
<1>2. OwnEndpoints(l, s) \in SUBSET Nat /\ k \in Nat
  BY DEF OwnEndpoints
<1>3. \A m \in OwnEndpoints(l, s) : m < k
  <2> SUFFICES ASSUME NEW m \in OwnEndpoints(l, s), ~(m < k) PROVE FALSE
    OBVIOUS
  <2>1. m >= k
    BY <1>2
  <2>2. QED
    BY <1>1, <2>1 DEF EndpointAhead
<1>4. QED
  BY <1>3 DEF Collecting, Describes

(* It is added to the configuration in its place, unless it is dropped     *)
(* because it has no endpoints; then it is none of those that are wanted.  *)
LEMMA EndInterfaceStep ==
    ASSUME WalkType, SoundWalk, EndInterface
    PROVE  SoundWalk'
<1>1. /\ pc = "endpoints" /\ UNCHANGED <<layout, raw>> /\ Len(interface.endpoints) = wanted
      /\ pc' = "interfaces" /\ base' = at
  BY DEF EndInterface, device, Go
<1>2. ASSUME Sound, layout.items \in Seq(Standard), Heads(raw, Interfaces(layout.items)),
             NEW f, LaysOut(f, layout.items, raw), OnTheWay(f, layout.items)
      PROVE  OnTheWay(f, layout.items)'
  <2> DEFINE l == layout.items
             U == Used(l)
             fs == config.interfaces
  <2>1. config \in ConfigSet /\ fs \in Seq(InterfaceSet) /\ interface \in InterfaceSet
    BY DEF WalkType, ConfigSet
  <2>2. PICK s \in 1 .. Len(l) : \E k \in DOMAIN f :
          at = f[k] /\ left > 0 /\ ListedUpTo(l, s) /\ Collecting(l, s, k)
    BY <1>1, <1>2 DEF OnTheWay, Collects
  <2>3. PICK k \in DOMAIN f : at = f[k] /\ left > 0 /\ ListedUpTo(l, s) /\ Collecting(l, s, k)
    BY <2>2
  <2>4. /\ Len(l) \in Nat /\ DOMAIN l = 1 .. Len(l) /\ k \in 1 .. Len(l) + 1 /\ U \in SUBSET (1 .. Len(l))
    BY <1>2, Places
  <2>5. U \in SUBSET Nat /\ k \in Nat /\ k - 1 \in Nat /\ s \in Nat /\ s > 0 /\ s - 1 \in Nat /\ s <= k - 1
    <3>1. s \in 1 .. k - 1
      BY <2>3 DEF Collecting
    <3>2. U \in SUBSET Nat
      BY <2>4
    <3>3. QED
      BY <2>4, <3>1, <3>2
  <2>6. Describes(interface, l, s) /\ \A m \in OwnEndpoints(l, s) : m < k
    BY <1>1, <1>2, <2>3, <2>4, CompleteDescribes DEF Sound
  <2>7. First(l, s) /\ l[s] \in Settings /\ wanted = Eps(l[s]) /\ \A m \in s + 1 .. k - 1 : l[m] \notin Settings
    BY <2>3 DEF Collecting
  <2>8. Rank(U, k - 1) = Rank(U, s)
    <3>1. \A m \in s + 1 .. k - 1 : m \notin U
      BY <2>7 DEF Used
    <3>2. QED
      BY <2>5, <3>1, RankOfGap
  <2>9. \A m \in U : m < k => m < s \/ m = s
    <3> SUFFICES ASSUME NEW m \in U, m < k, ~(m < s), m # s PROVE FALSE
      OBVIOUS
    <3>1. m \in s + 1 .. k - 1
      BY <2>5
    <3>2. l[m] \in Settings
      BY DEF Used
    <3>3. QED
      BY <2>7, <3>1, <3>2
  <2>10. EndpointsBefore(l, k)
    <3> SUFFICES ASSUME NEW q \in 1 .. k - 1, NEW m \in OwnEndpoints(l, q), ~(m < k) PROVE FALSE
      BY DEF EndpointsBefore
    <3>1. q < m /\ l[q] \in Settings /\ (\A j \in q + 1 .. m : l[j] \notin Settings) /\ m \in Nat
      BY <2>4 DEF OwnEndpoints, Owns
    <3>2. CASE q = s
      BY <2>6, <3>2
    <3>3. CASE q < s
      <4>1. s \in q + 1 .. m
        BY <2>5, <3>1, <3>3
      <4>2. QED
        BY <2>7, <3>1, <4>1
    <3>4. CASE q > s
      <4>1. q \in s + 1 .. k - 1
        BY <2>5, <3>4
      <4>2. QED
        BY <2>7, <3>1, <4>1
    <3>5. QED
      BY <2>5, <3>2, <3>3, <3>4
  <2>11. /\ Len(fs) = Rank(U, s - 1) /\ left = Interfaces(l) - Len(fs) /\ Len(fs) <= Interfaces(l)
         /\ \A m \in U : m < s => Describes(fs[Rank(U, m)], l, m)
    BY <2>3 DEF ListedUpTo
  <2>12. Interfaces(l) \in Nat /\ Len(fs) \in Nat /\ left > 0
    BY <2>1, <2>3, InterfacesType
  <2>13. l' = l
    BY <1>1
  <2>14. CASE wanted > 0
    <3>1. s \in U
      BY <2>4, <2>7, <2>14 DEF Used
    <3>2. config' = [config EXCEPT !.interfaces = Append(@, interface)] /\ left' = left - 1
      BY <2>14 DEF EndInterface
    <3>3. config'.interfaces = Append(fs, interface)
      BY <2>1, <3>2 DEF ConfigSet
    <3>4. /\ Len(Append(fs, interface)) = Len(fs) + 1
          /\ \A i \in 1 .. Len(fs) : Append(fs, interface)[i] = fs[i]
          /\ Append(fs, interface)[Len(fs) + 1] = interface
      BY <2>1, AppendProperties
    <3>5. Rank(U, s) = Len(fs) + 1
      BY <2>5, <2>11, <3>1, RankOfNext
    <3>6. ASSUME NEW m \in U, m < k
          PROVE  Describes(config'.interfaces[Rank(U, m)], l, m)
      <4>1. CASE m = s
        BY <2>6, <3>3, <3>4, <3>5, <4>1
      <4>2. CASE m < s
        <5>1. m \in Nat /\ m > 0 /\ m - 1 \in Nat /\ m <= s - 1
          BY <2>4, <2>5, <4>2
        <5>2. Rank(U, m) <= Len(fs)
          BY <2>5, <2>11, <5>1, RankGrows
        <5>3. Rank(U, m) = Rank(U, m - 1) + 1 /\ Rank(U, m - 1) \in Nat
          BY <2>5, <5>1, RankOfNext, RankType
        <5>4. Rank(U, m) \in 1 .. Len(fs)
          BY <2>12, <5>2, <5>3
        <5>5. QED
          BY <2>11, <3>3, <3>4, <4>2, <5>4
      <4>3. QED
        BY <2>9, <3>6, <4>1, <4>2
    <3>7. Len(config'.interfaces) = Rank(U, k - 1)
      BY <2>8, <3>3, <3>4, <3>5
    <3>8. left' = Interfaces(l) - Len(config'.interfaces) /\ Len(config'.interfaces) <= Interfaces(l)
      BY <2>11, <2>12, <3>2, <3>3, <3>4
    <3>9. ListedUpTo(l, k)'
      BY <2>13, <3>6, <3>7, <3>8 DEF ListedUpTo
    <3>10. Goes(f, l)'
      BY <1>1, <2>3, <2>10, <2>13, <3>9 DEF Goes
    <3>11. QED
      BY <1>1, <3>10 DEF OnTheWay, Labels, ParsedAsLaidOut
  <2>15. CASE ~(wanted > 0)
    <3>1. s \notin U
      BY <2>7, <2>15 DEF Used
    <3>2. UNCHANGED <<config, left>>
      BY <2>15 DEF EndInterface
    <3>3. Rank(U, k - 1) = Rank(U, s - 1)
      BY <2>5, <2>8, <3>1, RankOfNext
    <3>4. \A m \in U : m < k => m < s
      BY <2>9, <3>1
    <3>5. ListedUpTo(l, k)'
      BY <2>11, <2>13, <3>2, <3>3, <3>4 DEF ListedUpTo
    <3>6. Goes(f, l)'
      BY <1>1, <2>3, <2>10, <2>13, <3>5 DEF Goes
    <3>7. QED
      BY <1>1, <3>6 DEF OnTheWay, Labels, ParsedAsLaidOut
  <2>16. QED
    BY <2>14, <2>15
<1>3. QED
  BY <1>1, <1>2, SoundStays

(* The strings change nothing of what is laid out. *)
LEMMA StringsStep ==
    ASSUME WalkType, SoundWalk, FillDevStrings
    PROVE  SoundWalk'
<1>1. pc = "strings" /\ pc' = "done" /\ UNCHANGED <<layout, raw>>
  BY DEF FillDevStrings, device, Go
<1> DEFINE fs == config.interfaces
<1>2. config \in ConfigSet /\ fs \in Seq(InterfaceSet) /\ Len(fs) \in Nat /\ DOMAIN fs = 1 .. Len(fs)
  <2>1. config \in ConfigSet /\ fs \in Seq(InterfaceSet)
    BY DEF WalkType, ConfigSet
  <2>2. QED
    BY <2>1
<1>3. PICK unreadable :
        config' = [config EXCEPT !.interfaces =
            [i \in DOMAIN @ |-> [@[i] EXCEPT !.name = StringVal(config.interfaces[i].iInterface, unreadable)]]]
  BY DEF FillDevStrings
<1> DEFINE gs == [i \in 1 .. Len(fs) |-> [fs[i] EXCEPT !.name = StringVal(fs[i].iInterface, unreadable)]]
<1>4. config' = [config EXCEPT !.interfaces = gs]
  BY <1>2, <1>3
<1>5. ASSUME NEW i \in 1 .. Len(fs)
      PROVE  /\ gs[i].id = fs[i].id /\ gs[i].alternateSetting = fs[i].alternateSetting
             /\ gs[i].endpoints = fs[i].endpoints
  <2>1. fs[i] \in InterfaceSet
    BY <1>2
  <2>2. gs[i] = [fs[i] EXCEPT !.name = StringVal(fs[i].iInterface, unreadable)]
    OBVIOUS
  <2> HIDE DEF gs
  <2>3. QED
    BY <2>1, <2>2 DEF InterfaceSet
<1>6. Len(gs) = Len(fs)
  BY <1>2
<1> HIDE DEF gs
<1>7. config'.interfaces = gs
  BY <1>2, <1>4 DEF ConfigSet
<1>8. ASSUME Sound, layout.items \in Seq(Standard), ParsedAsLaidOut
      PROVE  ParsedAsLaidOut'
  <2> DEFINE l == layout.items
             n == Len(fs)
             U == Used(l)
  <2>1. /\ n = IF Cardinality(U) < Interfaces(l) THEN Cardinality(U) ELSE Interfaces(l)
        /\ \A s \in U : Rank(U, s) <= n => Describes(fs[Rank(U, s)], l, s)
    BY <1>1, <1>8 DEF ParsedAsLaidOut
  <2>2. ASSUME NEW s \in U, Rank(U, s) <= n
        PROVE  Describes(gs[Rank(U, s)], l, s)
    <3>1. U \in SUBSET (Nat \ {0}) /\ U \in SUBSET Nat /\ s \in Nat /\ s > 0 /\ s - 1 \in Nat
      <4>1. DOMAIN l = 1 .. Len(l) /\ Len(l) \in Nat
        BY <1>8
      <4>2. U \in SUBSET (1 .. Len(l))
        BY <4>1 DEF Used
      <4>3. QED
        BY <4>1, <4>2
    <3>2. Rank(U, s) = Rank(U, s - 1) + 1 /\ Rank(U, s - 1) \in Nat
      BY <3>1, RankOfNext, RankType
    <3>3. Rank(U, s) \in 1 .. n
      BY <1>2, <2>2, <3>2
    <3>4. Describes(fs[Rank(U, s)], l, s)
      BY <2>1, <2>2
    <3>5. QED
      BY <1>5, <3>3, <3>4 DEF Describes
  <2>3. l' = l /\ config'.interfaces = gs /\ Len(gs) = n
    BY <1>1, <1>6, <1>7
  <2>4. QED
    BY <2>1, <2>2, <2>3 DEF ParsedAsLaidOut
<1>9. ASSUME Sound, layout.items \in Seq(Standard), NEW f, OnTheWay(f, layout.items)
      PROVE  OnTheWay(f, layout.items)'
  BY <1>1, <1>8, <1>9 DEF OnTheWay, Labels
<1>10. QED
  BY <1>1, <1>9, SoundStays

(* Standard descriptors that follow one another, given by their entries.   *)
LEMMA StandardsByEntry ==
    ASSUME NEW s, NEW n \in 0 .. 127, s \in [1 .. n -> Standard]
    PROVE  s \in Seq(Standard)
<1>1. n \in Nat
  OBVIOUS
<1>2. QED
  BY <1>1

(* A sound device is one of those that are whole, and its bytes are its    *)
(* layout's.                                                               *)
LEMMA SoundInit ==
    ASSUME Init
    PROVE  SoundWalk
<1> SUFFICES ASSUME Sound
             PROVE  /\ layout.items \in Seq(Standard)
                    /\ Heads(raw, Interfaces(layout.items))
                    /\ \E f : LaysOut(f, layout.items, raw) /\ OnTheWay(f, layout.items)
  BY DEF SoundWalk
<1>1. pc = "device"
  BY DEF Init, Start
<1>2. PICK input \in Inputs : layout = input /\ raw = Raw(input.items, input.interfaces, 1)
  BY DEF Init, Sound
<1>3. \E m \in 0 .. 127 : layout.items \in [1 .. m -> Standard \cup Faults]
  <2> DEFINE Free == {[items |-> l, interfaces |-> n, cut |-> FALSE] :
                          l \in SeqOf(Standard \cup Faults, MaxItems), n \in 1 .. 2}
             Whole == {[items |-> l, interfaces |-> Interfaces(l), cut |-> FALSE] :
                          l \in {m \in SeqOf(Standard, MaxSound) : FollowsStandard(m)}}
  <2>1. input \in Free \/ input \in Whole
    BY DEF Inputs
  <2>2. CASE input \in Free
    <3>1. input.items \in SeqOf(Standard \cup Faults, MaxItems)
      BY <2>2
    <3>2. QED
      BY <1>2, <3>1, DescriptorConstants, LayoutType
  <2>3. CASE input \in Whole
    <3>1. input.items \in SeqOf(Standard, MaxSound)
      BY <2>3
    <3>2. QED
      BY <1>2, <3>1, DescriptorConstants, LayoutType
  <2> HIDE DEF Free, Whole
  <2>4. QED
    BY <2>1, <2>2, <2>3
<1>4. PICK m \in 0 .. 127 : layout.items \in [1 .. m -> Standard \cup Faults]
  BY <1>3
<1>5. layout.items \in Seq(Standard)
  <2>1. \A k \in 1 .. m : layout.items[k] \in Standard
    BY <1>4 DEF Sound, FollowsStandard
  <2>2. layout.items \in [1 .. m -> Standard]
    BY <1>4, <2>1
  <2>3. QED
    BY <2>2, StandardsByEntry
<1>6. raw = Raw(layout.items, Interfaces(layout.items), 1)
  BY <1>2 DEF Sound
<1>7. Heads(raw, Interfaces(layout.items)) /\ \E f : LaysOut(f, layout.items, raw)
  BY <1>4, <1>6, InterfacesAreFew, RawIsLaidOut
<1>8. \A f : OnTheWay(f, layout.items)
  BY <1>1 DEF OnTheWay, Labels, ParsedAsLaidOut
<1>9. QED
  BY <1>5, <1>7, <1>8

(* On a sound device the walk meets the descriptors of the layout one      *)
(* after the other, always.                                                *)
THEOREM SoundWalkInvariance == PathSpec => []SoundWalk
<1>1. PathInit => SoundWalk
  BY SoundInit DEF PathInit
<1>2. PathInv /\ SoundWalk /\ [PathNext]_<<vars, pathVars>> => SoundWalk'
  <2> SUFFICES ASSUME PathInv, SoundWalk, [PathNext]_<<vars, pathVars>> PROVE SoundWalk'
    OBVIOUS
  <2>1. CASE Parse
    <3>1. WalkType /\ FreshInterface
      BY DEF PathInv
    <3>2. QED
      BY <2>1, <3>1, DeviceStep, ConfigStep, NextInterfaceStep, FindInterfaceStep, ReadInterfaceStep, EndInterfaceStep,
         NextEndpointStep, FindEndpointStep, ReadEndpointStep, StringsStep DEF Parse
  <2>2. CASE UNCHANGED vars
    <3>1. /\ UNCHANGED <<layout, raw>> /\ UNCHANGED <<pc, count, base, at, left>>
          /\ UNCHANGED <<interface, wanted, config>>
      BY <2>2 DEF vars
    <3>2. ASSUME NEW f, OnTheWay(f, layout.items)
          PROVE  OnTheWay(f, layout.items)'
      <4> DEFINE l == layout.items
      <4>1. \A k : ListedUpTo(l, k)' <=> ListedUpTo(l, k)
        BY <3>1 DEF ListedUpTo
      <4>2. \A s, k : Collecting(l, s, k)' <=> Collecting(l, s, k)
        BY <3>1 DEF Collecting
      <4>3. /\ Goes(f, l) => Goes(f, l)'
            /\ SeeksInterface(f, l) => SeeksInterface(f, l)'
            /\ MeetsInterface(f, l) => MeetsInterface(f, l)'
        BY <3>1, <4>1 DEF Goes, SeeksInterface, MeetsInterface
      <4>4. /\ Collects(f, l) => Collects(f, l)'
            /\ SeeksEndpoint(f, l) => SeeksEndpoint(f, l)'
            /\ MeetsEndpoint(f, l) => MeetsEndpoint(f, l)'
        BY <3>1, <4>1, <4>2 DEF Collects, SeeksEndpoint, MeetsEndpoint
      <4>5. ParsedAsLaidOut => ParsedAsLaidOut'
        BY <3>1 DEF ParsedAsLaidOut, Sound
      <4>6. QED
        BY <3>1, <3>2, <4>3, <4>4, <4>5 DEF OnTheWay
    <3>3. QED
      BY <3>1, <3>2, SoundStays
  <2>3. Parse \/ UNCHANGED vars
    BY DEF PathNext, GetDevices, Attached, ConnectDevice, SetConfiguration, UseInterface, BulkTransfer,
       RequestInitialize, RequestUse
  <2>4. QED
    BY <2>1, <2>2, <2>3
<1>3. QED
  BY <1>1, <1>2, PathInvariance, PTL DEF PathSpec

(* The parser stays inside the bytes of a sound device, of every layout,   *)
(* although it reads interfaces and endpoints without comparing its cursor *)
(* with the length.                                                        *)
THEOREM SoundReadsStayInside == PathSpec => []ReadsStayInside
<1>1. SoundWalk => ReadsStayInside
  BY DEF SoundWalk, OnTheWay, Labels, ReadsStayInside
<1>2. QED
  BY <1>1, SoundWalkInvariance, PTL

(* What it makes of a sound device, of every layout, is what the layout    *)
(* says: the first settings with endpoints in their order, each with its   *)
(* own endpoints.                                                          *)
THEOREM SoundIsParsedAsLaidOut == PathSpec => []ParsedAsLaidOut
<1>1. SoundWalk => ParsedAsLaidOut
  BY DEF SoundWalk, OnTheWay, ParsedAsLaidOut
<1>2. QED
  BY <1>1, SoundWalkInvariance, PTL
=============================================================================
