--------------------------- MODULE UsbHostProofs ---------------------------
(***************************************************************************)
(* Theorems about UsbHost for any number of devices and of plugs: which    *)
(* devices are listed when usbd is quiet, what is broadcast, what is       *)
(* allocated and what the service leaves open.                             *)
(***************************************************************************)
EXTENDS UsbHost, SequenceTheorems, TLAPS

Adding == {"open", "descriptor", "config", "endless", "close", "publish", "insert"}
Detaching == {"detach", "find", "erase"}

-----------------------------------------------------------------------------
(* The queue of events q *)

Waits(q, a) == \E i \in 1 .. Len(q) : q[i].addr = a
IsFirst(q, i) == \A k \in 1 .. Len(q) : k < i => q[k].addr # q[i].addr
IsLast(q, i) == \A k \in 1 .. Len(q) : i < k => q[k].addr # q[i].addr
IsNext(q, i, j) ==
    /\ i < j /\ q[i].addr = q[j].addr
    /\ \A k \in 1 .. Len(q) : i < k /\ k < j => q[k].addr # q[i].addr

(* Attaches and detaches of a device alternate. *)
Alternates(q) == \A i, j \in 1 .. Len(q) : IsNext(q, i, j) => q[i].status # q[j].status

(* The last event of a device says where it is. *)
EndsWith(q, there) ==
    \A i \in 1 .. Len(q) : IsLast(q, i) => (q[i].status = "ACT_DEVUP" <=> q[i].addr \in there)

(* The first event of the devices in ups, if one waits, is not a second    *)
(* attach.                                                                 *)
NoAttachFirst(q, ups) ==
    \A i \in 1 .. Len(q) : IsFirst(q, i) /\ q[i].addr \in ups => q[i].status # "ACT_DEVUP"

(* Sending an event: it is the last one, and the only one that may be next *)
(* after the last before it.                                               *)
LEMMA SendEvent ==
    ASSUME NEW q \in Seq(Events), NEW e \in Events
    PROVE  LET r == Append(q, e) IN
           /\ r \in Seq(Events)
           /\ Len(r) = Len(q) + 1 /\ Len(q) \in Nat
           /\ r[Len(q) + 1] = e
           /\ \A i \in 1 .. Len(q) : r[i] = q[i]
           /\ \A a : Waits(r, a) <=> Waits(q, a) \/ a = e.addr
<1> DEFINE r == Append(q, e)
<1>1. /\ r \in Seq(Events)
      /\ Len(r) = Len(q) + 1 /\ Len(q) \in Nat
      /\ r[Len(q) + 1] = e
      /\ \A i \in 1 .. Len(q) : r[i] = q[i]
  BY AppendProperties, LenProperties
<1>2. ASSUME NEW a PROVE Waits(r, a) <=> Waits(q, a) \/ a = e.addr
  <2> HIDE DEF r
  <2>1. \A i \in 1 .. Len(r) : i \in 1 .. Len(q) \/ i = Len(q) + 1
    BY <1>1
  <2>2. \A i \in 1 .. Len(q) : i \in 1 .. Len(r)
    BY <1>1
  <2>3. Len(q) + 1 \in 1 .. Len(r)
    BY <1>1
  <2>4. QED
    BY <1>1, <2>1, <2>2, <2>3 DEF Waits
<1>3. QED
  BY <1>1, <1>2

(* usbd sends an attach for a device that was away, a detach for one that  *)
(* was there.                                                              *)
LEMMA SendKeepsOrder ==
    ASSUME NEW q \in Seq(Events), NEW e \in Events, NEW there,
           Alternates(q), EndsWith(q, there),
           e.status = "ACT_DEVUP" <=> e.addr \notin there
    PROVE  /\ Alternates(Append(q, e))
           /\ e.status = "ACT_DEVUP" => EndsWith(Append(q, e), there \cup {e.addr})
           /\ e.status # "ACT_DEVUP" => EndsWith(Append(q, e), there \ {e.addr})
<1> DEFINE r == Append(q, e)
<1>1. /\ r \in Seq(Events)
      /\ Len(r) = Len(q) + 1 /\ Len(q) \in Nat
      /\ r[Len(q) + 1] = e
      /\ \A i \in 1 .. Len(q) : r[i] = q[i]
  BY SendEvent
<1> HIDE DEF r
<1>2. \A i \in 1 .. Len(q) : q[i] \in Events
  BY ElementOfSeq
<1>3. Alternates(r)
  <2> SUFFICES ASSUME NEW i \in 1 .. Len(r), NEW j \in 1 .. Len(r), IsNext(r, i, j)
               PROVE  r[i].status # r[j].status
    BY DEF Alternates
  <2>1. i \in 1 .. Len(q) /\ i < j
    BY <1>1 DEF IsNext
  <2>2. CASE j \in 1 .. Len(q)
    <3>1. IsNext(q, i, j)
      BY <1>1, <2>1, <2>2 DEF IsNext
    <3>2. QED
      BY <1>1, <2>1, <2>2, <3>1 DEF Alternates
  <2>3. CASE j = Len(q) + 1
    <3>1. IsLast(q, i) /\ q[i].addr = e.addr
      BY <1>1, <2>1, <2>3 DEF IsNext, IsLast
    <3>2. q[i].status = "ACT_DEVUP" <=> e.addr \in there
      BY <2>1, <3>1 DEF EndsWith
    <3>3. QED
      BY <1>1, <2>1, <2>3, <3>2
  <2>4. QED
    BY <1>1, <2>2, <2>3
<1>4. ASSUME NEW i \in 1 .. Len(r), IsLast(r, i)
      PROVE  \/ i = Len(q) + 1 /\ r[i] = e
             \/ i \in 1 .. Len(q) /\ IsLast(q, i) /\ r[i] = q[i] /\ q[i].addr # e.addr
  BY <1>1, <1>4 DEF IsLast
<1>5. e.status = "ACT_DEVUP" => EndsWith(r, there \cup {e.addr})
  BY <1>4 DEF EndsWith
<1>6. e.status # "ACT_DEVUP" => EndsWith(r, there \ {e.addr})
  BY <1>4 DEF EndsWith
<1>7. QED
  BY <1>3, <1>5, <1>6 DEF r

(* An attach that is sent is not a second one if its device is not among   *)
(* ups, or an event of the device still waits.                             *)
LEMMA SendKeepsFirst ==
    ASSUME NEW q \in Seq(Events), NEW e \in Events, NEW ups,
           NoAttachFirst(q, ups),
           e.status = "ACT_DEVUP" /\ e.addr \in ups => Waits(q, e.addr)
    PROVE  NoAttachFirst(Append(q, e), ups)
<1> DEFINE r == Append(q, e)
<1>1. /\ r \in Seq(Events)
      /\ Len(r) = Len(q) + 1 /\ Len(q) \in Nat
      /\ r[Len(q) + 1] = e
      /\ \A i \in 1 .. Len(q) : r[i] = q[i]
  BY SendEvent
<1> HIDE DEF r
<1> SUFFICES ASSUME NEW i \in 1 .. Len(r), IsFirst(r, i), r[i].addr \in ups
             PROVE  r[i].status # "ACT_DEVUP"
  BY DEF NoAttachFirst, r
<1>2. CASE i \in 1 .. Len(q)
  <2>1. IsFirst(q, i)
    BY <1>1, <1>2 DEF IsFirst
  <2>2. QED
    BY <1>1, <1>2, <2>1 DEF NoAttachFirst
<1>3. CASE i = Len(q) + 1
  <2>1. ~Waits(q, e.addr)
    BY <1>1, <1>3 DEF IsFirst, Waits
  <2>2. QED
    BY <1>1, <1>3, <2>1
<1>4. QED
  BY <1>1, <1>2, <1>3

(* Taking the first event. *)
LEMMA TakeEvent ==
    ASSUME NEW q \in Seq(Events), q # <<>>
    PROVE  /\ Head(q) \in Events /\ Tail(q) \in Seq(Events)
           /\ Len(q) \in Nat \ {0} /\ Len(Tail(q)) = Len(q) - 1
           /\ Head(q) = q[1]
           /\ \A i \in 1 .. Len(Tail(q)) : Tail(q)[i] = q[i + 1]
           /\ \A a : Waits(q, a) <=> Waits(Tail(q), a) \/ a = Head(q).addr
<1>1. /\ Head(q) \in Events /\ Tail(q) \in Seq(Events)
      /\ Len(q) \in Nat \ {0} /\ Len(Tail(q)) = Len(q) - 1
      /\ Head(q) = q[1]
      /\ \A i \in 1 .. Len(Tail(q)) : Tail(q)[i] = q[i + 1]
  BY HeadTailProperties, EmptySeq
<1>2. ASSUME NEW a PROVE Waits(q, a) <=> Waits(Tail(q), a) \/ a = Head(q).addr
  <2>1. ASSUME NEW i \in 1 .. Len(q), q[i].addr = a, i # 1 PROVE Waits(Tail(q), a)
    <3>1. i - 1 \in 1 .. Len(Tail(q)) /\ Tail(q)[i - 1] = q[i]
      BY <1>1, <2>1
    <3>2. QED
      BY <2>1, <3>1 DEF Waits
  <2>2. ASSUME NEW i \in 1 .. Len(Tail(q)), Tail(q)[i].addr = a PROVE Waits(q, a)
    <3>1. i + 1 \in 1 .. Len(q) /\ q[i + 1] = Tail(q)[i]
      BY <1>1
    <3>2. QED
      BY <2>2, <3>1 DEF Waits
  <2>3. 1 \in 1 .. Len(q)
    BY <1>1
  <2>4. QED
    BY <1>1, <2>1, <2>2, <2>3 DEF Waits
<1>3. QED
  BY <1>1, <1>2

(* Taking one keeps the order; an attach that is taken was the first, and *)
(* a device with no further event is where the event says.                 *)
LEMMA TakeKeepsOrder ==
    ASSUME NEW q \in Seq(Events), q # <<>>, NEW there, NEW ups,
           Alternates(q), EndsWith(q, there), NoAttachFirst(q, ups)
    PROVE  /\ Alternates(Tail(q)) /\ EndsWith(Tail(q), there)
           /\ Head(q).status = "ACT_DEVUP" => NoAttachFirst(Tail(q), ups \cup {Head(q).addr})
           /\ NoAttachFirst(Tail(q), ups \ {Head(q).addr})
           /\ Head(q).status = "ACT_DEVUP" => Head(q).addr \notin ups
           /\ ~Waits(Tail(q), Head(q).addr) => (Head(q).status = "ACT_DEVUP" <=> Head(q).addr \in there)
<1> DEFINE r == Tail(q)
<1>1. /\ r \in Seq(Events)
      /\ Len(q) \in Nat \ {0} /\ Len(r) = Len(q) - 1
      /\ Head(q) = q[1]
      /\ \A i \in 1 .. Len(r) : r[i] = q[i + 1]
  BY TakeEvent
<1> HIDE DEF r
<1>2. \A i \in 1 .. Len(r) : i + 1 \in 1 .. Len(q)
  BY <1>1
<1>3. \A k \in 1 .. Len(q) : k = 1 \/ (k - 1 \in 1 .. Len(r) /\ r[k - 1] = q[k])
  BY <1>1
<1>4. Alternates(r)
  <2> SUFFICES ASSUME NEW i \in 1 .. Len(r), NEW j \in 1 .. Len(r), IsNext(r, i, j)
               PROVE  r[i].status # r[j].status
    BY DEF Alternates
  <2>1. ASSUME NEW k \in 1 .. Len(q), i + 1 < k, k < j + 1 PROVE q[k].addr # r[i].addr
    <3>1. i < k - 1 /\ k - 1 < j /\ k # 1
      BY <1>1, <2>1
    <3>2. k - 1 \in 1 .. Len(r) /\ r[k - 1] = q[k]
      BY <1>3, <3>1
    <3>3. QED
      BY <3>1, <3>2 DEF IsNext
  <2>2. IsNext(q, i + 1, j + 1)
    BY <1>1, <1>2, <2>1 DEF IsNext
  <2>3. QED
    BY <1>1, <1>2, <2>2 DEF Alternates
<1>5. EndsWith(r, there)
  <2> SUFFICES ASSUME NEW i \in 1 .. Len(r), IsLast(r, i)
               PROVE  r[i].status = "ACT_DEVUP" <=> r[i].addr \in there
    BY DEF EndsWith
  <2>1. IsLast(q, i + 1)
    BY <1>1, <1>2, <1>3 DEF IsLast
  <2>2. QED
    BY <1>1, <1>2, <2>1 DEF EndsWith
<1>6. ASSUME NEW i \in 1 .. Len(r), IsFirst(r, i), r[i].status = "ACT_DEVUP"
      PROVE  IF r[i].addr = Head(q).addr THEN Head(q).status # "ACT_DEVUP" ELSE r[i].addr \notin ups
  <2>1. CASE r[i].addr = Head(q).addr
    <3>1. \A k \in 1 .. Len(q) : 1 < k /\ k < i + 1 => q[k].addr # q[1].addr
      BY <1>1, <1>3, <1>6, <2>1 DEF IsFirst
    <3>2. IsNext(q, 1, i + 1)
      BY <1>1, <2>1, <3>1 DEF IsNext
    <3>3. 1 \in 1 .. Len(q)
      BY <1>1
    <3>4. q[1].status # q[i + 1].status
      BY <1>2, <3>2, <3>3 DEF Alternates
    <3>5. QED
      BY <1>1, <1>6, <2>1, <3>4
  <2>2. CASE r[i].addr # Head(q).addr
    <3>1. IsFirst(q, i + 1)
      BY <1>1, <1>3, <1>6, <2>2 DEF IsFirst
    <3>2. QED
      BY <1>1, <1>2, <1>6, <2>2, <3>1 DEF NoAttachFirst
  <2>3. QED
    BY <2>1, <2>2
<1>7. /\ Head(q).status = "ACT_DEVUP" => NoAttachFirst(r, ups \cup {Head(q).addr})
      /\ NoAttachFirst(r, ups \ {Head(q).addr})
  BY <1>6 DEF NoAttachFirst
<1>8. 1 \in 1 .. Len(q) /\ IsFirst(q, 1)
  BY <1>1 DEF IsFirst
<1>9. Head(q).status = "ACT_DEVUP" => Head(q).addr \notin ups
  BY <1>1, <1>8 DEF NoAttachFirst
<1>10. ~Waits(r, Head(q).addr) => IsLast(q, 1)
  BY <1>1, <1>3 DEF IsLast, Waits
<1>11. ~Waits(r, Head(q).addr) => (Head(q).status = "ACT_DEVUP" <=> Head(q).addr \in there)
  BY <1>1, <1>8, <1>10 DEF EndsWith
<1>12. QED
  BY <1>4, <1>5, <1>7, <1>9, <1>11 DEF r

(* With fewer devices to watch, or an empty queue, there is less to say. *)
LEMMA NoAttachFirstShrinks ==
    ASSUME NEW q, NEW ups, NEW fewer, fewer \subseteq ups, NoAttachFirst(q, ups)
    PROVE  NoAttachFirst(q, fewer)
BY DEF NoAttachFirst

-----------------------------------------------------------------------------

(* The devices that are listed or about to be, as the coming event finds   *)
(* them.                                                                   *)
Taken == {a \in Addrs : (pc \in Adding /\ addr = a) \/ (devices[a] # None /\ ~(pc \in Detaching /\ addr = a))}

QueueInv ==
    /\ Alternates(queue)
    /\ EndsWith(queue, plugged)
    /\ NoAttachFirst(queue, Taken)

(* What the handler does is right for a device of which it knows the last  *)
(* event, and so is what it has done.                                      *)
HandledInv ==
    \A a \in Addrs : ~Waits(queue, a) =>
        /\ pc \in Adding /\ addr = a => a \in plugged
        /\ pc \in Detaching /\ addr = a => a \notin plugged
        /\ pc = "idle" \/ addr # a =>
              /\ devices[a] # None => a \in plugged
              /\ a \in plugged \ upset => devices[a] # None /\ devices[a] \in configs

(* The same for the device it is adding, while nothing upsets it. *)
AddingInv ==
    pc \in Adding /\ addr \in plugged \ upset /\ ~Waits(queue, addr) =>
        /\ pc = "descriptor" => handle[addr] # {}
        /\ pc \in {"config", "close", "publish", "insert"} => name[object] = addr /\ object \in configs

(* The object that is being made belongs to nobody yet, and is named for   *)
(* the device or not at all; the device is not listed.                     *)
ObjectInv ==
    /\ pc \in Adding => devices[addr] = None
    /\ pc = "erase" => devices[addr] # None
    /\ object # None =>
          /\ heap[object] = "live"
          /\ name[object] \in {addr, Nameless}
          /\ \A n \in Names : devices[n] # object
    /\ \A o \in Objects : heap[o] = "unused" => name[o] = Nameless

Listed == {n \in Names : devices[n] # None}

(* What subscribers should know, also between an event and the change of   *)
(* the list.                                                               *)
Known ==
    CASE pc = "insert" -> Listed \cup {name[object]}
      [] pc = "erase" -> Listed \ {addr}
      [] OTHER -> Listed

(* What they do know, but for the devices whose last event got lost. *)
AnnouncedInv == \A n \in Names \ lost : n \in announced <=> n \in Known

(* A device that is away is not open; the service has only the device open *)
(* whose descriptors it reads.                                             *)
HandleInv ==
    /\ \A a \in Addrs \ plugged : handle[a] = {}
    /\ \A a \in Addrs \ upset :
          "service" \in handle[a] => pc \in {"descriptor", "config", "close"} /\ addr = a

HostInv ==
    TypeOK /\ QueueInv /\ HandledInv /\ AddingInv /\ ObjectInv /\ ListOwnsObjects /\ AnnouncedInv /\ HandleInv
-----------------------------------------------------------------------------
(* Types *)

(* None is not an object. *)
LEMMA NoneIsNoObject == None \notin Objects
BY HostConstants DEF None, Objects

(* What usbd sends is an event. *)
LEMMA EventTypes ==
    ASSUME NEW a \in Addrs
    PROVE  ACT_DEVUP(a) \in Events /\ ACT_DEVDOWN(a) \in Events
BY DEF ACT_DEVUP, ACT_DEVDOWN, Events

(* Plugging, pulling, opening and closing keep the types. *)
LEMMA TypeOutside ==
    ASSUME TypeOK, NEW a \in Addrs, Plug(a) \/ Unplug(a) \/ ClientOpen(a) \/ ClientClose(a)
    PROVE  TypeOK'
<1> USE DEF TypeOK, usbd, handles, objects, manager, broadcasts
<1>1. CASE Plug(a)
  <2>1. queue' \in Seq(Events)
    BY <1>1, EventTypes, AppendProperties DEF Plug
  <2>2. plugs' \in 0 .. MaxPlugs
    BY <1>1, HostConstants DEF Plug
  <2>3. QED
    BY <1>1, <2>1, <2>2 DEF Plug
<1>2. CASE Unplug(a)
  <2>1. queue' \in Seq(Events)
    BY <1>2, EventTypes, AppendProperties DEF Unplug
  <2>2. QED
    BY <1>2, <2>1 DEF Unplug
<1>3. CASE ClientOpen(a)
  <2>1. handle[a] \cup {"client"} \in SUBSET {"service", "client"}
    OBVIOUS
  <2>2. QED
    BY <1>3, <2>1 DEF ClientOpen, OpenedBy
<1>4. CASE ClientClose(a)
  BY <1>4 DEF ClientClose, Closed, Upsets
<1>5. QED
  BY <1>1, <1>2, <1>3, <1>4

(* So do the steps that add a device. *)
LEMMA TypeAdding ==
    ASSUME TypeOK, AddDevice \/ GetDeviceInfoOpen \/ GetDeviceInfoDescriptor \/ GetConfigDescriptor
                   \/ GetDeviceInfoClose \/ PublishAttached \/ InsertDevice
    PROVE  TypeOK'
<1> USE NoneIsNoObject DEF TypeOK, PCs, usbd, handles, objects, manager, broadcasts, PublishFails,
                           GiveUp, OpenedBy, Closed, Upsets
<1>1. CASE AddDevice
  <2>1. Head(queue) \in Events /\ Tail(queue) \in Seq(Events)
    BY <1>1, TakeEvent DEF AddDevice
  <2>2. Head(queue).addr \in Addrs
    BY <2>1 DEF Events
  <2>3. QED
    BY <1>1, <2>1, <2>2 DEF AddDevice
<1>2. CASE GetDeviceInfoOpen
  <2>1. handle[addr] \cup {"service"} \in SUBSET {"service", "client"}
    OBVIOUS
  <2>2. QED
    BY <1>2, <2>1 DEF GetDeviceInfoOpen
<1>3. CASE GetDeviceInfoDescriptor
  <2>1. object \in Objects /\ addr \in Names
    BY <1>3 DEF GetDeviceInfoDescriptor, Names
  <2>2. /\ name' \in [Objects -> Names] /\ configs' \in SUBSET Objects
        /\ handle' \in [Addrs -> SUBSET {"service", "client"}] /\ upset' \in SUBSET Addrs
    BY <1>3, <2>1 DEF GetDeviceInfoDescriptor, ReadDescriptor, RawDescriptorFails, RawDescriptorEmpty,
                      ParseDeviceDescriptorFails
  <2>3. QED
    BY <1>3, <2>2 DEF GetDeviceInfoDescriptor
<1>4. CASE GetConfigDescriptor
  BY <1>4 DEF GetConfigDescriptor
<1>5. CASE GetDeviceInfoClose
  BY <1>5 DEF GetDeviceInfoClose
<1>6. CASE PublishAttached
  <2>1. name[object] \in Names
    BY <1>6 DEF PublishAttached
  <2>2. QED
    BY <1>6, <2>1 DEF PublishAttached
<1>7. CASE InsertDevice
  BY <1>7 DEF InsertDevice
<1>8. QED
  BY <1>1, <1>2, <1>3, <1>4, <1>5, <1>6, <1>7

(* ... and those that remove one. *)
LEMMA TypeDetaching ==
    ASSUME TypeOK, DelDevice \/ DelDeviceClose \/ PublishDetached \/ EraseDevice
    PROVE  TypeOK'
<1> USE NoneIsNoObject DEF TypeOK, PCs, usbd, handles, objects, manager, broadcasts, PublishFails, Closed
<1>1. CASE DelDevice
  <2>1. Head(queue) \in Events /\ Tail(queue) \in Seq(Events)
    BY <1>1, TakeEvent DEF DelDevice
  <2>2. Head(queue).addr \in Addrs
    BY <2>1 DEF Events
  <2>3. QED
    BY <1>1, <2>1, <2>2 DEF DelDevice
<1>2. CASE DelDeviceClose
  BY <1>2 DEF DelDeviceClose
<1>3. CASE PublishDetached
  BY <1>3 DEF PublishDetached, Names
<1>4. CASE EraseDevice
  BY <1>4 DEF EraseDevice
<1>5. QED
  BY <1>1, <1>2, <1>3, <1>4

(* Every step keeps the types. *)
LEMMA TypeStep == TypeOK /\ [Next]_vars => TypeOK'
<1> SUFFICES ASSUME TypeOK, [Next]_vars PROVE TypeOK'
  OBVIOUS
<1>1. CASE UNCHANGED vars
  BY <1>1 DEF TypeOK, vars, usbd, handles, objects, manager, broadcasts
<1>2. CASE Next
  BY <1>2, TypeOutside, TypeAdding, TypeDetaching DEF Next, HandlerStep
<1>3. QED
  BY <1>1, <1>2

-----------------------------------------------------------------------------
(* The objects *)

(* A step of usbd or of a client leaves the handler and its objects alone. *)
LEMMA OutsideFrame ==
    ASSUME NEW a \in Addrs, Plug(a) \/ Unplug(a) \/ ClientOpen(a) \/ ClientClose(a)
    PROVE  UNCHANGED <<pc, addr, objects, manager>>
BY DEF Plug, Unplug, ClientOpen, ClientClose

(* A device is attached only when it is not listed. *)
LEMMA AttachedIsNew ==
    ASSUME TypeOK, QueueInv, AddDevice
    PROVE  addr' \in Addrs /\ devices[addr'] = None
<1>1. /\ queue \in Seq(Events) /\ queue # <<>> /\ pc = "idle"
      /\ Head(queue).status = "ACT_DEVUP" /\ addr' = Head(queue).addr
  BY DEF TypeOK, AddDevice
<1>2. Head(queue) \in Events
  BY <1>1, TakeEvent
<1>3. addr' \notin Taken
  BY <1>1, TakeKeepsOrder DEF QueueInv
<1>4. QED
  BY <1>1, <1>2, <1>3 DEF Taken, Adding, Detaching, Events

(* Every step keeps the object in the making apart, and the list of        *)
(* devices in step with what is allocated.                                 *)
LEMMA ObjectStep ==
    ASSUME HostInv, [Next]_vars, TypeOK'
    PROVE  ObjectInv' /\ ListOwnsObjects'
<1> DEFINE ObjectsOK == ObjectInv /\ ListOwnsObjects
<1> USE NoneIsNoObject DEF HostInv, TypeOK, ObjectInv, ListOwnsObjects, Adding, objects, manager
<1>1. CASE UNCHANGED <<pc, addr, objects, manager>>
  BY <1>1
<1>2. CASE AddDevice
  <2>1. addr' \in Addrs /\ devices[addr'] = None
    BY <1>2, AttachedIsNew
  <2>2. PICK o \in Objects : heap[o] = "unused" /\ object' = o /\ heap' = [heap EXCEPT ![o] = "live"]
    BY <1>2 DEF AddDevice
  <2>3. pc = "idle" /\ object = None /\ pc' = "open" /\ UNCHANGED <<name, configs, devices>>
    BY <1>2 DEF AddDevice
  <2>4. \A n \in Names : devices[n] # o
    BY <2>2
  <2>5. ObjectInv'
    BY <2>1, <2>2, <2>3, <2>4
  <2>6. ListOwnsObjects'
    BY <2>2, <2>3, <2>4
  <2>7. QED
    BY <2>5, <2>6
<1>3. CASE GetDeviceInfoOpen
  BY <1>3 DEF GetDeviceInfoOpen, GiveUp
<1>4. CASE GetDeviceInfoDescriptor
  <2>1. /\ name' = name \/ name' = [name EXCEPT ![object] = addr]
        /\ pc = "descriptor" /\ pc' = "config" /\ UNCHANGED <<addr, object, heap, manager>>
    BY <1>4 DEF GetDeviceInfoDescriptor, ReadDescriptor, RawDescriptorFails, RawDescriptorEmpty,
                ParseDeviceDescriptorFails
  <2>2. QED
    BY <2>1
<1>5. CASE GetConfigDescriptor
  BY <1>5 DEF GetConfigDescriptor, GiveUp
<1>6. CASE GetDeviceInfoClose \/ PublishAttached
  BY <1>6 DEF GetDeviceInfoClose, PublishAttached
<1>7. CASE InsertDevice
  <2> DEFINE n == name[object]
             old == devices[n]
  <2>1. /\ pc = "insert" /\ object \in Objects /\ n \in Names
        /\ object' = None /\ pc' = "idle" /\ UNCHANGED <<addr, name, configs>>
        /\ devices' = [devices EXCEPT ![n] = object]
        /\ heap' = IF old = None THEN heap ELSE [heap EXCEPT ![old] = "deleted"]
    BY <1>7 DEF InsertDevice
  <2>2. old # None => old \in Objects /\ name[old] = n /\ old # object
    BY <2>1
  <2>3. \A m \in Names : m # n /\ devices[m] # None => devices[m] # old
    BY <2>1
  <2>4. ObjectInv'
    BY <2>1, <2>2
  <2>5. \A m \in Names : devices'[m] # None => name'[devices'[m]] = m
    BY <2>1
  <2>6. ASSUME NEW o \in Objects PROVE heap'[o] = "live" <=> \E m \in Names : devices'[m] = o
    BY <2>1, <2>2, <2>3
  <2>7. QED
    BY <2>1, <2>4, <2>5, <2>6
<1>8. CASE DelDevice \/ DelDeviceClose \/ PublishDetached
  BY <1>8 DEF DelDevice, DelDeviceClose, PublishDetached
<1>9. CASE EraseDevice
  <2> DEFINE old == devices[addr]
  <2>1. /\ pc = "erase" /\ object = None /\ object' = None /\ pc' = "idle"
        /\ addr \in Names /\ old \in Objects /\ UNCHANGED name
        /\ devices' = [devices EXCEPT ![addr] = None]
        /\ heap' = [heap EXCEPT ![old] = "deleted"]
    BY <1>9 DEF EraseDevice, Names
  <2>2. \A m \in Names : m # addr => devices[m] # old
    BY <2>1
  <2>3. ObjectInv'
    BY <2>1
  <2>4. \A m \in Names : devices'[m] # None => name'[devices'[m]] = m
    BY <2>1
  <2>5. ASSUME NEW o \in Objects PROVE heap'[o] = "live" <=> \E m \in Names : devices'[m] = o
    BY <2>1, <2>2
  <2>6. QED
    BY <2>1, <2>3, <2>4, <2>5
<1>10. QED
  BY <1>1, <1>2, <1>3, <1>4, <1>5, <1>6, <1>7, <1>8, <1>9, OutsideFrame DEF Next, HandlerStep, vars

-----------------------------------------------------------------------------
(* What is announced *)

(* Every step keeps what subscribers know in step with the list. *)
LEMMA AnnouncedStep ==
    ASSUME HostInv, [Next]_vars, TypeOK'
    PROVE  AnnouncedInv'
<1> USE NoneIsNoObject DEF HostInv, TypeOK, AnnouncedInv, Known, Listed, manager, broadcasts
<1>1. CASE UNCHANGED <<pc, addr, objects, manager>>
  BY <1>1 DEF objects
<1>2. CASE AddDevice \/ GetDeviceInfoOpen \/ GetDeviceInfoDescriptor \/ GetConfigDescriptor \/ GetDeviceInfoClose
  <2>1. pc # "insert" /\ pc # "erase" /\ pc' # "insert" /\ pc' # "erase" /\ UNCHANGED manager
    BY <1>2 DEF AddDevice, GetDeviceInfoOpen, GetDeviceInfoDescriptor, GetConfigDescriptor, GetDeviceInfoClose, GiveUp
  <2>2. QED
    BY <2>1
<1>3. CASE PublishAttached
  <2>1. object \in Objects /\ name[object] \in Names
    BY <1>3 DEF PublishAttached
  <2>2. /\ pc = "publish" /\ pc' = "insert" /\ UNCHANGED <<devices, object, name>>
        /\ \/ announced' = announced \cup {name[object]} /\ lost' = lost \ {name[object]}
           \/ announced' = announced /\ lost' = lost \cup {name[object]}
    BY <1>3 DEF PublishAttached, PublishFails, objects
  <2>3. Known' = Listed \cup {name[object]} /\ Known = Listed
    BY <2>2
  <2>4. QED
    BY <2>1, <2>2, <2>3
<1>4. CASE InsertDevice
  <2>1. object \in Objects /\ name[object] \in Names
    BY <1>4 DEF InsertDevice
  <2>2. QED
    BY <1>4, <2>1 DEF InsertDevice
<1>5. CASE DelDevice \/ DelDeviceClose
  BY <1>5 DEF DelDevice, DelDeviceClose
<1>6. CASE PublishDetached
  BY <1>6 DEF PublishDetached, PublishFails
<1>7. CASE EraseDevice
  BY <1>7 DEF EraseDevice
<1>8. QED
  BY <1>1, <1>2, <1>3, <1>4, <1>5, <1>6, <1>7, OutsideFrame DEF Next, HandlerStep, vars, objects

(* ATTACHED is published for a device that is new to subscribers, DETACHED *)
(* for one they know, unless the event before got lost.                    *)
LEMMA AlternateStep ==
    ASSUME HostInv, [Next]_vars
    PROVE  /\ pc = "publish" /\ pc' = "insert" /\ name[object] \in Addrs \ (lost \cup lost')
                 => name[object] \notin announced
           /\ pc = "find" /\ pc' = "erase" /\ addr \notin lost \cup lost' => addr \in announced
<1> USE DEF HostInv, TypeOK, ObjectInv, AnnouncedInv, Known, Listed, Adding
<1>1. pc = "publish" /\ name[object] \in Addrs \ lost => name[object] \notin announced
  <2> SUFFICES ASSUME pc = "publish", name[object] \in Addrs \ lost PROVE name[object] \notin announced
    OBVIOUS
  <2>1. name[object] = addr /\ addr \in Names
    BY HostConstants DEF Names
  <2>2. QED
    BY <2>1
<1>2. pc = "find" /\ pc' = "erase" /\ addr \notin lost => addr \in announced
  <2> SUFFICES ASSUME pc = "find", pc' = "erase", addr \notin lost PROVE addr \in announced
    OBVIOUS
  <2>1. CASE PublishDetached
    BY <2>1 DEF PublishDetached, Names
  <2>2. ~(PublishDetached) => pc' = pc \/ pc # "find"
    <3>1. ASSUME NEW a \in Addrs, Plug(a) \/ Unplug(a) \/ ClientOpen(a) \/ ClientClose(a) PROVE pc' = pc
      BY <3>1, OutsideFrame
    <3>2. ASSUME AddDevice \/ GetDeviceInfoOpen \/ GetDeviceInfoDescriptor \/ GetConfigDescriptor
                 \/ GetDeviceInfoClose \/ PublishAttached \/ InsertDevice
                 \/ DelDevice \/ DelDeviceClose \/ EraseDevice
          PROVE  pc # "find"
      BY <3>2 DEF AddDevice, GetDeviceInfoOpen, GetDeviceInfoDescriptor, GetConfigDescriptor, GetDeviceInfoClose,
                  PublishAttached, InsertDevice, DelDevice, DelDeviceClose, EraseDevice
    <3>3. UNCHANGED vars => pc' = pc
      BY DEF vars
    <3>4. QED
      BY <3>1, <3>2, <3>3 DEF Next, HandlerStep
  <2>3. QED
    BY <2>1, <2>2
<1>3. QED
  BY <1>1, <1>2

-----------------------------------------------------------------------------
(* What is open *)

(* Every step leaves open in usbd only what HandleInv allows. *)
LEMMA HandleStep ==
    ASSUME HostInv, [Next]_vars, TypeOK'
    PROVE  HandleInv'
<1> USE DEF HostInv, TypeOK, HandleInv, usbd, handles, objects, manager, OpenedBy, Closed, Upsets, GiveUp
<1>1. CASE UNCHANGED vars
  BY <1>1 DEF vars
<1>2. ASSUME NEW a \in Addrs, Plug(a) \/ Unplug(a) \/ ClientOpen(a) \/ ClientClose(a) PROVE HandleInv'
  <2>1. UNCHANGED <<pc, addr>>
    BY <1>2, OutsideFrame
  <2>2. CASE Plug(a)
    BY <2>1, <2>2 DEF Plug
  <2>3. CASE Unplug(a)
    BY <2>1, <2>3 DEF Unplug
  <2>4. CASE ClientOpen(a) \/ ClientClose(a)
    BY <2>1, <2>4 DEF ClientOpen, ClientClose
  <2>5. QED
    BY <1>2, <2>2, <2>3, <2>4
<1>3. CASE AddDevice
  BY <1>3 DEF AddDevice
<1>4. CASE GetDeviceInfoOpen
  BY <1>4 DEF GetDeviceInfoOpen
<1>5. CASE GetDeviceInfoDescriptor
  BY <1>5 DEF GetDeviceInfoDescriptor, ReadDescriptor, RawDescriptorFails, RawDescriptorEmpty,
              ParseDeviceDescriptorFails
<1>6. CASE GetConfigDescriptor
  BY <1>6 DEF GetConfigDescriptor
<1>7. CASE GetDeviceInfoClose
  BY <1>7 DEF GetDeviceInfoClose
<1>8. CASE PublishAttached \/ InsertDevice
  BY <1>8 DEF PublishAttached, InsertDevice
<1>9. CASE DelDevice \/ DelDeviceClose \/ PublishDetached \/ EraseDevice
  BY <1>9 DEF DelDevice, DelDeviceClose, PublishDetached, EraseDevice
<1>10. QED
  BY <1>1, <1>2, <1>3, <1>4, <1>5, <1>6, <1>7, <1>8, <1>9 DEF Next, HandlerStep

-----------------------------------------------------------------------------
(* Events and the list *)

(* A device that is taken and of which no event waits is plugged in. *)
LEMMA TakenIsPlugged ==
    ASSUME HostInv, NEW a \in Addrs, a \in Taken, ~Waits(queue, a)
    PROVE  a \in plugged
<1>1. (pc \in Adding /\ addr = a) \/ ( devices[a] # None /\ ~(pc \in Detaching /\ addr = a))
  BY DEF Taken
<1>2. pc = "idle" \/ pc \in Adding \/ pc \in Detaching
  BY DEF HostInv, TypeOK, PCs, Adding, Detaching
<1>3. QED
  BY <1>1, <1>2 DEF HostInv, HandledInv

(* Between the events it takes, the handler takes no further device. *)
LEMMA TakenShrinks ==
    ASSUME HostInv, TypeOK', HandlerStep, ~AddDevice
    PROVE  Taken' \subseteq Taken
<1> USE DEF HostInv, TypeOK, ObjectInv, Taken, Adding, Detaching, objects, manager, GiveUp
<1>1. CASE GetDeviceInfoOpen
  BY <1>1 DEF GetDeviceInfoOpen
<1>2. CASE GetDeviceInfoDescriptor
  BY <1>2 DEF GetDeviceInfoDescriptor
<1>3. CASE GetConfigDescriptor
  BY <1>3 DEF GetConfigDescriptor
<1>4. CASE GetDeviceInfoClose \/ PublishAttached
  BY <1>4 DEF GetDeviceInfoClose, PublishAttached
<1>5. CASE InsertDevice
  <2>1. /\ pc = "insert" /\ pc' = "idle" /\ object \in Objects /\ UNCHANGED addr
        /\ devices' = [devices EXCEPT ![name[object]] = object]
    BY <1>5, NoneIsNoObject DEF InsertDevice
  <2>2. name[object] \in {addr, Nameless}
    BY <2>1, NoneIsNoObject
  <2>3. \A a \in Addrs : a # addr => devices'[a] = devices[a]
    BY <2>1, <2>2, HostConstants
  <2>4. QED
    BY <2>1, <2>3
<1>6. CASE DelDevice
  BY <1>6 DEF DelDevice
<1>7. CASE DelDeviceClose \/ PublishDetached
  BY <1>7 DEF DelDeviceClose, PublishDetached, Names
<1>8. CASE EraseDevice
  BY <1>8 DEF EraseDevice, Names
<1>9. QED
  BY <1>1, <1>2, <1>3, <1>4, <1>5, <1>6, <1>7, <1>8 DEF HandlerStep

(* Every step keeps the order of the events. *)
LEMMA QueueStep ==
    ASSUME HostInv, [Next]_vars, TypeOK'
    PROVE  QueueInv'
<1> USE DEF HostInv, QueueInv
<1>1. queue \in Seq(Events)
  BY DEF TypeOK
<1>2. CASE UNCHANGED <<queue, plugged, pc, addr, devices>>
  <2>1. Taken' = Taken
    BY <1>2 DEF Taken
  <2>2. QED
    BY <1>2, <2>1
<1>3. ASSUME NEW a \in Addrs, Plug(a) PROVE QueueInv'
  <2> DEFINE e == ACT_DEVUP(a)
  <2>1. e \in Events /\ e.status = "ACT_DEVUP" /\ e.addr = a
    BY EventTypes DEF ACT_DEVUP
  <2>2. a \notin plugged /\ queue' = Append(queue, e) /\ plugged' = plugged \cup {a}
    BY <1>3 DEF Plug
  <2>3. Taken' = Taken
    BY <1>3 DEF Plug, Taken, manager
  <2> HIDE DEF e
  <2>4. Alternates(queue') /\ EndsWith(queue', plugged')
    BY <1>1, <2>1, <2>2, SendKeepsOrder
  <2>5. a \in Taken => Waits(queue, a)
    BY <2>2, TakenIsPlugged
  <2>6. NoAttachFirst(queue', Taken)
    BY <1>1, <2>1, <2>2, <2>5, SendKeepsFirst
  <2>7. QED
    BY <2>3, <2>4, <2>6
<1>4. ASSUME NEW a \in Addrs, Unplug(a) PROVE QueueInv'
  <2> DEFINE e == ACT_DEVDOWN(a)
  <2>1. e \in Events /\ e.status # "ACT_DEVUP" /\ e.addr = a
    BY EventTypes DEF ACT_DEVDOWN
  <2>2. a \in plugged /\ queue' = Append(queue, e) /\ plugged' = plugged \ {a}
    BY <1>4 DEF Unplug
  <2>3. Taken' = Taken
    BY <1>4 DEF Unplug, Taken, manager
  <2> HIDE DEF e
  <2>4. Alternates(queue') /\ EndsWith(queue', plugged')
    BY <1>1, <2>1, <2>2, SendKeepsOrder
  <2>5. NoAttachFirst(queue', Taken)
    BY <1>1, <2>1, <2>2, SendKeepsFirst
  <2>6. QED
    BY <2>3, <2>4, <2>5
<1>5. CASE AddDevice
  <2>1. /\ pc = "idle" /\ queue # <<>> /\ queue' = Tail(queue) /\ addr' = Head(queue).addr
        /\ Head(queue).status = "ACT_DEVUP" /\ UNCHANGED <<plugged, devices>>
    BY <1>5 DEF AddDevice, manager
  <2>2. Taken' \subseteq Taken \cup {Head(queue).addr}
    BY <2>1 DEF Taken, Detaching, Adding
  <2>3. /\ Alternates(Tail(queue)) /\ EndsWith(Tail(queue), plugged)
        /\ NoAttachFirst(Tail(queue), Taken \cup {Head(queue).addr})
    BY <1>1, <2>1, TakeKeepsOrder
  <2>4. NoAttachFirst(Tail(queue), Taken')
    BY <2>2, <2>3, NoAttachFirstShrinks
  <2>5. QED
    BY <2>1, <2>3, <2>4
<1>6. CASE DelDevice
  <2>1. /\ pc = "idle" /\ pc' = "detach" /\ queue # <<>> /\ queue' = Tail(queue) /\ addr' = Head(queue).addr
        /\ UNCHANGED <<plugged, devices>>
    BY <1>6 DEF DelDevice, manager
  <2>2. Taken' \subseteq Taken \ {Head(queue).addr}
    BY <2>1 DEF Taken, Detaching, Adding
  <2>3. /\ Alternates(Tail(queue)) /\ EndsWith(Tail(queue), plugged)
        /\ NoAttachFirst(Tail(queue), Taken \ {Head(queue).addr})
    BY <1>1, <2>1, TakeKeepsOrder
  <2>4. NoAttachFirst(Tail(queue), Taken')
    BY <2>2, <2>3, NoAttachFirstShrinks
  <2>5. QED
    BY <2>1, <2>3, <2>4
<1>7. CASE HandlerStep /\ ~AddDevice /\ ~DelDevice
  <2>1. UNCHANGED <<queue, plugged>>
    BY <1>7 DEF HandlerStep, GetDeviceInfoOpen, GetDeviceInfoDescriptor, GetConfigDescriptor, GetDeviceInfoClose,
        PublishAttached, InsertDevice, DelDeviceClose, PublishDetached, EraseDevice, usbd
  <2>2. Taken' \subseteq Taken
    BY <1>7, TakenShrinks
  <2>3. QED
    BY <2>1, <2>2, NoAttachFirstShrinks
<1>8. ASSUME NEW a \in Addrs, ClientOpen(a) \/ ClientClose(a) PROVE QueueInv'
  BY <1>2, <1>8 DEF ClientOpen, ClientClose, usbd, manager
<1>9. QED
  BY <1>2, <1>3, <1>4, <1>5, <1>6, <1>7, <1>8 DEF Next, vars, usbd, manager

(* Every step is right for the devices whose last event it has seen. *)
LEMMA HandledStep ==
    ASSUME HostInv, [Next]_vars, TypeOK'
    PROVE  HandledInv'
<1> SUFFICES ASSUME NEW a \in Addrs, ~Waits(queue', a)
             PROVE  /\ pc' \in Adding /\ addr' = a => a \in plugged'
                    /\ pc' \in Detaching /\ addr' = a => a \notin plugged'
                    /\ pc' = "idle" \/ addr' # a =>
                          /\ devices'[a] # None => a \in plugged'
                          /\ a \in plugged' \ upset' => devices'[a] # None /\ devices'[a] \in configs'
  BY DEF HandledInv
<1> USE DEF HostInv, TypeOK, Adding, Detaching
<1>1. queue \in Seq(Events)
  OBVIOUS
<1>2. CASE UNCHANGED vars
  BY <1>2 DEF vars, usbd, handles, objects, manager, HandledInv
<1>3. ASSUME NEW b \in Addrs, Plug(b) \/ Unplug(b) PROVE Waits(queue', b) /\ \A c : Waits(queue, c) => Waits(queue', c)
  <2>1. PICK e \in Events : e.addr = b /\ queue' = Append(queue, e)
    BY <1>3, EventTypes DEF Plug, Unplug, ACT_DEVUP, ACT_DEVDOWN
  <2>2. QED
    BY <1>1, <2>1, SendEvent
<1>4. ASSUME NEW b \in Addrs, Plug(b) \/ Unplug(b) \/ ClientOpen(b) \/ ClientClose(b)
      PROVE  HandledInv'
  <2>1. UNCHANGED <<pc, addr, objects, manager>>
    BY <1>4, OutsideFrame
  <2>2. CASE Plug(b) \/ Unplug(b)
    <3>1. Waits(queue', b) /\ \A c : Waits(queue, c) => Waits(queue', c)
      BY <1>3, <2>2
    <3>2. \A c \in Addrs : c # b => (c \in plugged' <=> c \in plugged) /\ (c \in upset' <=> c \in upset)
      BY <2>2 DEF Plug, Unplug
    <3>3. QED
      BY <2>1, <3>1, <3>2 DEF objects, manager, HandledInv
  <2>3. CASE ClientOpen(b) \/ ClientClose(b)
    BY <2>1, <2>3 DEF ClientOpen, ClientClose, Upsets, usbd, objects, manager, HandledInv
  <2>4. QED
    BY <1>4, <2>2, <2>3
<1>5. CASE AddDevice \/ DelDevice
  <2>1. /\ pc = "idle" /\ queue # <<>> /\ queue' = Tail(queue) /\ addr' = Head(queue).addr
        /\ UNCHANGED <<plugged, upset, devices, configs>>
    BY <1>5 DEF AddDevice, DelDevice, handles, objects, manager
  <2>2. CASE a = addr'
    <3>1. Head(queue).status = "ACT_DEVUP" <=> a \in plugged
      BY <1>1, <2>1, <2>2, TakeKeepsOrder DEF QueueInv
    <3>2. \/ pc' = "open" /\ Head(queue).status = "ACT_DEVUP"
          \/ pc' = "detach" /\ Head(queue).status = "ACT_DEVDOWN"
      BY <1>5 DEF AddDevice, DelDevice
    <3>3. QED
      BY <2>1, <2>2, <3>1, <3>2
  <2>3. CASE a # addr'
    <3>1. ~Waits(queue, a)
      BY <1>1, <2>1, <2>3, TakeEvent
    <3>2. QED
      BY <2>1, <2>3, <3>1 DEF HandledInv
  <2>4. QED
    BY <2>2, <2>3
<1>6. CASE HandlerStep /\ ~AddDevice /\ ~DelDevice
  <2> USE DEF HandledInv, ObjectInv, objects, manager, usbd, handles, GiveUp, Upsets
  <2>1. UNCHANGED <<queue, plugged, addr>>
    BY <1>6 DEF HandlerStep, GetDeviceInfoOpen, GetDeviceInfoDescriptor, GetConfigDescriptor, GetDeviceInfoClose,
        PublishAttached, InsertDevice, DelDeviceClose, PublishDetached, EraseDevice
  <2>2. ~Waits(queue, a)
    BY <2>1
  <2>3. CASE GetDeviceInfoOpen
    BY <2>1, <2>2, <2>3 DEF GetDeviceInfoOpen
  <2>4. CASE GetDeviceInfoDescriptor
    <3>1. pc = "descriptor" /\ pc' = "config" /\ configs \subseteq configs'
          /\ upset \subseteq upset' /\ UNCHANGED devices
      BY <2>4 DEF GetDeviceInfoDescriptor, ReadDescriptor, RawDescriptorFails, RawDescriptorEmpty,
                  ParseDeviceDescriptorFails
    <3>2. QED
      BY <2>1, <2>2, <3>1
  <2>5. CASE GetConfigDescriptor
    <3>1. object # None /\ devices[a] # object
      BY <2>5 DEF GetConfigDescriptor, Names
    <3>2. /\ pc = "config" /\ pc' \in {"close", "endless", "idle"} /\ upset \subseteq upset' /\ UNCHANGED devices
          /\ configs \ {object} \subseteq configs'
          /\ pc' = "idle" => addr \in upset'
      BY <2>5 DEF GetConfigDescriptor
    <3>3. QED
      BY <2>1, <2>2, <3>1, <3>2
  <2>6. CASE GetDeviceInfoClose \/ PublishAttached
    BY <2>1, <2>2, <2>6 DEF GetDeviceInfoClose, PublishAttached
  <2>7. CASE InsertDevice
    <3>1. /\ pc = "insert" /\ pc' = "idle" /\ object \in Objects /\ UNCHANGED <<upset, configs>>
          /\ devices' = [devices EXCEPT ![name[object]] = object]
      BY <2>7, NoneIsNoObject DEF InsertDevice
    <3>2. name[object] \in {addr, Nameless} /\ a \in Names /\ a # Nameless
      BY <3>1, NoneIsNoObject, HostConstants DEF Names
    <3>3. CASE a = addr
      <4>1. a \in plugged
        BY <2>2, <3>1, <3>3
      <4>2. a \notin upset => name[object] = a /\ object \in configs
        BY <2>2, <3>1, <3>3, <4>1 DEF AddingInv
      <4>3. QED
        BY <2>1, <3>1, <3>2, <3>3, <4>1, <4>2, NoneIsNoObject
    <3>4. CASE a # addr
      <4>1. devices'[a] = devices[a]
        BY <3>1, <3>2, <3>4
      <4>2. QED
        BY <2>1, <2>2, <3>1, <3>4, <4>1
    <3>5. QED
      BY <3>3, <3>4
  <2>8. CASE DelDeviceClose
    BY <2>1, <2>2, <2>8 DEF DelDeviceClose
  <2>9. CASE PublishDetached
    BY <2>1, <2>2, <2>9 DEF PublishDetached
  <2>10. CASE EraseDevice
    BY <2>1, <2>2, <2>10 DEF EraseDevice, Names
  <2>11. QED
    BY <1>6, <2>3, <2>4, <2>5, <2>6, <2>7, <2>8, <2>9, <2>10 DEF HandlerStep
<1>7. QED
  BY <1>2, <1>4, <1>5, <1>6 DEF Next, HandledInv

(* Every step is right for the device that is being added. *)
LEMMA AddingStep ==
    ASSUME HostInv, [Next]_vars, TypeOK'
    PROVE  AddingInv'
<1> SUFFICES ASSUME pc' \in Adding, addr' \in plugged' \ upset', ~Waits(queue', addr')
             PROVE  /\ pc' = "descriptor" => handle'[addr'] # {}
                    /\ pc' \in {"config", "close", "publish", "insert"}
                          => name'[object'] = addr' /\ object' \in configs'
  BY DEF AddingInv
<1> USE DEF HostInv, TypeOK, Adding, Detaching, AddingInv, objects, manager, usbd, handles, GiveUp,
            OpenedBy, Closed, Upsets
<1>1. queue \in Seq(Events)
  OBVIOUS
<1>2. CASE UNCHANGED vars
  BY <1>2 DEF vars
<1>3. ASSUME NEW b \in Addrs, Plug(b) \/ Unplug(b) PROVE AddingInv'
  <2>1. PICK e \in Events : e.addr = b /\ queue' = Append(queue, e)
    BY <1>3, EventTypes DEF Plug, Unplug, ACT_DEVUP, ACT_DEVDOWN
  <2>2. addr' # b /\ ~Waits(queue, addr')
    BY <1>1, <2>1, SendEvent
  <2>3. UNCHANGED <<pc, addr, objects, manager>>
    BY <1>3, OutsideFrame
  <2>4. QED
    BY <1>3, <2>2, <2>3 DEF Plug, Unplug
<1>4. ASSUME NEW b \in Addrs, ClientOpen(b) \/ ClientClose(b) PROVE AddingInv'
  BY <1>4 DEF ClientOpen, ClientClose
<1>5. CASE AddDevice
  BY <1>5 DEF AddDevice
<1>6. CASE GetDeviceInfoOpen
  BY <1>6 DEF GetDeviceInfoOpen
<1>7. CASE GetDeviceInfoDescriptor
  <2>1. UNCHANGED <<queue, plugged, addr, object>> /\ pc = "descriptor" /\ upset \subseteq upset' /\ object \in Objects
    BY <1>7 DEF GetDeviceInfoDescriptor, ReadDescriptor, RawDescriptorFails, RawDescriptorEmpty,
                ParseDeviceDescriptorFails
  <2>2. handle[addr] # {}
    BY <2>1
  <2>3. ReadDescriptor
    BY <1>7, <2>1, <2>2 DEF GetDeviceInfoDescriptor, RawDescriptorFails, RawDescriptorEmpty, ParseDeviceDescriptorFails
  <2>4. QED
    BY <1>7, <2>1, <2>3 DEF ReadDescriptor, GetDeviceInfoDescriptor
<1>8. CASE GetConfigDescriptor
  BY <1>8 DEF GetConfigDescriptor
<1>9. CASE GetDeviceInfoClose \/ PublishAttached
  BY <1>9 DEF GetDeviceInfoClose, PublishAttached
<1>10. CASE InsertDevice \/ DelDevice \/ DelDeviceClose \/ PublishDetached \/ EraseDevice
  BY <1>10 DEF InsertDevice, DelDevice, DelDeviceClose, PublishDetached, EraseDevice
<1>11. QED
  BY <1>2, <1>3, <1>4, <1>5, <1>6, <1>7, <1>8, <1>9, <1>10 DEF Next, HandlerStep

-----------------------------------------------------------------------------

(* Before anything is plugged in, the invariant holds. *)
LEMMA HostInit == Init => HostInv
<1> SUFFICES ASSUME Init PROVE HostInv
  OBVIOUS
<1> USE NoneIsNoObject DEF Init
<1>1. TypeOK
  <2>1. queue \in Seq(Events) /\ plugs \in 0 .. MaxPlugs
    BY HostConstants
  <2>2. QED
    BY <2>1 DEF TypeOK, PCs, Names
<1>2. Len(queue) = 0 /\ \A a : ~Waits(queue, a)
  BY DEF Waits
<1>3. Taken = {}
  BY DEF Taken, Adding, Names
<1>4. QueueInv
  BY <1>2, <1>3 DEF QueueInv, Alternates, EndsWith, NoAttachFirst
<1>5. HandledInv /\ AddingInv
  BY DEF HandledInv, AddingInv, Adding, Detaching, Names
<1>6. ObjectInv /\ ListOwnsObjects
  BY DEF ObjectInv, ListOwnsObjects, Adding, Names
<1>7. AnnouncedInv /\ HandleInv
  BY DEF AnnouncedInv, HandleInv, Known, Listed
<1>8. QED
  BY <1>1, <1>4, <1>5, <1>6, <1>7 DEF HostInv

(* The inductive invariant behind the results below holds in every state. *)
THEOREM HostInvariance == Spec => []HostInv
<1>1. HostInv /\ [Next]_vars => HostInv'
  <2> SUFFICES ASSUME HostInv, [Next]_vars PROVE HostInv'
    OBVIOUS
  <2>1. TypeOK'
    BY TypeStep DEF HostInv
  <2>2. QED
    BY <2>1, ObjectStep, AnnouncedStep, HandleStep, QueueStep, HandledStep, AddingStep DEF HostInv
<1>2. QED
  BY <1>1, HostInit, PTL DEF Spec

(* The variables keep their types; what is being made is an object just    *)
(* while a device is added.                                                *)
THEOREM HostTypes == Spec => []TypeOK
<1>1. HostInv => TypeOK
  BY DEF HostInv
<1>2. QED
  BY <1>1, HostInvariance, PTL

(* When usbd has nothing more to report, what is listed is plugged in, and *)
(* what is plugged in and was not upset is listed with its configurations, *)
(* however often devices were pulled and replugged while others were added.*)
THEOREM QuietListsAreRight == Spec => []QuietListIsRight
<1>1. HostInv => QuietListIsRight
  <2> SUFFICES ASSUME HostInv, pc = "idle", queue = <<>>
               PROVE  /\ \A a \in Addrs : devices[a] # None => a \in plugged
                      /\ \A a \in plugged \ upset : devices[a] # None /\ devices[a] \in configs
    BY DEF QuietListIsRight, Quiet
  <2>1. \A a \in Addrs : ~Waits(queue, a)
    BY DEF Waits
  <2>2. plugged \subseteq Addrs
    BY DEF HostInv, TypeOK
  <2>3. QED
    BY <2>1, <2>2 DEF HostInv, HandledInv
<1>2. QED
  BY <1>1, HostInvariance, PTL

(* Between events, subscribers know exactly what is listed, but for the    *)
(* devices whose last event could not be published.                        *)
THEOREM EventsAlwaysMatchList == Spec => []EventsMatchList
<1>1. HostInv => EventsMatchList
  BY DEF HostInv, AnnouncedInv, Known, Listed, EventsMatchList
<1>2. QED
  BY <1>1, HostInvariance, PTL

(* No object leaks, is deleted twice or is listed when it is deleted. *)
THEOREM ListAlwaysOwnsObjects == Spec => []ListOwnsObjects
<1>1. HostInv => ListOwnsObjects
  BY DEF HostInv
<1>2. QED
  BY <1>1, HostInvariance, PTL

(* Between events, the service has no device open but one that upset it. *)
THEOREM ServiceAlwaysLetsGo == Spec => []ServiceLetsGo
<1>1. HostInv => ServiceLetsGo
  BY DEF HostInv, HandleInv, ServiceLetsGo
<1>2. QED
  BY <1>1, HostInvariance, PTL

(* ATTACHED is only published for a device subscribers do not know, and    *)
(* DETACHED for one they do, unless the event before could not be.         *)
THEOREM EventsDoAlternate == Spec => EventsAlternate
<1>1. HostInv /\ [Next]_vars =>
        [/\ pc = "publish" /\ pc' = "insert" /\ name[object] \in Addrs \ (lost \cup lost')
               => name[object] \notin announced
         /\ pc = "find" /\ pc' = "erase" /\ addr \notin lost \cup lost' => addr \in announced]_vars
  BY AlternateStep
<1>2. QED
  BY <1>1, HostInvariance, PTL DEF Spec, EventsAlternate
=============================================================================
