--------------------------- MODULE UsbDescriptor ---------------------------
(***************************************************************************)
(* How the service reads the raw descriptor of a device: the walk of       *)
(* UsbDescriptorParser over the bytes, driven by GetDeviceInfo, and the    *)
(* strings FillDevStrings adds.  The bytes come from the device: its       *)
(* lengths and counts may be wrong, and the descriptor may be cut short.   *)
(* The parser checks some of them and ignores its own error codes below    *)
(* the configuration, so that what it does next depends on how far its     *)
(* cursor came.                                                            *)
(*                                                                         *)
(* The layout of the bytes is that of the USB structures.  Of an           *)
(* interface, the identity, the string index and the endpoints are kept;   *)
(* of an endpoint, its address and interface; class codes, packet sizes    *)
(* and the other numbers are copied without a decision and left out.  A    *)
(* read outside the raw descriptor is undefined behaviour and ends the     *)
(* behaviour in the label "undefined": anything could follow.              *)
(***************************************************************************)
EXTENDS Naturals, SequencesExt

CONSTANTS
    MaxItems,      \* bound: descriptors after the configuration's, of any kind
    MaxSound,      \* the same bound for devices that follow the standard
    MaxCutItems    \* the same bound for descriptors that are cut at every length

(* A place is also a byte, with and without the highest bit. *)
ASSUME DescriptorConstants ==
    /\ MaxItems \in 0 .. 127 /\ MaxSound \in 0 .. 127 /\ MaxCutItems \in 0 .. 127

DEVICE_SIZE == 18
CONFIG_SIZE == 9
INTERFACE_SIZE == 9
ENDPOINT_SIZE == 7
HEADER_SIZE == 2

DESCRIPTOR_TYPE_CONFIG == 2
DESCRIPTOR_TYPE_INTERFACE == 4
DESCRIPTOR_TYPE_ENDPOINT == 5

-----------------------------------------------------------------------------
(* The devices.  A layout is the order of the descriptors that follow the  *)
(* first configuration descriptor:                                         *)
(*   I0 I1 I2   interface 0 with that many endpoints                       *)
(*   A1         its alternate setting with one endpoint                    *)
(*   J1         interface 130 with one endpoint                            *)
(*   E          an endpoint                                                *)
(*   X          a class-specific descriptor                                *)
(*   C          a second configuration                                     *)
(* and, against the standard,                                              *)
(*   H          a descriptor that is only a header                         *)
(*   Z          a descriptor that says its length is 0                     *)
(*   S          an interface descriptor that is a byte too short           *)
(***************************************************************************)
Standard == {"I0", "I1", "I2", "A1", "J1", "E", "X", "C"}
Faults == {"H", "Z", "S"}
Settings == {"I0", "I1", "I2", "A1", "J1"}

Id(x) == IF x = "J1" THEN 130 ELSE 0
Alt(x) == IF x = "A1" THEN 1 ELSE 0
Eps(x) == CASE x = "I0" -> 0 [] x = "I2" -> 2 [] OTHER -> 1
Address(k) == IF k % 2 = 0 THEN k ELSE k + 128

ConfigBytes(interfaces) == <<CONFIG_SIZE, DESCRIPTOR_TYPE_CONFIG, 0, 0, interfaces, 1, 0, 128, 50>>

(* The bytes of the descriptor at place k of layout l; k also serves as    *)
(* the interface's string index and the endpoint's address.                *)
Bytes(l, k) ==
    LET x == l[k] IN
    CASE x \in Settings ->
            <<INTERFACE_SIZE, DESCRIPTOR_TYPE_INTERFACE, Id(x), Alt(x), Eps(x), 255, 0, 0, k - 1>>
      [] x = "E" -> <<ENDPOINT_SIZE, DESCRIPTOR_TYPE_ENDPOINT, Address(k), 2, 64, 0, 0>>
      [] x = "X" -> <<3, 36, 0>>
      [] x = "C" -> ConfigBytes(1)
      [] x = "H" -> <<2, 36>>
      [] x = "Z" -> <<0, 36, 0>>
      [] x = "S" -> <<8, DESCRIPTOR_TYPE_INTERFACE, 0, 0, 1, 255, 0, 0>>

DeviceBytes(size, configs) == <<size, 1, 0, 2, 255, 0, 0, 64, 1, 0, 2, 0, 0, 1, 1, 2, 3, configs>>

Raw(l, interfaces, configs) ==
    DeviceBytes(DEVICE_SIZE, configs) \o ConfigBytes(interfaces)
        \o FlattenSeq([k \in DOMAIN l |-> Bytes(l, k)])

(* Place k of l belongs to the first configuration ... *)
First(l, k) == \A j \in 1 .. k : l[j] # "C"
(* ... and E at place k to the setting at place s. *)
Owns(l, s, k) == s < k /\ l[k] = "E" /\ l[s] \in Settings /\ \A j \in s + 1 .. k : l[j] \notin Settings \cup {"C"}
OwnEndpoints(l, s) == {k \in DOMAIN l : Owns(l, s, k)}

(* The places of the settings with endpoints in the first configuration. *)
Used(l) == {k \in DOMAIN l : First(l, k) /\ l[k] \in Settings /\ Eps(l[k]) > 0}
Interfaces(l) == Cardinality({Id(l[k]) : k \in {j \in DOMAIN l : First(l, j) /\ l[j] \in Settings}})

(* Every setting has the endpoints it announces, an endpoint has a         *)
(* setting, and an alternate setting follows the setting it replaces.      *)
FollowsStandard(l) ==
    /\ \A k \in DOMAIN l :
          /\ l[k] \in Standard
          /\ l[k] \in Settings => Cardinality(OwnEndpoints(l, k)) = Eps(l[k])
          /\ l[k] = "E" => \E s \in DOMAIN l : Owns(l, s, k)
          /\ l[k] = "C" => First(l, k - 1)
    /\ \A j, k \in DOMAIN l : l[j] = l[k] /\ l[j] \in Settings => j = k
    /\ Cardinality({"I0", "I1", "I2"} \cap Range(l)) <= 1
    /\ \A k \in DOMAIN l : l[k] = "A1" => k > 1 /\ \E j \in 1 .. k : l[j] \in {"I0", "I1", "I2"}

(* The first configuration has as many settings with endpoints as it has   *)
(* interfaces, or the descriptor ends with the last setting: the walk need *)
(* not look for a further one among what follows.                          *)
EnoughSettings(l) ==
    \/ Cardinality(Used(l)) >= Interfaces(l)
    \/ l = <<>>
    \/ Last(l) \in Settings \cup {"E"} /\ First(l, Len(l))

-----------------------------------------------------------------------------

VARIABLES
    layout,    \* what the device is: [items, interfaces, cut], for the properties only
    raw,       \* descriptor of GetDeviceInfo: the raw bytes
    pc,        \* where the walk is
    count,     \* dev.GetDescConfigCount(), a bool
    base,      \* where the bytes begin that the running Parse... function was given
    at,        \* its cursor
    left,      \* interfaces the configuration still wants
    interface, \* the interface being parsed
    wanted,    \* its bNumEndpoints
    config     \* the parsed configuration, if there is one

vars == <<layout, raw, pc, count, base, at, left, interface, wanted, config>>

NoInterface == [id |-> 0, alternateSetting |-> 0, iInterface |-> 0, name |-> 0, endpoints |-> <<>>]
NoConfig == [present |-> FALSE, id |-> 0, maxPower |-> 0, interfaces |-> <<>>]
DefaultEndpoint == [address |-> 0, interfaceId |-> 255]

Inputs ==
    {[items |-> l, interfaces |-> n, cut |-> FALSE] : l \in SeqOf(Standard \cup Faults, MaxItems), n \in 1 .. 2}
    \cup {[items |-> l, interfaces |-> Interfaces(l), cut |-> FALSE] :
              l \in {m \in SeqOf(Standard, MaxSound) : FollowsStandard(m)}}

Start ==
    /\ pc = "device"
    /\ count = FALSE
    /\ base = 0 /\ at = 0 /\ left = 0 /\ wanted = 0
    /\ interface = NoInterface
    /\ config = NoConfig

Init ==
    /\ Start
    /\ \/ \E input \in Inputs : layout = input /\ raw = Raw(input.items, input.interfaces, 1)
       \/ \E l \in SeqOf(Standard \cup Faults, MaxCutItems) :
            LET whole == Raw(l, 1, 1) IN
            \E n \in 0 .. Len(whole) - 1 :
               /\ layout = [items |-> l, interfaces |-> 1, cut |-> TRUE]
               /\ raw = SubSeq(whole, 1, n)
       \/ \E size \in {DEVICE_SIZE - 1, DEVICE_SIZE}, configs \in {0, 2} :
            /\ layout = [items |-> <<>>, interfaces |-> 1, cut |-> TRUE]
            /\ raw = DeviceBytes(size, configs) \o ConfigBytes(1)

Byte(o) == raw[o + 1]
Beyond(o, n) == o + n > Len(raw)
Go(label) == pc' = label

device == <<layout, raw, count>>

-----------------------------------------------------------------------------

(* GetDeviceInfoDescriptor: its failure is only logged by GetDeviceInfo,   *)
(* and the zeroed descConfigCount_ then asks for no configuration.         *)
ParseDeviceDescriptor ==
    /\ pc = "device"
    /\ count' = (~Beyond(0, DEVICE_SIZE) /\ Byte(0) = DEVICE_SIZE /\ Byte(17) # 0)
    /\ Go("config")
    /\ UNCHANGED <<layout, raw, base, at, left, interface, wanted, config>>

(* GetConfigDescriptor: GetDescConfigCount is a bool, so at most the first *)
(* configuration is parsed, as far as ParseConfigDescriptor's own part.    *)
ParseConfigDescriptor ==
    /\ pc = "config"
    /\ LET o == DEVICE_SIZE IN
       CASE ~count \/ Len(raw) <= o ->
                Go("strings") /\ UNCHANGED <<base, left, config>>
         [] count /\ Len(raw) > o /\ (Beyond(o, CONFIG_SIZE) \/ Byte(o) # CONFIG_SIZE) ->
                Go("failed") /\ UNCHANGED <<base, left, config>>
         [] OTHER ->
                /\ Go("interfaces")
                /\ base' = o + CONFIG_SIZE
                /\ left' = Byte(o + 4)
                /\ config' = [present |-> TRUE, id |-> Byte(o + 5), maxPower |-> Byte(o + 8), interfaces |-> <<>>]
    /\ UNCHANGED <<device, at, interface, wanted>>

(* Mutant of NextInterface: the cursor may be at the end. *)
NextInterfaceAtEnd ==
    /\ pc = "interfaces"
    /\ at' = base
    /\ IF left > 0 /\ base <= Len(raw) THEN Go("find interface") ELSE Go("strings")
    /\ interface' = NoInterface
    /\ UNCHANGED <<device, base, left, wanted, config>>

(* The head of the loop over interfaces. *)
NextInterface ==
    /\ pc = "interfaces"
    /\ at' = base
    /\ IF left > 0 /\ base < Len(raw) THEN Go("find interface") ELSE Go("strings")
    /\ interface' = NoInterface
    /\ UNCHANGED <<device, base, left, wanted, config>>

(* ParseInterfaceDescriptor returned an error, which nobody looks at: the  *)
(* interface has no endpoints, and the loop retries from the cursor.       *)
InterfaceFails ==
    /\ Go("interfaces")
    /\ base' = at
    /\ UNCHANGED <<device, at, left, interface, wanted, config>>

(* Of ParseEndpointDescriptor: the endpoint is pushed with its defaults. *)
EndpointFails ==
    /\ Go("endpoints")
    /\ interface' = [interface EXCEPT !.endpoints =
                        Append(@, [DefaultEndpoint EXCEPT !.interfaceId = interface.id])]
    /\ UNCHANGED <<device, base, at, left, wanted, config>>

(* One turn of the loop that looks for a descriptor of a type.  The length *)
(* in a header is compared with all the bytes the function was given, not  *)
(* with those that are left; a cursor at the end leaves the loop as one at *)
(* the descriptor does.                                                    *)
Look(here, type, there, Fails) ==
    /\ pc = here
    /\ LET length == Len(raw) - base IN
       CASE at >= Len(raw) ->
                Go(there) /\ UNCHANGED <<device, base, at, left, interface, wanted, config>>
         [] at < Len(raw) /\ HEADER_SIZE >= length ->
                Fails
         [] at < Len(raw) /\ HEADER_SIZE < length /\ Beyond(at, HEADER_SIZE) ->
                Go("undefined") /\ UNCHANGED <<device, base, at, left, interface, wanted, config>>
         [] OTHER ->
                \/ Byte(at) > length /\ Fails
                \/ /\ Byte(at) <= length /\ Byte(at + 1) = type
                   /\ Go(there)
                   /\ UNCHANGED <<device, base, at, left, interface, wanted, config>>
                \/ /\ Byte(at) <= length /\ Byte(at + 1) # type
                   /\ at' = at + Byte(at)
                   /\ UNCHANGED <<pc, device, base, left, interface, wanted, config>>

FindInterface == Look("find interface", DESCRIPTOR_TYPE_INTERFACE, "read interface", InterfaceFails)
FindEndpoint == Look("find endpoint", DESCRIPTOR_TYPE_ENDPOINT, "read endpoint", EndpointFails)

ReadInterface ==
    /\ pc = "read interface"
    /\ CASE Beyond(at, INTERFACE_SIZE) ->
                Go("undefined") /\ UNCHANGED <<device, base, at, left, interface, wanted, config>>
         [] ~Beyond(at, INTERFACE_SIZE) /\ Byte(at) # INTERFACE_SIZE ->
                InterfaceFails
         [] OTHER ->
                /\ Go("endpoints")
                /\ at' = at + INTERFACE_SIZE
                /\ interface' = [interface EXCEPT !.id = Byte(at + 2), !.alternateSetting = Byte(at + 3),
                                                  !.iInterface = Byte(at + 8)]
                /\ wanted' = Byte(at + 4)
                /\ UNCHANGED <<device, base, left, config>>

(* ParseEndpointDescriptor, when it is given no bytes at all. *)
NextEndpoint ==
    /\ pc = "endpoints"
    /\ Len(interface.endpoints) < wanted
    /\ IF at = Len(raw)
       THEN EndpointFails
       ELSE /\ Go("find endpoint")
            /\ base' = at
            /\ UNCHANGED <<device, at, left, interface, wanted, config>>

ReadEndpoint ==
    /\ pc = "read endpoint"
    /\ CASE Beyond(at, ENDPOINT_SIZE) ->
                Go("undefined") /\ UNCHANGED <<device, base, at, left, interface, wanted, config>>
         [] ~Beyond(at, ENDPOINT_SIZE) /\ Byte(at) # ENDPOINT_SIZE ->
                EndpointFails
         [] OTHER ->
                /\ Go("endpoints")
                /\ at' = at + ENDPOINT_SIZE
                /\ interface' = [interface EXCEPT !.endpoints =
                                    Append(@, [address |-> Byte(at + 2), interfaceId |-> interface.id])]
                /\ UNCHANGED <<device, base, left, wanted, config>>

(* Mutant of EndInterface: an interface that is dropped counts. *)
EndInterfaceCounts ==
    /\ pc = "endpoints"
    /\ Len(interface.endpoints) = wanted
    /\ Go("interfaces")
    /\ base' = at
    /\ left' = left - 1
    /\ config' = IF wanted > 0 THEN [config EXCEPT !.interfaces = Append(@, interface)] ELSE config
    /\ UNCHANGED <<device, at, interface, wanted>>

(* Mutant of EndInterface: the retry does not advance the cursor. *)
EndInterfaceStays ==
    /\ pc = "endpoints"
    /\ Len(interface.endpoints) = wanted
    /\ Go("interfaces")
    /\ IF wanted > 0
       THEN /\ config' = [config EXCEPT !.interfaces = Append(@, interface)]
            /\ left' = left - 1
            /\ base' = at
       ELSE UNCHANGED <<config, left, base>>
    /\ UNCHANGED <<device, at, interface, wanted>>

(* The interface is complete.  One without endpoints is dropped and does   *)
(* not count, "retry" in the code.                                         *)
EndInterface ==
    /\ pc = "endpoints"
    /\ Len(interface.endpoints) = wanted
    /\ Go("interfaces")
    /\ base' = at
    /\ IF wanted > 0
       THEN /\ config' = [config EXCEPT !.interfaces = Append(@, interface)]
            /\ left' = left - 1
       ELSE UNCHANGED <<config, left>>
    /\ UNCHANGED <<device, at, interface, wanted>>

(* GetDevStringValFromIdx: 0, the blank string, for index 0 and for a      *)
(* string that usbd cannot read.                                           *)
StringVal(idx, unreadable) == IF idx = 0 \/ idx \in unreadable THEN 0 ELSE idx

FillDevStrings ==
    /\ pc = "strings"
    /\ \E unreadable \in SUBSET {config.interfaces[i].iInterface : i \in DOMAIN config.interfaces} :
          config' = [config EXCEPT !.interfaces =
                        [i \in DOMAIN @ |->
                            [@[i] EXCEPT !.name = StringVal(config.interfaces[i].iInterface, unreadable)]]]
    /\ Go("done")
    /\ UNCHANGED <<device, base, at, left, interface, wanted>>

Parse ==
    \/ ParseDeviceDescriptor \/ ParseConfigDescriptor
    \/ NextInterface \/ FindInterface \/ ReadInterface \/ EndInterface
    \/ NextEndpoint \/ FindEndpoint \/ ReadEndpoint
    \/ FillDevStrings

Spec == Init /\ [][Parse]_vars

(* The event thread runs on. *)
FairSpec == Spec /\ WF_vars(Parse)

-----------------------------------------------------------------------------

(* A device that follows the standard, read whole, on which the walk never *)
(* has to look for a setting that is not there.                            *)
Sound ==
    /\ ~layout.cut
    /\ FollowsStandard(layout.items)
    /\ layout.interfaces = Interfaces(layout.items)
    /\ EnoughSettings(layout.items)

(* ParseInterfaceDescriptor and ParseEndpointDescriptor, which read their  *)
(* structures without comparing the cursor with the length, stay inside    *)
(* the raw descriptor of a sound device.                                   *)
ReadsStayInside == Sound => pc # "undefined"

(* Which of the places in S the place k is, counted from the first. *)
Rank(S, k) == Cardinality({m \in S : m <= k})

(* f is the interface of the setting at place s, with exactly its own      *)
(* endpoints in their order.                                               *)
Describes(f, l, s) ==
    /\ f.id = Id(l[s]) /\ f.alternateSetting = Alt(l[s])
    /\ Len(f.endpoints) = Eps(l[s])
    /\ \A k \in OwnEndpoints(l, s) :
          f.endpoints[Rank(OwnEndpoints(l, s), k)] = [address |-> Address(k), interfaceId |-> Id(l[s])]

(* The parsed configuration of a sound device holds the first settings     *)
(* with endpoints, as many as it has interfaces, in their order, each with *)
(* exactly its own endpoints: neither the retry of settings without        *)
(* endpoints nor the search past class-specific descriptors loses or       *)
(* exchanges one.                                                          *)
ParsedAsLaidOut ==
    Sound /\ pc \in {"strings", "done"} =>
        LET l == layout.items
            n == Len(config.interfaces)
        IN  /\ n = IF Cardinality(Used(l)) < Interfaces(l) THEN Cardinality(Used(l)) ELSE Interfaces(l)
            /\ \A s \in Used(l) : Rank(Used(l), s) <= n => Describes(config.interfaces[Rank(Used(l), s)], l, s)

(* However wrong the counts of interfaces and endpoints are, the walk      *)
(* ends, if every descriptor is whole and longer than a header.            *)
WalkEnds ==
    ~layout.cut /\ Range(layout.items) \cap Faults = {}
        ~> pc \in {"done", "failed", "undefined"}
=============================================================================
