------------------------------ MODULE UsbHost ------------------------------
(***************************************************************************)
(* Host mode: how the devices usbd reports become the device list of the   *)
(* service.  usbd (external) sends attach and detach events, which         *)
(* UsbServiceSubscriber::DeviceEvent handles one after the other, in the   *)
(* order usbd sent them: an attach makes UsbService::AddDevice open the    *)
(* device, read and parse its descriptors, close it and hand the new       *)
(* UsbDevice to UsbHostManager, which publishes ATTACHED and inserts it;   *)
(* a detach makes UsbService::DelDevice close it, publish DETACHED and     *)
(* delete it.  Meanwhile devices are plugged and pulled, and clients open  *)
(* and close devices on other IPC threads; nothing is locked.              *)
(*                                                                         *)
(* Data: of a UsbDevice only its name and whether it has configurations    *)
(* are kept.  A UsbDevice that got no bus number and address (memset_s     *)
(* left them 0) is named "0-0": Nameless here, an address usbd never       *)
(* reports.  usbd is only ever asked by bus number and address, so it      *)
(* keeps one handle per device, shared by the service and its clients.     *)
(***************************************************************************)
EXTENDS Naturals, Sequences

CONSTANTS
    Addrs,             \* "bus-address" names usbd reports
    Nameless,          \* the name "0-0"
    MaxPlugs,          \* bound: how many times a device is plugged in
    BadDescriptors,    \* may usbd fail, or a descriptor be malformed?
    ClientsMayClose    \* may clients open and close devices?

ASSUME HostConstants ==
    /\ Nameless \notin Addrs
    /\ MaxPlugs \in Nat
    /\ BadDescriptors \in BOOLEAN
    /\ ClientsMayClose \in BOOLEAN

Names == Addrs \cup {Nameless}
Objects == 1 .. MaxPlugs      \* UsbDevice objects, one per AddDevice
None == 0

VARIABLES
    plugged,    \* the addresses at which a device is plugged in
    plugs,      \* how many times one was
    queue,      \* events usbd has sent and the subscriber has not handled
    handle,     \* handle[a]: who has the device open in usbd
    upset,      \* history: addresses where, since the last plug, usbd failed, a
                \* descriptor was malformed or a client closed the device
    pc,         \* where the event handler is
    addr,       \* busNum and devAddr of the event being handled
    object,     \* devInfo of AddDevice
    heap,       \* heap[o]: is object o allocated?
    name,       \* name[o]: what name the object carries
    configs,    \* the objects that have configurations
    devices,    \* UsbHostManager::devices_, None where there is no entry
    announced,  \* history: names whose last published event is ATTACHED
    lost        \* history: names whose last event could not be published

usbd == <<plugged, plugs, queue>>
handles == <<handle, upset>>
objects == <<object, heap, name, configs>>
broadcasts == <<announced, lost>>
manager == <<devices, broadcasts>>
vars == <<usbd, handles, pc, addr, objects, manager>>

ACT_DEVUP(a) == [status |-> "ACT_DEVUP", addr |-> a]
ACT_DEVDOWN(a) == [status |-> "ACT_DEVDOWN", addr |-> a]
Events == [status : {"ACT_DEVUP", "ACT_DEVDOWN"}, addr : Addrs]

PCs == {"idle", "open", "descriptor", "config", "endless", "close", "publish", "insert",
        "detach", "find", "erase"}

TypeOK ==
    /\ plugged \in SUBSET Addrs
    /\ plugs \in 0 .. MaxPlugs
    /\ queue \in Seq(Events)
    /\ handle \in [Addrs -> SUBSET {"service", "client"}]
    /\ upset \in SUBSET Addrs
    /\ pc \in PCs
    /\ addr \in Addrs
    /\ object \in Objects \cup {None}
    /\ object = None <=> pc \in {"idle", "detach", "find", "erase"}
    /\ heap \in [Objects -> {"unused", "live", "deleted"}]
    /\ name \in [Objects -> Names]
    /\ configs \in SUBSET Objects
    /\ devices \in [Names -> Objects \cup {None}]
    /\ announced \in SUBSET Names
    /\ lost \in SUBSET Names

Init ==
    /\ plugged = {}
    /\ plugs = 0
    /\ queue = <<>>
    /\ handle = [a \in Addrs |-> {}]
    /\ upset = {}
    /\ pc = "idle"
    /\ addr \in Addrs
    /\ object = None
    /\ heap = [o \in Objects |-> "unused"]
    /\ name = [o \in Objects |-> Nameless]
    /\ configs = {}
    /\ devices = [n \in Names |-> None]
    /\ announced = {}
    /\ lost = {}

-----------------------------------------------------------------------------
(* usbd and the cable *)

Plug(a) ==
    /\ a \notin plugged
    /\ plugs < MaxPlugs
    /\ plugged' = plugged \cup {a}
    /\ plugs' = plugs + 1
    /\ queue' = Append(queue, ACT_DEVUP(a))
    /\ upset' = upset \ {a}
    /\ UNCHANGED <<handle, pc, addr, objects, manager>>

Unplug(a) ==
    /\ a \in plugged
    /\ plugged' = plugged \ {a}
    /\ handle' = [handle EXCEPT ![a] = {}]
    /\ queue' = Append(queue, ACT_DEVDOWN(a))
    /\ UNCHANGED <<upset, plugs, pc, addr, objects, manager>>

OpenedBy(a, who) == handle' = [handle EXCEPT ![a] = @ \cup {who}]
Closed(a) == handle' = [handle EXCEPT ![a] = {}]
Upsets(a) == upset' = upset \cup {a}

-----------------------------------------------------------------------------
(* DeviceEvent: ACT_DEVUP *)

(* DeviceEvent and the start of AddDevice: a new, zeroed UsbDevice. *)
AddDevice ==
    /\ pc = "idle"
    /\ queue # <<>>
    /\ Head(queue).status = "ACT_DEVUP"
    /\ queue' = Tail(queue)
    /\ addr' = Head(queue).addr
    /\ \E o \in Objects :
          /\ heap[o] = "unused"
          /\ \A p \in Objects : p < o => heap[p] # "unused"
          /\ object' = o
          /\ heap' = [heap EXCEPT ![o] = "live"]
    /\ pc' = "open"
    /\ UNCHANGED <<plugged, plugs, handles, name, configs, manager>>

(* Mutant of GiveUp: AddDevice deletes the object and does not return. *)
GiveUpGoesOn ==
    /\ heap' = [heap EXCEPT ![object] = "deleted"]
    /\ object' = None
    /\ pc' = "publish"

(* GetDeviceInfo failed: AddDevice deletes the object and gives up. *)
GiveUp ==
    /\ heap' = [heap EXCEPT ![object] = "deleted"]
    /\ object' = None
    /\ pc' = "idle"

(* GetDeviceInfo opens the device; a device that was pulled cannot be. *)
GetDeviceInfoOpen ==
    /\ pc = "open"
    /\ \/ /\ addr \in plugged
          /\ OpenedBy(addr, "service")
          /\ pc' = "descriptor"
          /\ UNCHANGED <<upset, objects>>
       \/ /\ (addr \notin plugged /\ UNCHANGED upset) \/ (BadDescriptors /\ Upsets(addr))
          /\ GiveUp
          /\ UNCHANGED <<handle, name, configs>>
    /\ UNCHANGED <<usbd, addr, manager>>

(* Mutant of ReadDescriptor: bus number and address are not set. *)
ReadDescriptorNoName ==
    /\ handle[addr] # {}
    /\ configs' = configs \cup {object}
    /\ UNCHANGED <<handles, name>>

(* GetDeviceInfoDescriptor reads and parses: the object gets its name and  *)
(* the number of configurations it should have (here: configs, until       *)
(* GetConfigDescriptor decides).  GetDeviceInfo goes on whatever the       *)
(* result was.                                                             *)
ReadDescriptor ==
    /\ handle[addr] # {}
    /\ name' = [name EXCEPT ![object] = addr]
    /\ configs' = configs \cup {object}
    /\ UNCHANGED handles

RawDescriptorFails ==
    /\ (handle[addr] = {} /\ UNCHANGED upset) \/ (BadDescriptors /\ Upsets(addr))
    /\ Closed(addr)
    /\ UNCHANGED <<name, configs>>

(* An empty buffer is refused before the name is set, without CloseDevice. *)
RawDescriptorEmpty ==
    /\ BadDescriptors
    /\ Upsets(addr)
    /\ UNCHANGED <<handle, name, configs>>

ParseDeviceDescriptorFails ==
    /\ BadDescriptors
    /\ Upsets(addr)
    /\ name' = [name EXCEPT ![object] = addr]
    /\ Closed(addr)
    /\ UNCHANGED configs

GetDeviceInfoDescriptor ==
    /\ pc = "descriptor"
    /\ ReadDescriptor \/ RawDescriptorFails \/ RawDescriptorEmpty \/ ParseDeviceDescriptorFails
    /\ pc' = "config"
    /\ UNCHANGED <<usbd, addr, object, heap, manager>>

(* GetConfigDescriptor: parsed (nothing to parse when the device           *)
(* descriptor was not read), cut short (no configuration, still UEC_OK),   *)
(* malformed (then GetDeviceInfo returns without CloseDevice), or a        *)
(* descriptor of length 0, of a bare header or of a short interface, which *)
(* keeps ParseConfigDescriptor, and usbd's thread with it, in its loop.    *)
GetConfigDescriptor ==
    /\ pc = "config"
    /\ \/ pc' = "close" /\ UNCHANGED <<upset, objects>>
       \/ /\ BadDescriptors /\ object \in configs
          /\ Upsets(addr)
          /\ \/ /\ pc' = "close"
                /\ configs' = configs \ {object}
                /\ UNCHANGED <<object, heap, name>>
             \/ GiveUp /\ UNCHANGED <<name, configs>>
             \/ pc' = "endless" /\ UNCHANGED objects
    /\ UNCHANGED <<usbd, handle, addr, manager>>

(* Mutant of GetDeviceInfoClose: the device stays open. *)
GetDeviceInfoKeepsOpen ==
    /\ pc = "close"
    /\ pc' = "publish"
    /\ UNCHANGED <<usbd, handles, addr, objects, manager>>

(* The last CloseDevice of GetDeviceInfo. *)
GetDeviceInfoClose ==
    /\ pc = "close"
    /\ Closed(addr)
    /\ pc' = "publish"
    /\ UNCHANGED <<usbd, upset, addr, objects, manager>>

(* PublishCommonEvent may fail, which is logged and nothing else: the name *)
(* is then one whose last event subscribers did not get.                   *)
PublishFails(n) == lost' = lost \cup {n} /\ UNCHANGED announced

(* Mutant of PublishAttached: the event names the address usbd reported. *)
PublishAttachedAddress ==
    /\ pc = "publish"
    /\ \/ announced' = announced \cup {addr} /\ lost' = lost \ {addr}
       \/ PublishFails(addr)
    /\ pc' = "insert"
    /\ UNCHANGED <<usbd, handles, addr, objects, devices>>

(* UsbHostManager::AddDevice publishes before it inserts. *)
PublishAttached ==
    /\ pc = "publish"
    /\ \/ announced' = announced \cup {name[object]} /\ lost' = lost \ {name[object]}
       \/ PublishFails(name[object])
    /\ pc' = "insert"
    /\ UNCHANGED <<usbd, handles, addr, objects, devices>>

(* Mutant of InsertDevice: the replaced object is not deleted. *)
InsertDeviceLeaks ==
    /\ pc = "insert"
    /\ devices' = [devices EXCEPT ![name[object]] = object]
    /\ object' = None
    /\ pc' = "idle"
    /\ UNCHANGED <<usbd, handles, addr, heap, name, configs, broadcasts>>

(* ... and replaces, and deletes, an entry of the same name. *)
InsertDevice ==
    /\ pc = "insert"
    /\ LET old == devices[name[object]] IN
       heap' = IF old = None THEN heap ELSE [heap EXCEPT ![old] = "deleted"]
    /\ devices' = [devices EXCEPT ![name[object]] = object]
    /\ object' = None
    /\ pc' = "idle"
    /\ UNCHANGED <<usbd, handles, addr, name, configs, broadcasts>>

-----------------------------------------------------------------------------
(* DeviceEvent: anything else is a detach *)

DelDevice ==
    /\ pc = "idle"
    /\ queue # <<>>
    /\ Head(queue).status = "ACT_DEVDOWN"
    /\ queue' = Tail(queue)
    /\ addr' = Head(queue).addr
    /\ pc' = "detach"
    /\ UNCHANGED <<plugged, plugs, handles, objects, manager>>

(* Mutant of DelDeviceClose: a device that is not open ends DelDevice. *)
DelDeviceCloseReturns ==
    /\ pc = "detach"
    /\ Closed(addr)
    /\ pc' = IF handle[addr] = {} THEN "idle" ELSE "find"
    /\ UNCHANGED <<usbd, upset, addr, objects, manager>>

(* UsbService::DelDevice closes the device and only logs a failure. *)
DelDeviceClose ==
    /\ pc = "detach"
    /\ Closed(addr)
    /\ pc' = "find"
    /\ UNCHANGED <<usbd, upset, addr, objects, manager>>

PublishDetached ==
    /\ pc = "find"
    /\ \/ devices[addr] = None /\ pc' = "idle" /\ UNCHANGED broadcasts
       \/ /\ devices[addr] # None
          /\ \/ announced' = announced \ {addr} /\ lost' = lost \ {addr}
             \/ PublishFails(addr)
          /\ pc' = "erase"
    /\ UNCHANGED <<usbd, handles, addr, objects, devices>>

EraseDevice ==
    /\ pc = "erase"
    /\ heap' = [heap EXCEPT ![devices[addr]] = "deleted"]
    /\ devices' = [devices EXCEPT ![addr] = None]
    /\ pc' = "idle"
    /\ UNCHANGED <<usbd, handles, addr, object, name, configs, broadcasts>>

-----------------------------------------------------------------------------
(* Clients on other IPC threads *)

(* OpenDevice and Close for a client (the right it needs: UsbRights). *)
ClientOpen(a) ==
    /\ ClientsMayClose
    /\ a \in plugged
    /\ OpenedBy(a, "client")
    /\ UNCHANGED <<usbd, upset, pc, addr, objects, manager>>

ClientClose(a) ==
    /\ ClientsMayClose
    /\ Closed(a)
    /\ Upsets(a)
    /\ UNCHANGED <<usbd, pc, addr, objects, manager>>

-----------------------------------------------------------------------------

HandlerStep ==
    \/ AddDevice \/ GetDeviceInfoOpen \/ GetDeviceInfoDescriptor \/ GetConfigDescriptor
    \/ GetDeviceInfoClose \/ PublishAttached \/ InsertDevice
    \/ DelDevice \/ DelDeviceClose \/ PublishDetached \/ EraseDevice

Next ==
    \/ HandlerStep
    \/ \E a \in Addrs : Plug(a) \/ Unplug(a) \/ ClientOpen(a) \/ ClientClose(a)

Spec == Init /\ [][Next]_vars

(* usbd's notification thread keeps running, unless a descriptor holds it  *)
(* ("endless"); nobody need plug or call.                                  *)
FairSpec == Spec /\ WF_vars(HandlerStep)

-----------------------------------------------------------------------------

Quiet == pc = "idle" /\ queue = <<>>

(* Once every event is handled, each listed device (but for "0-0") is      *)
(* plugged in, whatever was pulled, replugged or closed by clients while   *)
(* AddDevice and DelDevice ran, and whatever failed; and every plugged     *)
(* device is listed with its configurations, unless since it was plugged   *)
(* in usbd failed, its descriptors were malformed or a client closed it:   *)
(* pulling and replugging it, or faults of other devices, lose nothing.    *)
QuietListIsRight ==
    Quiet => /\ \A a \in Addrs : devices[a] # None => a \in plugged
             /\ \A a \in plugged \ upset : devices[a] # None /\ devices[a] \in configs

(* Between events, subscribers of ATTACHED and DETACHED know exactly the   *)
(* devices that UsbHostManager lists, but for those whose last event could *)
(* not be published: whatever failed before, one event that is published   *)
(* puts a device right.                                                    *)
EventsMatchList ==
    pc = "idle" => \A n \in Names \ lost : n \in announced <=> devices[n] # None

(* ATTACHED is published for a device (but for "0-0") that subscribers do  *)
(* not know, and DETACHED for one they do, unless the event before it      *)
(* could not be published.                                                 *)
EventsAlternate ==
    [][/\ pc = "publish" /\ pc' = "insert" /\ name[object] \in Addrs \ (lost \cup lost')
              => name[object] \notin announced
       /\ pc = "find" /\ pc' = "erase" /\ addr \notin lost \cup lost' => addr \in announced]_vars

(* devices_ points to objects that are allocated, to no object twice, and  *)
(* each under its own name; no other object but the one being made is      *)
(* allocated (none leaks, none is deleted twice).                          *)
ListOwnsObjects ==
    /\ \A n \in Names : devices[n] # None => name[devices[n]] = n
    /\ \A o \in Objects : heap[o] = "live" <=> (o = object \/ \E n \in Names : devices[n] = o)

(* Between events the service has no device open: AddDevice closes what it *)
(* opened, unless that device upset it (a malformed configuration          *)
(* descriptor does leave it open).                                         *)
ServiceLetsGo == pc = "idle" => \A a \in Addrs \ upset : "service" \notin handle[a]

(* A device that stays plugged in and upsets nothing is listed at last,    *)
(* and one that stays away is not listed in the end, whatever else failed, *)
(* unless the parse of a descriptor does not end: it holds the only thread *)
(* that lists devices.                                                     *)
ListFollowsPlugs ==
    \A a \in Addrs :
        /\ a \in plugged ~> devices[a] # None \/ a \notin plugged \/ a \in upset \/ pc = "endless"
        /\ a \notin plugged ~> devices[a] = None \/ a \in plugged \/ pc = "endless"

(* Claimed by the event test (usb_event_test.cpp, "valid device"): the     *)
(* device in an ATTACHED event has configurations.                         *)
AttachedIsValid ==
    [][pc = "publish" /\ pc' = "insert" /\ name[object] \notin lost' => object \in configs]_vars
=============================================================================
