--------------------------- MODULE UsbDevicePath ---------------------------
(***************************************************************************)
(* The way of a parsed device to a JavaScript application and of the       *)
(* application's calls back to the device.  Going out, a device is copied  *)
(* by the stub into the parcel of GetDevices, by the proxy out of it and   *)
(* by CtoJSUsbDevice into objects; or, with the event of its attachment,   *)
(* by ToJson into a text.  Coming back, the objects the application passes *)
(* to a call are copied by the Parse...Obj functions, and UsbSrvClient     *)
(* picks the arguments of the service's call.  Every copy chooses its own  *)
(* types and names of members, and a conversion that fails throws in the   *)
(* engine without stopping the native function it is part of.              *)
(*                                                                         *)
(* Extends UsbDescriptor: the device is whatever the parser made of its    *)
(* bytes.  Of the event, the application parses the text into objects      *)
(* itself (external).  A device without permission or gone is the concern  *)
(* of other modules; here every call of the service is only looked at for  *)
(* its arguments.                                                          *)
(***************************************************************************)
EXTENDS UsbDescriptor, Integers

VARIABLES
    js,        \* the device as the application has it
    pipe,      \* the USBDevicePipe connectDevice gave it
    request,   \* a UsbRequest after Initialize: [endpoint, of |-> its place in config]
    call       \* history: the last call: [to |-> arguments the service got,
               \* meant |-> those of the parsed device, thrown]

pathVars == <<js, pipe, request, call>>

None == <<>>
BusNum == 1
DevAddr == 200

Uint8(n) == n % 256
Int8(n) == IF Uint8(n) >= 128 THEN Uint8(n) - 256 ELSE Uint8(n)

PathInit ==
    /\ Init
    /\ js = None
    /\ pipe = None
    /\ request = None
    /\ call = None

-----------------------------------------------------------------------------
(* Going out. *)

GetMaxPower(power) == power * 2

(* GetInterfaceId has the type int8_t. *)
GetInterfaceId(endpoint) == Int8(endpoint.interfaceId)

(* What the stub writes and the proxy reads: the maximum power through its *)
(* getter, and of an endpoint not its interface, which the proxy takes     *)
(* from the interface it belongs to.                                       *)
FromParcel(c) ==
    [c EXCEPT
        !.maxPower = GetMaxPower(c.maxPower),
        !.interfaces = [i \in DOMAIN @ |-> [@[i] EXCEPT !.endpoints =
            LET f == c.interfaces[i] IN
            [e \in DOMAIN f.endpoints |->
                [f.endpoints[e] EXCEPT !.interfaceId = Uint8(f.id)]]]]]

CtoJSUsbConfig(c) ==
    [c EXCEPT
        !.maxPower = GetMaxPower(c.maxPower),
        !.interfaces = [i \in DOMAIN @ |-> [@[i] EXCEPT !.endpoints =
            LET f == c.interfaces[i] IN
            [e \in DOMAIN f.endpoints |->
                [f.endpoints[e] EXCEPT !.interfaceId = GetInterfaceId(f.endpoints[e])]]]]]

(* getDevices of the binding, for the one device. *)
GetDevices ==
    /\ pc = "done"
    /\ js' = [origin |-> "getDevices", busNum |-> BusNum, devAddress |-> DevAddr,
              config |-> CtoJSUsbConfig(FromParcel(config))]
    /\ UNCHANGED <<vars, pipe, request, call>>

(* ToJson, the data of the ATTACHED event: the members as they are. *)
Attached ==
    /\ pc = "done"
    /\ js' = [origin |-> "event", busNum |-> BusNum, devAddress |-> DevAddr, config |-> config]
    /\ UNCHANGED <<vars, pipe, request, call>>

-----------------------------------------------------------------------------
(* Coming back. *)

(* A list without elements is an array for CtoJS... and null in ToJson. *)
IsArray(list) == list # <<>> \/ js.origin = "getDevices"

ParseEndpointObj(e) == [e EXCEPT !.interfaceId = Uint8(e.interfaceId)]
ParseInterfaceObj(f) == [f EXCEPT !.endpoints = [e \in DOMAIN @ |-> ParseEndpointObj(@[e])]]

(* A configuration whose interfaces are no array throws and stays what     *)
(* USBConfig() made it: its id is INVALID_USB_INT_VALUE.                   *)
ConfigThrows(c) == ~IsArray(c.interfaces)
ParseConfigObj(c) == [c EXCEPT !.id = IF ConfigThrows(c) THEN -1 ELSE @]

(* ParseDeviceObj throws for the configurations, and goes on. *)
DeviceThrows ==
    \/ ~js.config.present /\ js.origin = "event"
    \/ js.config.present /\ ConfigThrows(js.config)

Calls(to, meant, thrown) == call' = [to |-> to, meant |-> meant, thrown |-> thrown]

(* connectDevice.  The pipe goes to the application and comes back with    *)
(* every call as an object of its own.  The service opens the device even  *)
(* when the application gets an exception instead of the pipe.             *)
ConnectDevice ==
    /\ pc = "done" /\ js # None
    /\ Calls(<<Uint8(js.busNum), Uint8(js.devAddress)>>, <<BusNum, DevAddr>>, DeviceThrows)
    /\ pipe' = IF DeviceThrows THEN pipe ELSE <<Uint8(js.busNum), Uint8(js.devAddress)>>
    /\ UNCHANGED <<vars, js, request>>

Piped == pc = "done" /\ js # None /\ pipe # None

Interface(i) == config.interfaces[i]
Endpoint(i, e) == Interface(i).endpoints[e]

(* claimInterface, releaseInterface and setInterface. *)
UseInterface(i) ==
    /\ Piped
    /\ LET f == ParseInterfaceObj(js.config.interfaces[i]) IN
       Calls(pipe \o <<Uint8(f.id), Uint8(f.alternateSetting)>>,
             <<BusNum, DevAddr, Interface(i).id, Interface(i).alternateSetting>>, FALSE)
    /\ UNCHANGED <<vars, js, pipe, request>>

SetConfiguration ==
    /\ Piped /\ js.config.present
    /\ Calls(pipe \o <<Uint8(ParseConfigObj(js.config).id)>>, <<BusNum, DevAddr, config.id>>, ConfigThrows(js.config))
    /\ UNCHANGED <<vars, js, pipe, request>>

(* Mutant of UsbPipe: the interface is not converted back. *)
UsbPipeSigned(endpoint) == <<GetInterfaceId(endpoint), endpoint.address>>

(* UsbPipe of a call: an int8_t is turned into a uint8_t again. *)
UsbPipe(endpoint) == <<Uint8(GetInterfaceId(endpoint)), endpoint.address>>

BulkTransfer(i, e) ==
    /\ Piped
    /\ Calls(pipe \o UsbPipe(ParseEndpointObj(js.config.interfaces[i].endpoints[e])),
             <<BusNum, DevAddr, Interface(i).id, Endpoint(i, e).address>>, FALSE)
    /\ UNCHANGED <<vars, js, pipe, request>>

(* A UsbRequest of a native client, which has the device as the proxy made *)
(* it: Initialize keeps the endpoint and claims its interface, whatever    *)
(* comes of it ...                                                         *)
RequestInitialize(i, e) ==
    /\ Piped
    /\ request' = [endpoint |-> FromParcel(config).interfaces[i].endpoints[e], of |-> <<i, e>>]
    /\ Calls(pipe \o <<Uint8(GetInterfaceId(request'.endpoint))>>, <<BusNum, DevAddr, Interface(i).id>>, FALSE)
    /\ UNCHANGED <<vars, js, pipe>>

(* ... and Queue, Abort and Free go to the endpoint it kept. *)
RequestUse(i, e) ==
    /\ Piped /\ request # None /\ request.of = <<i, e>>
    /\ Calls(pipe \o UsbPipe(request.endpoint), <<BusNum, DevAddr, Interface(i).id, Endpoint(i, e).address>>, FALSE)
    /\ UNCHANGED <<vars, js, pipe, request>>

PathNext ==
    \/ Parse /\ UNCHANGED pathVars
    \/ GetDevices \/ Attached \/ ConnectDevice \/ SetConfiguration
    \/ \E i \in DOMAIN config.interfaces :
          \/ UseInterface(i)
          \/ \E e \in DOMAIN Interface(i).endpoints :
                BulkTransfer(i, e) \/ RequestInitialize(i, e) \/ RequestUse(i, e)

PathSpec == PathInit /\ [][PathNext]_<<vars, pathVars>> /\ WF_vars(Parse /\ UNCHANGED pathVars)

-----------------------------------------------------------------------------

(* A call of an application or a native client reaches the service with    *)
(* the device, configuration, interface, setting and endpoint that the     *)
(* device's descriptor has, whatever copies (SetInterfaceId,               *)
(* GetInterfaceId, Parse...Obj, UsbPipe) were in between, unless the       *)
(* application got an exception.                                           *)
CallsNameTheirTarget == call # None => call.thrown \/ call.to = call.meant

(* "Maximum power consumption, in mA" of a USBConfig that getDevices gave  *)
(* to an application: the descriptor counts in units of 2 mA.              *)
MaxPowerIsMilliamps ==
    js # None /\ js.origin = "getDevices" /\ js.config.present => js.config.maxPower = 2 * config.maxPower
=============================================================================
