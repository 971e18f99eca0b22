------------------------------- MODULE UsbIpc -------------------------------
(***************************************************************************)
(* One IPC call from UsbServerProxy to UsbServerStub and back.  The proxy  *)
(* writes the arguments into a parcel, field by field; the stub finds the  *)
(* handler of the code, reads the fields, calls the service and writes its *)
(* answer into the reply, which the proxy reads.  A parcel carries no      *)
(* types and no names, so that both sides must agree on each layout, also  *)
(* when a write fails in the middle.  SendRequest's result is the result   *)
(* of the handler.  In the same way usbd calls the UsbdBulkCallBack of a   *)
(* client.  Calls share nothing but the service: one is enough.            *)
(*                                                                         *)
(* Data: a field is its kind and the name of the value it holds.  All      *)
(* numbers are one word of a parcel whatever their width.  A buffer is a   *)
(* length and, unless that is zero, bytes.  A count is followed by that    *)
(* many bodies.  Fields keep the name of the service's parameter they are  *)
(* passed to, or of the member they are copied from and to.                *)
(***************************************************************************)
EXTENDS Naturals, Sequences, SequencesExt

CONSTANT MaxItems    \* bound: ports, devices, configurations, ... in a reply

ASSUME IpcConstants == MaxItems \in Nat

Words(names) == [i \in DOMAIN names |-> [kind |-> "word", name |-> names[i]]]
Field(kind, name) == <<[kind |-> kind, name |-> name]>>
Text(name) == Field("text", name)
Buffer(name) == Field("buffer", name)
Object(name) == Field("object", name)
Count(name) == Field("count", name)

Device == Words(<<"busNum", "devAddr">>)
Pipe == Words(<<"busNum", "devAddr", "interface", "endpoint">>)
Call(request, reply) == [request |-> request, reply |-> reply]

(* The calls of several tables. *)
Merge(tables) ==
    [c \in UNION {DOMAIN t : t \in tables} |-> (CHOOSE t \in tables : c \in DOMAIN t)[c]]

-----------------------------------------------------------------------------
(* What the proxy writes into a request and reads from the reply *)

ProxyDevices == [GetDevices |-> Call(<<>>, Count("device"))]

ProxyOpen == [OpenDevice |-> Call(Device, <<>>)]

ProxyRights ==
    [HasRight |-> Call(Text("deviceName"), Words(<<"result">>)),
     RequestRight |-> Call(Text("deviceName"), <<>>),
     RemoveRight |-> Call(Text("deviceName"), <<>>)]

ProxyFunctions ==
    [GetCurrentFunctions |-> Call(<<>>, Words(<<"functions">>)),
     SetCurrentFunctions |-> Call(Words(<<"functions">>), <<>>),
     UsbFunctionsFromString |-> Call(Text("funcs"), Words(<<"functions">>)),
     UsbFunctionsToString |-> Call(Words(<<"functions">>), Text("funcs"))]

ProxyPorts ==
    [GetPorts |-> Call(<<>>, Count("port")),
     GetSupportedModes |-> Call(Words(<<"portId">>), Words(<<"supportedModes">>)),
     SetPortRole |-> Call(Words(<<"portId", "powerRole", "dataRole">>), <<>>)]

ProxyInterfaces ==
    [ClaimInterface |-> Call(Device \o Words(<<"interface", "force">>), <<>>),
     ReleaseInterface |-> Call(Device \o Words(<<"interface">>), <<>>)]

ProxyTransfers ==
    [BulkTransferRead |-> Call(Pipe \o Words(<<"timeOut">>), Buffer("bufferData")),
     BulkTransferWrite |-> Call(Pipe \o Words(<<"timeOut">>) \o Buffer("bufferData"), <<>>),
     ControlTransfer |->
        Call(Device \o Words(<<"requestType", "requestCmd", "value", "index", "timeout">>)
                    \o Buffer("bufferData"), Buffer("bufferData"))]

ProxyConfigs ==
    [SetActiveConfig |-> Call(Device \o Words(<<"configIndex">>), <<>>),
     GetActiveConfig |-> Call(Device, Words(<<"configIndex">>)),
     SetInterface |-> Call(Device \o Words(<<"interface", "altIndex">>), <<>>)]

ProxyDescriptors ==
    [GetRawDescriptor |-> Call(Device, Buffer("bufferData")),
     GetFileDescriptor |-> Call(Device, Words(<<"fd">>))]

ProxyRequests ==
    [RequestQueue |-> Call(Pipe \o Buffer("clientData") \o Buffer("bufferData"), <<>>),
     RequestWait |-> Call(Device \o Words(<<"timeOut">>), Buffer("clientData") \o Buffer("bufferData")),
     RequestCancel |-> Call(Pipe, <<>>),
     Close |-> Call(Device, <<>>)]

ProxyBulk ==
    [RegBulkCallback |-> Call(Pipe \o Object("cb"), <<>>),
     UnRegBulkCallback |-> Call(Pipe, <<>>),
     BulkRead |-> Call(Pipe \o Object("ashmem"), <<>>),
     BulkWrite |-> Call(Pipe \o Object("ashmem"), <<>>),
     BulkCancel |-> Call(Pipe, <<>>)]

(* usbd's calls of a registered callback, as UsbdBulkCallBack reads them.  *)
UsbdCallback ==
    [OnBulkWriteCallback |-> Call(Words(<<"status", "actLength">>), <<>>),
     OnBulkReadCallback |-> Call(Words(<<"status", "actLength">>), <<>>)]

Proxy ==
    Merge({ProxyDevices, ProxyOpen, ProxyRights, ProxyFunctions, ProxyPorts, ProxyInterfaces,
           ProxyTransfers, ProxyConfigs, ProxyDescriptors, ProxyRequests, ProxyBulk, UsbdCallback})

Calls == DOMAIN Proxy

ParsePort == Words(<<"id", "supportedModes", "currentMode", "currentPowerRole", "currentDataRole">>)

ParseDevice ==
    Words(<<"busNum", "devAddr", "vendorId", "productId", "class", "subclass", "protocol",
            "iManufacturer", "iProduct", "iSerialNumber", "bMaxPacketSize0", "bcdUSB", "bcdDevice">>)
    \o Text("name") \o Text("manufacturerName") \o Text("productName") \o Text("version") \o Text("serial")
    \o Count("config")

ParseConfig ==
    Words(<<"id", "attributes", "maxPower", "iConfiguration">>) \o Text("name") \o Count("interface")

ParseInterface ==
    Words(<<"id", "class", "subclass", "alternateSetting", "protocol", "iInterface">>)
    \o Text("name") \o Count("endpoint")

ParseEndpoint == Words(<<"address", "attributes", "interval", "maxPacketSize">>)

ProxyBody ==
    [port |-> ParsePort, device |-> ParseDevice, config |-> ParseConfig,
     interface |-> ParseInterface, endpoint |-> ParseEndpoint]

-----------------------------------------------------------------------------
(* What the stub reads from a request and writes into the reply *)

StubFunctions ==
    [GetCurrentFunctions |-> Call(<<>>, Words(<<"functions">>)),
     SetCurrentFunctions |-> Call(Words(<<"functions">>), <<>>),
     UsbFunctionsFromString |-> Call(Text("funcs"), Words(<<"functions">>)),
     UsbFunctionsToString |-> Call(Words(<<"functions">>), Text("funcs"))]

StubOpen == [OpenDevice |-> Call(Device, <<>>)]

StubRights ==
    [HasRight |-> Call(Text("deviceName"), Words(<<"result">>)),
     RequestRight |-> Call(Text("deviceName"), <<>>),
     RemoveRight |-> Call(Text("deviceName"), <<>>)]

StubPorts ==
    [GetPorts |-> Call(<<>>, Count("port")),
     GetSupportedModes |-> Call(Words(<<"portId">>), Words(<<"supportedModes">>)),
     SetPortRole |-> Call(Words(<<"portId", "powerRole", "dataRole">>), <<>>)]

StubInterfaces ==
    [ClaimInterface |-> Call(Device \o Words(<<"interface", "force">>), <<>>),
     ReleaseInterface |-> Call(Device \o Words(<<"interface">>), <<>>)]

StubTransfers ==
    [BulkTransferRead |-> Call(Pipe \o Words(<<"timeOut">>), Buffer("bufferData")),
     BulkTransferWrite |-> Call(Pipe \o Words(<<"timeOut">>) \o Buffer("bufferData"), <<>>),
     ControlTransfer |->
        Call(Device \o Words(<<"requestType", "requestCmd", "value", "index", "timeout">>)
                    \o Buffer("bufferData"), Buffer("bufferData"))]

StubConfigs ==
    [SetActiveConfig |-> Call(Device \o Words(<<"configIndex">>), <<>>),
     GetActiveConfig |-> Call(Device, Words(<<"configIndex">>)),
     SetInterface |-> Call(Device \o Words(<<"interface", "altIndex">>), <<>>)]

StubDescriptors ==
    [GetRawDescriptor |-> Call(Device, Buffer("bufferData")),
     GetFileDescriptor |-> Call(Device, Words(<<"fd">>))]

StubRequests ==
    [RequestQueue |-> Call(Pipe \o Buffer("clientData") \o Buffer("bufferData"), <<>>),
     RequestWait |-> Call(Device \o Words(<<"timeOut">>), Buffer("clientData") \o Buffer("bufferData")),
     RequestCancel |-> Call(Pipe, <<>>),
     Close |-> Call(Device, <<>>)]

StubDevices == [GetDevices |-> Call(<<>>, Count("device"))]

StubBulk ==
    [RegBulkCallback |-> Call(Pipe \o Object("cb"), <<>>),
     UnRegBulkCallback |-> Call(Pipe, <<>>),
     BulkRead |-> Call(Pipe \o Object("ashmem"), <<>>),
     BulkWrite |-> Call(Pipe \o Object("ashmem"), <<>>),
     BulkCancel |-> Call(Pipe, <<>>)]

(* OnRemoteRequest of UsbdBulkCallBack, in the process of the client. *)
UsbdBulkCallBack ==
    [OnBulkWriteCallback |-> Call(Words(<<"status", "actLength">>), <<>>),
     OnBulkReadCallback |-> Call(Words(<<"status", "actLength">>), <<>>)]

Stub ==
    Merge({StubDevices, StubOpen, StubRights, StubFunctions, StubPorts, StubInterfaces,
           StubTransfers, StubConfigs, StubDescriptors, StubRequests, StubBulk, UsbdBulkCallBack})

WritePort == Words(<<"id", "supportedModes", "currentMode", "currentPowerRole", "currentDataRole">>)

WriteDevice ==
    Words(<<"busNum", "devAddr", "vendorId", "productId", "class", "subclass", "protocol",
            "iManufacturer", "iProduct", "iSerialNumber", "bMaxPacketSize0", "bcdUSB", "bcdDevice">>)
    \o Text("name") \o Text("manufacturerName") \o Text("productName") \o Text("version") \o Text("serial")
    \o Count("config")

WriteConfig ==
    Words(<<"id", "attributes", "maxPower", "iConfiguration">>) \o Text("name") \o Count("interface")

WriteInterface ==
    Words(<<"id", "class", "subclass", "alternateSetting", "protocol", "iInterface">>)
    \o Text("name") \o Count("endpoint")

WriteEndpoint == Words(<<"address", "attributes", "interval", "maxPacketSize">>)

StubBody ==
    [port |-> WritePort, device |-> WriteDevice, config |-> WriteConfig,
     interface |-> WriteInterface, endpoint |-> WriteEndpoint]

(* The codes the two switches of the stub know. *)
StubDevice ==
    {"OpenDevice", "HasRight", "RequestRight", "RemoveRight", "GetPorts", "GetSupportedModes",
     "SetPortRole", "ClaimInterface", "ReleaseInterface", "BulkTransferRead", "BulkTransferWrite",
     "ControlTransfer", "RegBulkCallback", "UnRegBulkCallback", "GetFileDescriptor"}

(* Mutant of StubHost: the code of GetRawDescriptor is missing. *)
StubHostForgets ==
    {"GetDevices", "GetCurrentFunctions", "SetCurrentFunctions", "UsbFunctionsFromString",
     "UsbFunctionsToString", "Close", "RequestQueue", "RequestWait", "SetInterface",
     "SetActiveConfig", "RequestCancel", "BulkRead", "BulkWrite", "BulkCancel"}

StubHost ==
    {"GetDevices", "GetCurrentFunctions", "SetCurrentFunctions", "UsbFunctionsFromString",
     "UsbFunctionsToString", "Close", "RequestQueue", "RequestWait", "SetInterface",
     "SetActiveConfig", "RequestCancel", "BulkRead", "BulkWrite", "BulkCancel", "GetRawDescriptor"}

(* The codes with a handler, on the stub or on a callback. *)
Handled == StubHost \cup StubDevice \cup DOMAIN UsbdBulkCallBack

-----------------------------------------------------------------------------
(* Parcels *)

Cell(kind, name, n) == [kind |-> kind, name |-> name, n |-> n]

(* What a write of a field may put into a parcel. *)
Written(f) ==
    IF f.kind = "buffer"
    THEN {<<Cell("length", f.name, 0)>>, <<Cell("length", f.name, 1), Cell("bytes", f.name, 0)>>}
    ELSE {<<Cell(f.kind, f.name, 0)>>}

(* What a read may give: whether it succeeds, whether the value is that of *)
(* the field, and the rest of the parcel.                                  *)
Got(right, rest) == [ok |-> TRUE, right |-> right, rest |-> rest]
Failed == [ok |-> FALSE, right |-> FALSE, rest |-> <<>>]

(* ReadRemoteObject and ReadAshmem give null where there is no object.     *)
(* The stub does not check, but BulkRead and BulkWrite of the service      *)
(* refuse a null ashmem, which is the last field.                          *)
RefusedNull(f) == f.name = "ashmem"

ReadObject(parcel, f) ==
    IF parcel # <<>> /\ Head(parcel).kind = "object"
    THEN {Got(Head(parcel).name = f.name, Tail(parcel))}
    ELSE IF RefusedNull(f) THEN {Failed} ELSE {Got(FALSE, parcel)}

(* GetBufferMessage: a length and that many bytes.  Any word will do for a *)
(* length: zero, as long as what follows, or longer than the parcel.       *)
ReadBuffer(parcel, f) ==
    LET first == Head(parcel)
        rest == Tail(parcel)
        Bytes(right) == IF rest = <<>> THEN {Failed} ELSE {Got(right, Tail(rest))}
    IN  IF first.kind = "length"
        THEN IF first.n = 0 THEN {Got(first.name = f.name, rest)} ELSE Bytes(first.name = f.name)
        ELSE {Failed, Got(FALSE, rest)} \cup Bytes(FALSE)

(* A word, a text or a count.  Whether a parcel lets a number be read from *)
(* where an object is, is not known here.                                  *)
ReadWord(parcel, f) ==
    LET first == Head(parcel) IN
    {Got(first.kind = f.kind /\ first.name = f.name, Tail(parcel))}
    \cup (IF first.kind = "object" THEN {Failed} ELSE {})

(* Mutant of Read: a word that cannot be read is zero. *)
ReadUnchecked(parcel, f) ==
    IF f.kind = "object" THEN ReadObject(parcel, f)
    ELSE IF parcel = <<>> THEN {Got(FALSE, <<>>)}
    ELSE IF f.kind = "buffer" THEN ReadBuffer(parcel, f)
    ELSE ReadWord(parcel, f)

Read(parcel, f) ==
    IF f.kind = "object" THEN ReadObject(parcel, f)
    ELSE IF parcel = <<>> THEN {Failed}
    ELSE IF f.kind = "buffer" THEN ReadBuffer(parcel, f)
    ELSE ReadWord(parcel, f)

(* The fields to handle once f is: those of n bodies after a count. *)
After(f, n, body, fields) ==
    IF f.kind = "count" THEN FlattenSeq([i \in 1 .. n |-> body[f.name]]) \o fields ELSE fields

-----------------------------------------------------------------------------

VARIABLES
    pc,        \* where the call is
    call,      \* which call it is
    todo,      \* the fields that are still to be written or read
    request,   \* parcel data
    reply,     \* parcel reply
    inbound,   \* a control transfer: from the device to the host?
    room,      \* how many more items the reply may hold
    lost,      \* history: has the proxy ignored a failed write?
    wrong,     \* history: the parcels of which a value was misread
    served,    \* history: has the service done the call?
    clean,     \* history: has nothing failed outside proxy and stub?
    ok         \* is the call's result UEC_OK?

parcels == <<request, reply>>
history == <<lost, wrong, served, clean>>
vars == <<pc, call, todo, parcels, inbound, room, history, ok>>

Init ==
    /\ pc = "returned"
    /\ call = "Close"
    /\ todo = <<>>
    /\ request = <<>>
    /\ reply = <<>>
    /\ inbound = FALSE
    /\ room = MaxItems
    /\ lost = FALSE
    /\ wrong = {}
    /\ served = FALSE
    /\ clean = FALSE
    /\ ok = FALSE

Return(result) ==
    /\ pc' = "returned"
    /\ ok' = result
    /\ todo' = <<>>

(* A write, a transport or the service failed, and the call returns that. *)
ReturnFailure ==
    /\ Return(FALSE)
    /\ clean' = FALSE

(* A call begins. *)
Begin(c) ==
    /\ pc = "returned"
    /\ pc' = "write"
    /\ call' = c
    /\ todo' = Proxy[c].request
    /\ request' = <<>>
    /\ reply' = <<>>
    /\ inbound' \in IF c = "ControlTransfer" THEN BOOLEAN ELSE {FALSE}
    /\ room' = MaxItems
    /\ lost' = FALSE
    /\ wrong' = {}
    /\ served' = FALSE
    /\ clean' = TRUE
    /\ ok' = FALSE

(* There is no remote object, or its interface token cannot be written.    *)
BeginFails ==
    /\ pc = "write"
    /\ todo = Proxy[call].request
    /\ ReturnFailure
    /\ UNCHANGED <<call, parcels, inbound, room, lost, wrong, served>>

ProxyWrite ==
    /\ pc = "write"
    /\ todo # <<>>
    /\ \E cells \in Written(Head(todo)) : request' = request \o cells
    /\ todo' = Tail(todo)
    /\ UNCHANGED <<pc, call, reply, inbound, room, history, ok>>

(* A failed write ends the call.  But only OpenDevice looks at the result  *)
(* of SetDeviceMessage, with which every request about a device begins:    *)
(* the others go on with the next field after its two.                     *)
DeviceMessageUnchecked(f) == f.name \in {"busNum", "devAddr"} /\ call # "OpenDevice"

ProxyWriteFails ==
    /\ pc = "write"
    /\ todo # <<>>
    /\ IF DeviceMessageUnchecked(Head(todo))
       THEN /\ todo' = SubSeq(todo, IF Head(todo).name = "busNum" THEN 3 ELSE 2, Len(todo))
            /\ lost' = TRUE
            /\ clean' = FALSE
            /\ UNCHANGED <<pc, ok>>
       ELSE ReturnFailure /\ UNCHANGED lost
    /\ UNCHANGED <<call, parcels, inbound, room, wrong, served>>

(* SendRequest, and OnRemoteRequest with its two switches.  IPCObjectStub  *)
(* refuses a code that neither of them has.                                *)
SendRequest ==
    /\ pc = "write"
    /\ todo = <<>>
    /\ IF call \in Handled
       THEN pc' = "read" /\ todo' = Stub[call].request /\ UNCHANGED ok
       ELSE Return(FALSE)
    /\ UNCHANGED <<call, parcels, inbound, room, history>>

(* The service is dead, or dies before it has replied. *)
SendRequestFails ==
    /\ pc \in {"write", "read", "reply"}
    /\ pc = "write" => todo = <<>>
    /\ ReturnFailure
    /\ UNCHANGED <<call, parcels, inbound, room, lost, wrong, served>>

StubRead ==
    /\ pc = "read"
    /\ todo # <<>>
    /\ \E got \in Read(request, Head(todo)) :
          IF got.ok
          THEN /\ request' = got.rest
               /\ todo' = Tail(todo)
               /\ wrong' = IF got.right THEN wrong ELSE wrong \cup {"request"}
               /\ UNCHANGED <<pc, ok>>
          ELSE Return(FALSE) /\ UNCHANGED <<request, wrong>>
    /\ UNCHANGED <<call, reply, inbound, room, lost, served, clean>>

(* The fields a handler writes: DoControlTransfer replies with the buffer  *)
(* only if the request type it has read says so.                           *)
ReplyFields ==
    IF call # "ControlTransfer" THEN {Stub[call].reply}
    ELSE IF "request" \in wrong THEN {<<>>, Stub[call].reply}
    ELSE IF inbound THEN {Stub[call].reply} ELSE {<<>>}

StubExecute ==
    /\ pc = "read"
    /\ todo = <<>>
    /\ pc' = "reply"
    /\ todo' \in ReplyFields
    /\ served' = TRUE
    /\ UNCHANGED <<call, parcels, inbound, room, lost, wrong, clean, ok>>

(* UsbdBulkCallBack returns UEC_OK whatever its virtual functions return. *)
StubExecuteFails ==
    /\ pc = "read"
    /\ todo = <<>>
    /\ call \notin DOMAIN UsbdBulkCallBack
    /\ ReturnFailure
    /\ UNCHANGED <<call, parcels, inbound, room, lost, wrong, served>>

StubWrite ==
    /\ pc = "reply"
    /\ todo # <<>>
    /\ LET f == Head(todo) IN
       IF f.kind = "count"
       THEN \E n \in 0 .. room :
               /\ reply' = reply \o <<Cell("count", f.name, n)>>
               /\ todo' = After(f, n, StubBody, Tail(todo))
               /\ room' = room - n
       ELSE /\ \E cells \in Written(f) : reply' = reply \o cells
            /\ todo' = Tail(todo)
            /\ UNCHANGED room
    /\ UNCHANGED <<pc, call, request, inbound, history, ok>>

(* Mutant of StubWriteFails: no handler looks at the result of a write. *)
StubWriteFailsUnseen ==
    /\ pc = "reply"
    /\ todo # <<>>
    /\ clean' = FALSE
    /\ todo' = Tail(todo)
    /\ UNCHANGED <<pc, ok, reply, call, request, inbound, room, lost, wrong, served>>

(* DoControlTransfer only logs that SetBufferMessage failed, at the length *)
(* or at the bytes.                                                        *)
StubWriteFails ==
    /\ pc = "reply"
    /\ todo # <<>>
    /\ IF call = "ControlTransfer"
       THEN /\ reply' \in {<<>>, <<Cell("length", "bufferData", 1)>>}
            /\ todo' = <<>>
            /\ clean' = FALSE
            /\ UNCHANGED <<pc, ok>>
       ELSE ReturnFailure /\ UNCHANGED reply
    /\ UNCHANGED <<call, request, inbound, room, lost, wrong, served>>

(* The proxy, too, reads a buffer only for a transfer to the host. *)
StubReturns ==
    /\ pc = "reply"
    /\ todo = <<>>
    /\ pc' = "answer"
    /\ todo' = IF call = "ControlTransfer" /\ ~inbound THEN <<>> ELSE Proxy[call].reply
    /\ UNCHANGED <<call, parcels, inbound, room, history, ok>>

(* GetDeviceListMessageParcel ignores a device that it cannot read to the  *)
(* end, and ParseUsbPort takes what it cannot read after the id for zero:  *)
(* the call goes on, with nothing left to read.                            *)
ReplyUnchecked(f) ==
    \/ call = "GetDevices" /\ f.name # "device"
    \/ call = "GetPorts" /\ f.name \notin {"port", "id"}

ProxyRead ==
    /\ pc = "answer"
    /\ todo # <<>>
    /\ LET f == Head(todo) IN
       \E got \in Read(reply, f) :
          IF got.ok \/ ReplyUnchecked(f)
          THEN /\ reply' = got.rest
               /\ todo' = IF got.ok THEN After(f, Head(reply).n, ProxyBody, Tail(todo)) ELSE Tail(todo)
               /\ wrong' = IF got.right THEN wrong ELSE wrong \cup {"reply"}
               /\ UNCHANGED <<pc, ok>>
          ELSE Return(FALSE) /\ UNCHANGED <<reply, wrong>>
    /\ UNCHANGED <<call, request, inbound, room, lost, served, clean>>

ProxyReturns ==
    /\ pc = "answer"
    /\ todo = <<>>
    /\ Return(TRUE)
    /\ UNCHANGED <<call, parcels, inbound, room, history>>

Next ==
    \/ \E c \in Calls : Begin(c)
    \/ BeginFails \/ ProxyWrite \/ ProxyWriteFails \/ SendRequest \/ SendRequestFails
    \/ StubRead \/ StubExecute \/ StubExecuteFails \/ StubWrite \/ StubWriteFails \/ StubReturns
    \/ ProxyRead \/ ProxyReturns

Spec == Init /\ [][Next]_vars

-----------------------------------------------------------------------------

(* The service is never called with the value of another argument, or with *)
(* none, although almost no proxy call checks SetDeviceMessage: the stub   *)
(* then runs out of words, unless a buffer or a callback object follows    *)
(* them in the parcel and is taken for the missing ones.                   *)
ServedAsAsked ==
    served /\ "request" \in wrong =>
        /\ lost
        /\ \/ call = "RegBulkCallback"
           \/ \E i \in DOMAIN Proxy[call].request : Proxy[call].request[i].kind = "buffer"

(* A call returns UEC_OK only if the service has done it and each value in *)
(* the answer, down to the endpoints of the devices, was read as the value *)
(* the stub wrote, with nothing left over.  The proxy alone does not see   *)
(* to that: GetDevices and GetPorts ignore that a reply is too short, and  *)
(* rely on the stub to refuse the call when it cannot write all of it.     *)
OkMeansAnswered ==
    pc = "returned" /\ ok => served /\ "reply" \notin wrong /\ (reply = <<>> \/ lost)

(* If no write and no transport fails, and the service does not refuse,    *)
(* a call returns UEC_OK: whatever the sizes of buffers and lists, the     *)
(* stub knows the code and neither side reads more than the other wrote.   *)
(* Only GetActiveConfig has a handler that no switch leads to.             *)
CleanCallsSucceed ==
    pc = "returned" /\ clean /\ call # "GetActiveConfig" => ok
=============================================================================
