# USB manager: models, checks and proofs

TLA+ models of the OpenHarmony USB manager (`usb_manager`): the system
service, the client library applications reach it through, and the daemon
*usbd* and the UI service it depends on (both external).  TLC checks the
models on small instances; TLAPS proves nearly all of the safety properties for
instances of any size.

## The system

An application calls `UsbSrvClient` (through the JavaScript binding or
directly).  The client finds the service at the system ability manager, keeps a
proxy, and every call is an IPC request that a thread of the service's pool
executes in `UsbService`.  The service keeps four managers and talks to usbd,
which drives the hardware and sends events back to a subscriber object.
**Nothing in the service is locked**: `UsbService::mutex_` is never taken, so IPC
threads, the thread that delivers usbd's events and the thread that delivers a
dialog's answer run on shared state as they come.

| component | state | operations | hard behaviour | correct when |
|---|---|---|---|---|
| right management (`usb_right_manager.cpp`, parts of `usb_service.cpp`) | `rightMap`: device name to bundle names; `dialogId_` | RequestRight, HasRight, RemoveRight, OpenDevice, the dialog's callback | check, dialog, wait, add and re-check without a lock; a callback that races `ShowDialog`; a removal between find and store | nobody gets access the user did not agree to; answers are truthful; calls return |
| host manager (`usb_host_manager.cpp`, AddDevice/DelDevice of `usb_service.cpp`) | `devices_`: name to raw pointer | attach, detach, GetDevices, broadcasts | a device is pulled while its descriptors are read; clients close it meanwhile; GetDevices reads pointers the event thread deletes | list and broadcasts follow the cable; objects are owned once |
| port manager (`usb_port_manager.cpp`) | `portMap_` | QueryPort, GetPorts, UpdatePort, SetPortRole | a query overlaps events | the cache becomes and stays current |
| life cycle (`usb_service.cpp`) | `ready_`, `handler_`, `eventRunner_`, the subscriber, two retry counters | OnStart, Init, InitUsbd, OnStop | every dependency may be missing; partial failures; restarts | ready means published and bound exactly once; starts end |
| client library (`usb_srv_client.cpp`, pipes and requests) | `proxy_` | Connect and some 30 forwarding calls | threads share the proxy; the service dies and restarts | success means executed; calls return and name their target |
| device manager (`usb_device_manager.cpp`) | `currentFunctions_`, `connected_` | SetCurrentFunctions, conversions, the USB_STATE broadcast | the cache is written before usbd accepts | broadcasts name what usbd has; conversions invert each other |
| IPC proxy and stub (`services/zidl`) | none | marshalling of every call | the two sides must agree on each parcel; error paths in the middle of one | what is read is what was written |
| descriptor parser (`usb_descriptor_parser.cpp`) | none | device, configuration, interface and endpoint descriptors | lengths and counts come from the device | progress, and no read past the buffer |
| JavaScript binding (`usb_info.cpp`) | asynchronous contexts | argument parsing, promises, conversion of devices | work on another thread, results on the main thread; native code goes on after a throw | every promise is settled once, with the call's result; what goes out comes back the same |
| bulk callbacks (`usbd_bulk_callback.cpp`) | none | OnRemoteRequest of read and write completions | parcels that cannot be read | the callback gets the status and length that usbd sent |
| dialog, event handler, serial reader | none of interest | | | |

## Modules

| module | models |
|---|---|
| `RightsPromise` | what right management promises, without threads, dialogs or lists |
| `UsbRights` | UsbRightManager and the entry points of UsbService that use it |
| `UsbRightsProofs` | theorems about `UsbRights`, among them that it implements `RightsPromise` |
| `UsbHost` | attach and detach from usbd's event to broadcast and list, clients that open and close |
| `UsbHostProofs` | theorems about `UsbHost` |
| `UsbFunctions` | device mode: masks and names of gadget functions, SetCurrentFunctions, the USB_STATE broadcast |
| `UsbFunctionsProofs` | theorems about `UsbFunctions` and its conversions |
| `UsbIpc` | every call between UsbServerProxy and UsbServerStub, and from usbd to a bulk callback: dispatch, parcels, error paths |
| `UsbIpcProofs` | theorems about `UsbIpc` |
| `UsbPort` | the port cache between usbd's events and concurrent queries |
| `UsbPortProofs` | theorems about `UsbPort` |
| `UsbLifecycle` | OnStart, Init, InitUsbd, OnStop |
| `UsbLifecycleProofs` | theorems about `UsbLifecycle` |
| `UsbClient` | UsbSrvClient's proxy, its callers, and the service's deaths and restarts |
| `UsbNapi` | extends `UsbClient`: JavaScript, the worker threads and the promises of the binding |
| `UsbNapiProofs` | theorems about `UsbClient`, and with them about `UsbNapi`, among them that it implements `UsbClient`'s specification |
| `UsbDescriptor` | the walk of UsbDescriptorParser over the bytes of a device |
| `UsbDevicePath` | extends `UsbDescriptor`: a parsed device on its way to an application, and the application's calls on their way back |
| `UsbDevicePathProofs` | theorems about `UsbDevicePath` and the walk it begins with |

`PROJECT.json` maps each definition to the lines it stands for.  Definitions
whose comment begins with "Mutant of" are plausible bugs: replacing the named
definition by one of them makes TLC report the property `PROJECT.json` pairs it
with, which shows that the property can fail.  They are no part of `Next`.

### UsbRights

One action per stretch of code between two points where another thread can
matter.  RequestRight is split into its HasRight, the check of `dialogId_`
(`DialogGate`), `ShowDialog` (the dialog appears), `ShowDialogReturns`
(`dialogId_` is written through the out parameter), `Wake` (sem_wait),
`AddDeviceRightFind`, `AddDeviceRightStore` and `Recheck`.  `DialogCallback` is
the whole lambda.  `RemoveRight` is one action; that the iterators
of other threads to the erased entry dangle is recorded in `found`.

Undefined behaviour is a choice of outcomes.  Two push_backs at once on one
vector, or two inserts into the map, lose one of the two
(`AddDeviceRightRace`); an insert that meets an erase is lost
(`RemoveRightRace`); a search while another thread writes may miss what is there
(`Seen`); a push_back through an erased entry is lost; and each of these may end
the process (`ServiceDies`).  The answer to a dialog may come before or after
`ShowDialogReturns`, because nothing in the repository orders the callback's write of
`dialogId_` and ShowDialog's.  `DialogMayFail` lets ShowDialog show nothing.
`agreed`, `openedFor`, `overtaken` (`dialogId_` was last written after the answer
to that dialog) and `met` (another write met a request between its search and its
last HasRight) are history variables.

### UsbHost

usbd sends attach and detach events in order; `HandlerStep` is the subscriber
that handles them one at a time.  Between any two steps a device may be pulled,
and a client may open or close it (usbd keeps one handle per device, so any
close closes it for all).  Objects are numbered; `heap` says which are live or
deleted.  A UsbDevice whose descriptors could not be read keeps the zeros of
`memset_s` and is named "0-0".  `upset` is a history variable: the devices that
since they were plugged in met a fault of usbd, a malformed descriptor or a
client's close; completeness is promised to the others only.  A broadcast may
fail, which the code only logs: `lost` is the history of names whose last
event failed.  ParseConfigDescriptor may succeed, fail or never end (label
"endless"), which holds the one event thread for good.  GetDevices
changes no state and is no action: it copies raw pointers that the event thread
may delete before they are read, and nothing prevents that.

### UsbFunctions

A mask is the set of its bits; a string is a sequence of tokens, so that
ConvertFromString and ConvertToString are modelled by what they do: fields
between commas, an unknown field or an empty string as an error code (which
the caller then may set, like any other number), a mask above
`FUNCTION_SETTABLE` as "none".  SetCurrentFunctions is split between
UpdateFunctions and usbd, HandleEvent before and after usbd's answer and at
the broadcast.  `alone` and `current` are history variables: did the call or
query under way overlap another, and was the last one accepted?  `Publish`
may fail, which nobody notices; the history `unsent` says that the last broadcast
did.

### UsbIpc

A parcel is a sequence of cells, each of which knows the value that was
written; a read takes the next cell, whichever that is, and `wrong` records
that it held another value than the one the reader is after.  For each call
the layouts that proxy and stub use are written down separately, from their
own code: `Proxy*` and `Parse*` from `usb_srv_proxy.cpp`, `Stub*` and `Write*`
from `usb_srv_stub.cpp`, with lists nested down to endpoints; each group of calls
is a table, and `Merge` makes one of them.  Every write,
the transport and the service may fail; what either side does then (`lost`,
`ReplyUnchecked`, the unchecked reply of DoControlTransfer) follows the code
call by call.  `ok` is the result: a call that returns a value in place of an
error code (HasRight, UsbFunctionsFromString, UsbFunctionsToString) is ok when
it returns the value it has read.  usbd's calls of a client's UsbdBulkCallBack
are two more calls, whose "proxy" is usbd (external) and whose handler always
answers UEC_OK.

### UsbDescriptor, UsbDevicePath

`UsbDescriptor` runs over real bytes: `Raw` lays a device's descriptors out, and
the walk is the code's, one action per turn of a loop or structure read, with
`base` for the bytes the running function was given and `at` for its cursor.
The errors of ParseInterfaceDescriptor and ParseEndpointDescriptor are ignored by
their callers; what matters is how far the cursor came (`InterfaceFails`,
`EndpointFails`).  A read past the end is the label "undefined".  Only numbers a
decision depends on are kept.  GetDescConfigCount returns a bool, so that one
configuration is parsed at most.

`UsbDevicePath` takes the configuration the walk made and follows two ways out,
GetDevices (stub, parcel, proxy, objects) and the JSON of the ATTACHED event,
and the ways back: the objects an application gives to connectDevice,
claimInterface, setInterface, setConfiguration and bulkTransfer, and the
UsbRequest of a native client.  `call` records the arguments the service gets
beside those of the parsed device.  Narrowing to `uint8_t` and `int8_t` is
modelled by its arithmetic.

### UsbPort, UsbLifecycle, UsbClient

`UsbPort` splits QueryPort at usbd's answer, and PortChangedEvent at its
broadcast.  GetPorts and the start of the service are two callers of the same
query; reading the map changes nothing.  `UsbLifecycle` runs with the code's own limits
(10 and 30 tries).  `UsbClient` splits a call at Connect's lock, at the lookup,
before the unlocked use of `proxy_`, and while the service executes it; the
calls of the class differ in how they begin, in what they return when
Connect fails, and in whether they end: the service may never answer
RequestRight (`NoReply`: the dialog was not shown, `ShowDialogFails` of
`UsbRights`), which only its death then ends.

### UsbNapi

The callers of `UsbClient` become the main thread and the workers of the
engine.  `CallAsync` is a whole native function that makes a context, a promise
and a work; `Execute` and `Finish` are the two halves of a `g_...Execute` around
its call of UsbSrvClient, `Complete` is a `g_...Complete`.  The transfers share
one Uint8Array, the worst case: data that goes out is copied by the native
function, data that comes in is written through the pointer it kept.  That the
application keeps the array until then is assumed.  `CallWithoutWork` is the
engine failing to make the work.  A worker whose requestRight is not answered
stays with the service, and so do the works behind it when it was the last.
setPortRoles is a requestRight that is always answered, and has no action of its own.

## Runs

Passing runs:

| run | shows |
|---|---|
| `rights` | no access without agreement (`AccessNeedsAgreement`), `dialogId_` sticks only if an answer came before ShowDialog returned (`DialogIdIsCurrent`), a request that the user allowed leaves its bundle with the right unless another write met it (`AllowedIsGranted`), and a right is only added by a request the user allowed (`RightNeedsOwnAgreement`), `UsbRights` implements `RightsPromise` (`KeepsPromise`), every call returns unless its dialog failed to show (`CallsReturn`) |
| `host` | under failing reads, bad descriptors and interfering clients: once events are handled, listed devices are plugged in and devices that upset nothing are all listed with their configurations (`QuietListIsRight`); such devices are not left open (`ServiceLetsGo`), broadcasts match the list (`EventsMatchList`) and alternate (`EventsAlternate`) but for names whose last broadcast failed, objects are owned once (`ListOwnsObjects`), and the list follows the cable unless a parse does not end (`ListFollowsPlugs`) |
| `functions` | a string that is set is a list of names, anything else is an error, and names read back as the same mask (`StringsAreLists`); service and usbd agree unless calls met or were refused (`AgreeUnlessRaced`), and then the broadcast names usbd's functions (`BroadcastNamesFunctions`); the broadcast follows the cable unless the last one failed (`BroadcastFollowsCable`) |
| `ipc` | the service gets the arguments the client gave, unless an ignored SetDeviceMessage shifted them into a buffer or callback object (`ServedAsAsked`); UEC_OK means executed and answered, each value as written (`OkMeansAnswered`); a call that nothing disturbs succeeds, but for GetActiveConfig (`CleanCallsSucceed`) |
| `port` | an updated port stays current (`UpdatedCacheIsCurrent`), a broadcast is never ahead of the cache (`BroadcastIsCached`), updated ports catch up (`CacheCatchesUp`) |
| `lifecycle` | exactly one subscriber when ready, none otherwise (`ReadyHasOneSubscriber`); starts end (`StartEnds`) |
| `napi` | through deaths and restarts of the service, UEC_OK means executed (`OkMeansServed`) and so does a resolved promise (`ResolvedIsServed`), but for setCurrentFunctions; `proxy_` is not written under use (`NoWriteUnderUse`), data sent is the data given (`SendsWhatWasGiven`), contexts live as long as their work (`ContextsAreFreed`), every promise whose work was made settles, unless the service never answers its requestRight, or one that keeps the last worker (`PromisesSettle`) |
| `device` | sound devices are parsed as they are laid out (`ParsedAsLaidOut`) without a read past the end (`ReadsStayInside`), the walk ends whatever the counts say (`WalkEnds`), and every call of an application or native client names the interface, setting, configuration and endpoint the descriptor has (`CallsNameTheirTarget`) |

Runs that find a disagreement between the code and what the repository says of
it (quoted under "findings" in `PROJECT.json`):

| run | the code does |
|---|---|
| `rights_one_dialog` | two dialogs at once, past the check "dialog is already showing" |
| `host_attached` | a nameless device without configurations is announced when it is pulled at the wrong moment |
| `client_functions` | SetCurrentFunctions answers success without a service |
| `max_power` | getDevices reports twice the maximum power, which stub and binding both double |

What the models show besides, without a document that says otherwise: of two
requests of one bundle that the user both allows, the second is answered
UEC_SERVICE_INVALID_VALUE although the bundle has the right; an answer that
the user gives before ShowDialog has returned leaves `dialogId_` set, and requests
are refused while no dialog is showing; a port event that
is handled between usbd's answer to a query and AddPort is dropped; a malformed
configuration descriptor leaves the device open in usbd; one of length 0
or of a bare header holds the event thread for ever, so that no later attach or
detach is handled; an event whose broadcast failed is never sent again, and
applications may get two of a kind in a row, or keep the state of the cable before; a
request whose ShowDialog fails never returns, its promise stays pending and its
worker is lost; GetActiveConfig has a handler that no case of
the stub's switches leads to, so that the call always fails; a failed write in
SetDeviceMessage, which only OpenDevice looks at, can make the service execute
a call with shifted arguments when a buffer or a callback object follows them; a mask
that usbd refuses stays in `currentFunctions_`, and an answer of usbd may
overwrite a newer one; a mask that has MTP or PTP in it converts to "none".
A start after a failed Publish finds `handler_` set, skips Publish and becomes
ready without being published.  A client keeps the proxy of a dead service for
ever, because no code makes its death recipient: all its calls fail, also after
a restart.

Of the parser: a device with fewer settings that have endpoints than
interfaces, whose descriptor does not end with a setting or endpoint (a single
interface without endpoints and a class-specific descriptor, say), is read past
its end; `Sound` in `UsbDescriptor` excludes it.  A descriptor of length 0, one
that is only a header, and an interface descriptor that is too short keep the
walk from ending.  Alternate settings count towards bNumInterfaces, so that
later interfaces may be missing; settings without endpoints are dropped; and
the settings of a second configuration may be taken for those of the first.

Of the binding: connectDevice with the device of an ATTACHED event throws when
a list in it is empty (null in the JSON), although the service has opened the
device; setConfiguration with such a configuration calls the service with 255
before the application sees the exception; the event says "subClass" where
getDevices says "subclass".  requestRight, setCurrentFunctions and setPortRoles
reject where the declaration lets one expect false; a reply larger than the
array rejects although the transfer was done; a promise whose work the engine
could not make stays pending, with its context.

### Bounds

Two threads suffice for every race in the code, each of which is between two
accesses; two bundles let requests differ, and a list have an entry that neither
thread adds while both add the other.
That rights on different devices do not mix is left to the proofs, which are
for any set of threads, bundles and devices.  In the same way
the proofs take the bounds of the other runs away: plugs, queues, ports, tokens,
items of a reply, lives and promises are arbitrary in them, and the layouts of
devices go up to 127 descriptors, where their places end.  Three plugs at two addresses allow a
replug at the same address with another device between.  Three queued port
events and two queries cover a query that overlaps two events and another
query.  Strings of three tokens hold two names and every misplaced comma, and the
error code is the mask with a bit above `FUNCTION_SETTABLE`; three
cable events let the cable come back.  Four items in a reply allow a device
with a configuration, an interface and an endpoint, or two devices with a
configuration each.  Two lives of the service let a proxy be a restart old; two
promises let two transfers share the array, with one worker and the main thread
for the two callers that meet at `proxy_`, and let one wait behind a requestRight
that is not answered.  Three descriptors of any kind
(`MaxItems` of `UsbDescriptor`) put every fault before and after an interface
and an endpoint; six that follow the standard (`MaxSound`) hold two interfaces
with an alternate setting and class-specific descriptors between; one
(`MaxCutItems`) is cut at every byte.  Their places serve as the device's numbers,
which are bytes; so these three bounds are at most 127.  Interface 130 is beyond an `int8_t`.
Bounds are constants (`MaxPlugs`, `MaxQueue`, `MaxLives`, `MaxPromises`,
`MaxTokens`, `MaxEvents`, `MaxItems`, `MaxSound`, `MaxCutItems`) or the sizes of
sets.

### Fairness

`UsbRights`: threads run, and users answer a dialog that shows; nobody need
call, and nothing need fail.  `UsbHost`, `UsbPort`, `UsbFunctions`: usbd's
notification thread and pending calls run; a parse that does not end is not helped by
it, because the label "endless" has no step.  `UsbLifecycle`: a start under way runs; its waits are
sleeps.  `UsbNapi`: threads run, `mutex_` is granted to a thread that keeps
asking (strong fairness of `Connect`), and the event loop comes to its
completions between JavaScript's calls (strong fairness of `Complete`, which a
call that waits disables for a while).  The service answers a call that
`NoReply` has not set aside; that one has no step but the service's death, which
nothing makes happen.  `UsbDescriptor`: the event thread runs.

## Proofs

The theorems assume only the named assumptions on the constants that the modules
state (`RightsConstants`, `HostConstants`, `PortConstants`, `LifecycleConstants`,
`FunctionsConstants`, `ClientConstants`, `NapiConstants`, `IpcConstants`,
`DescriptorConstants`), which TLC evaluates for the instances of the runs.  Sets
of threads, bundles, devices, ports, promises and bytes are arbitrary.  Each
safety property follows from an inductive invariant that TLC has checked too, on
the instance of the run (`Fits` of `UsbIpcProofs` in a recursive form).

**Right management** (`UsbRightsProofs`)

* `TypeCorrect`, `AccessIsAgreed`, `DialogIdStaysCurrent`: the inductive
  invariant is `RightsInv`.  `AccessNeedsAgreement` is not inductive: a thread on
  its way from the dialog to `AddDeviceRightStore`, or from OpenDevice's check
  to usbd, must already have its agreement.  `AgreementBehind` says so for
  every place a thread can be at; `DialogsPending` ties dialogs on the screen to
  threads that wait, so that an answer is counted for the bundle that asked;
  `DialogIdIsCurrent` is inductive with it, whichever of answer and return
  comes first.
* `AllowedAreAlwaysGranted` and `RightsAreAgreed` are action properties.  The
  first needs `SearchInv`: what a thread that no write has met knows from its search
  (entry there or not, right there or not) is still so, and its push_back
  or insert therefore takes effect.
* `Refinement`: `UsbRights` implements `RightsPromise` with `rightMap` for
  `rights`.  A callback maps to Agree, a store or a race to Grant or a stutter,
  a removal to Revoke, a death to Forget, everything else to a stutter.

**Host manager** (`UsbHostProofs`, `HostInv`)

* `QuietListsAreRight`, `EventsAlwaysMatchList`, `ListAlwaysOwnsObjects`,
  `ServiceAlwaysLetsGo`, `HostTypes`, and the action property `EventsDoAlternate`.
  "Once usbd is quiet" says nothing of the states before, so that the invariant
  has to say what a queue of any length still promises: `QueueInv` (the events of a
  device alternate, the last one says where it is, and the first is no second
  attach of a device that is listed or about to be), `HandledInv` (what the
  handler did and does is right for a device none of whose events waits) and
  `AddingInv` (the device being added is open, and its object is named for it,
  as long as nothing upsets it).  `ObjectInv` keeps the object in the making
  apart from the list, `AnnouncedInv` follows the broadcasts through the steps
  between broadcast and list, but for the names whose last one was lost, and `HandleInv` says when the service may have a
  device open.

**Port manager** (`UsbPortProofs`, `PortInv`)

* `UpdatedCacheStaysCurrent`, `BroadcastsAreCached`, `PortTypes`.  `CacheInv`: the
  last event of a port that waits has the port's status, and an updated port none
  of whose events waits is cached with it.

**Life cycle** (`UsbLifecycleProofs`, `LifecycleInv`)

* `ReadyAlwaysHasOneSubscriber`, `LifecycleTypes`, for any limits of retries.
  `StartInv` says what a start under way has bound: its own subscriber when it
  comes to the ports, and none before.

**Gadget functions** (`UsbFunctionsProofs`, `FunctionsInv`)

* `ServiceAndUsbdAgree`, `FunctionsTypes`, and the action property
  `BroadcastsNameFunctions`.  `AloneMeansAlone` ties the history variable to the
  callers and answers on their way: a call that met nothing is the only one, and
  its mask is stored.
* `StringsAlwaysLists`: strings of any length.  That the fields ConvertFromString
  finds make up the whole string is shown with a smallest counterexample among
  the places in it, in place of the induction the prover cannot do.

**IPC** (`UsbIpcProofs`, `IpcInv`)

* `ArgumentsArrive`, `OkIsAnswered`, `CleanIsOk`, for lists of any length.
  `SameLayouts` compares what was written down separately from proxy and stub,
  call by call; `StubIsKnown` goes through the requests.  `Fits` relates fields
  still to be read to the cells that hold them: there is a set of places, each
  with its fields and cells, that holds the first field and leads to a further
  place.  `FitsWrite` makes it longer at the end, `FitsHead` and `HoldsRead`
  take from its head, so that no induction over the lists is needed, however
  they are nested.  While nothing is lost, request and reply fit; once a failed
  write was ignored, `LostIsTooShort` counts: a request of words and texts, each of
  which is one cell, ends before its fields do.  `ControlReplyFits` lists the few
  replies of DoControlTransfer, which answers also when it could not write.

**Client library and binding** (`UsbNapiProofs`, `ClientInv` and `NapiInv`)

* `OkIsServed`, `UseIsSafe`: `ClientInv` adds `ProxyGuarded`: only the holder of
  `mutex_` looks the service up, it does so while `proxy_` is null, and a thread
  about to use `proxy_` finds it set; so a write never meets a use.
* `PromisesAreTruthful`, `DataIsCopied`, `ContextsLiveAsLongAsWorks`, `NapiTypes`:
  `OwnInv` follows a work from the queue over a worker to its completion: it is in
  one place at a time (`OnePlace`), what waits is its own copy
  (`WaitingCopies`), the worker makes the call it is for (`JobKinds`), and
  a status of napi_ok was earned (`ExecutedIsServed`).
* `BindingUsesClient`: every step of the binding is a step of the client library
  or a stutter of it, so that `NapiSpec` implies its `Spec`.

**Devices** (`UsbDevicePathProofs`, `PathInv` and `SoundWalk`)

* `CallsReachTheirTarget`: for descriptors of every kind, malformed and cut ones
  included, wherever the walk goes.  `WalkType` says that what it keeps are bytes
  and that an endpoint has the interface it is listed under; `DeviceIsCopied`,
  `PipeNamesDevice` and `RequestIsCopied` that each station of the way has what
  the one before had, but for the copies through signed bytes, which `RoundTrip`
  undoes.
* `SoundReadsStayInside` and `SoundIsParsedAsLaidOut`, for sound layouts of every
  length `DescriptorConstants` allows.  Sound (`Sound` of `UsbDescriptor`) is what
  both properties are about: a device that follows the standard, read whole, and
  `EnoughSettings`: it has as many settings with endpoints as interfaces, or ends
  with its last setting.  Any other device may make the walk look for a setting
  among what follows and read past the end.
  The raw bytes are a concatenation; `RawIsLaidOut` shows that it is one after
  the other the descriptors of the layout, that is, that there is an `f` such
  that descriptor k begins at `f[k]` (`LaysOut`).  This replaces the sum of the
  lengths, which would need a recursion over the layout, and the prefixes of the
  concatenation exist by a smallest counterexample.  `SoundWalk` then says for
  each label at which place of the layout the cursor is (`OnTheWay`): never between
  two descriptors, and always with the setting (`SettingAhead`) or the endpoint
  (`EndpointAhead`) it is looking for still ahead, which is why the reads that the
  code does not check stay inside.  `ListedUpTo` says that the configuration so
  far has the used settings before the place, each at its rank among them
  (`Describes`), and `Collecting` that the interface in the making has the
  endpoints of its setting so far.  `SoundWalkInvariance` takes the ten steps of
  the walk in turn; both properties follow from it.

Only model-checked is liveness, which is outside the prover with fairness and
ENABLED: `CallsReturn`, `ListFollowsPlugs`, `BroadcastFollowsCable`,
`CacheCatchesUp`, `StartEnds`, `PromisesSettle`, `WalkEnds`.

## Not modelled

Left out: the dialog's user interface, the event handler and serial
reader (empty shells), GetDisplayPosition, logging, the string forms of
devices, the enumerations and registration of the JavaScript module, type checks
of its arguments (they throw before or after the calls modelled), and the build
with `USB_RIGHT_TEST`, which no build file sets.  Which bulk callback usbd calls
and until when is usbd's: the service passes callbacks on and keeps none.  Rights
and devices are not composed: a right hangs on a name and nothing else relates
the two, DelDevice has no call of the right manager, and no document says how
long a right lasts; so a device at the same bus number and address has the rights
of the one before it.
