---------------------------- MODULE UsbFunctions ----------------------------
(***************************************************************************)
(* Device mode: the gadget functions this device offers to a host.         *)
(* Applications turn names into a mask and set it, on IPC threads: the     *)
(* service stores it in UsbDeviceManager::currentFunctions_ and then gives *)
(* it to usbd.  usbd (external) reports when the cable to a host comes and *)
(* goes: UsbDeviceManager::HandleEvent, one event at a time, asks usbd for *)
(* the functions when it comes, and broadcasts USB_STATE.  Nothing is      *)
(* locked.                                                                 *)
(*                                                                         *)
(* Data: a mask is the set of its bits.  Bits above the settable ones make *)
(* a mask greater than FUNCTION_SETTABLE.  ConvertFromString returns an    *)
(* error code in place of a mask; its value is defined outside of the      *)
(* repository, and "error" stands for its bits above those of functions.   *)
(* A string is a sequence of tokens: function names, other words, "comma". *)
(***************************************************************************)
EXTENDS Naturals, Sequences

Bits == {"acm", "ecm", "hdc", "mtp", "ptp", "error"}

CONSTANTS
    UEC_SERVICE_INVALID_VALUE,    \* the bits of the error code
    Callers,      \* IPC threads that set functions
    Tokens,       \* what strings are made of
    MaxTokens,    \* bound: the length of a string an application passes
    MaxEvents     \* bound: how often the cable comes or goes

ASSUME FunctionsConstants ==
    /\ MaxTokens \in Nat
    /\ MaxEvents \in Nat
    /\ "error" \in UEC_SERVICE_INVALID_VALUE
    /\ UEC_SERVICE_INVALID_VALUE \subseteq Bits

FUNCTION_MAPPING_N2C ==
    [none |-> {}, acm |-> {"acm"}, ecm |-> {"ecm"}, hdc |-> {"hdc"}, mtp |-> {"mtp"}, ptp |-> {"ptp"}]

FUNCTION_SETTABLE == {"hdc", "acm", "ecm"}

Texts == UNION {[1 .. n -> Tokens] : n \in 0 .. MaxTokens}

-----------------------------------------------------------------------------
(* Conversions *)

(* The loop over commas: a field begins at each start and ends before the  *)
(* next comma or with the string; nothing follows a comma at the end.      *)
FieldStarts(text) == {p \in 1 .. Len(text) : p = 1 \/ text[p - 1] = "comma"}

FieldAt(text, start) ==
    LET end == CHOOSE e \in start .. Len(text) + 1 :
                  /\ e = Len(text) + 1 \/ text[e] = "comma"
                  /\ \A i \in start .. e - 1 : text[i] # "comma"
    IN  SubSeq(text, start, end - 1)

(* Mutant of ConvertFromString: fields that name no function are skipped. *)
ConvertFromStringSkips(text) ==
    LET fields == {FieldAt(text, p) : p \in FieldStarts(text)}
        names == {n \in DOMAIN FUNCTION_MAPPING_N2C : <<n>> \in fields}
    IN  IF text = <<>> THEN UEC_SERVICE_INVALID_VALUE
        ELSE UNION {FUNCTION_MAPPING_N2C[n] : n \in names}

ConvertFromString(text) ==
    LET fields == {FieldAt(text, p) : p \in FieldStarts(text)}
        names == {n \in DOMAIN FUNCTION_MAPPING_N2C : <<n>> \in fields}
    IN  IF text = <<"none">> THEN {}
        ELSE IF text = <<>> \/ \E f \in fields : \A n \in names : f # <<n>>
        THEN UEC_SERVICE_INVALID_VALUE
        ELSE UNION {FUNCTION_MAPPING_N2C[n] : n \in names}

(* The names of the functions in the mask, in this order. *)
ConvertToString(mask) ==
    LET With(stream, f) == IF f \notin mask THEN stream
                           ELSE IF stream = <<>> THEN <<f>>
                           ELSE stream \o <<"comma", f>>
    IN  IF mask = {} \/ ~(mask \subseteq FUNCTION_SETTABLE)
        THEN <<"none">>
        ELSE With(With(With(<<>>, "hdc"), "acm"), "ecm")

-----------------------------------------------------------------------------

VARIABLES
    cable,             \* is a host connected?
    events,            \* how often that changed
    queue,             \* events usbd has sent and the subscriber has not handled
    gadget,            \* the functions usbd has set
    currentFunctions,  \* UsbDeviceManager::currentFunctions_
    connected,         \* UsbDeviceManager::connected_
    handler,           \* where HandleEvent is
    answer,            \* usbd's answer to HandleEvent
    asked,             \* asked[c]: the mask c has stored and not yet given to usbd
    told,              \* the last USB_STATE that was published
    unsent,            \* history: could a later USB_STATE not be published?
    alone,             \* history: has the call or query under way met no other?
    current            \* history: was the last one to touch the mask alone, and accepted?

usbd == <<cable, events, queue>>
manager == <<currentFunctions, connected>>
history == <<alone, current>>
broadcast == <<told, unsent>>
vars == <<usbd, gadget, manager, handler, answer, asked, broadcast, history>>

NoMask == {"none"}    \* of a thread that has no call under way
Masks == {ConvertFromString(t) : t \in Texts}

TypeOK ==
    /\ cable \in BOOLEAN
    /\ events \in 0 .. MaxEvents
    /\ queue \in Seq({"ACT_UPDEVICE", "ACT_DOWNDEVICE"})
    /\ gadget \in SUBSET FUNCTION_SETTABLE
    /\ currentFunctions \in SUBSET Bits
    /\ connected \in BOOLEAN
    /\ handler \in {"idle", "query", "store", "publish"}
    /\ answer \in SUBSET FUNCTION_SETTABLE
    /\ asked \in [Callers -> Masks \cup {NoMask}]
    /\ told \in [connected : BOOLEAN, params : SUBSET ({<<b>> : b \in FUNCTION_SETTABLE \cup {"none"}})]
    /\ unsent \in BOOLEAN
    /\ alone \in BOOLEAN
    /\ current \in BOOLEAN

Init ==
    /\ cable = FALSE
    /\ events = 0
    /\ queue = <<>>
    /\ gadget \in {{}, {"hdc"}}
    /\ currentFunctions = {}
    /\ connected = FALSE
    /\ handler = "idle"
    /\ answer = {}
    /\ asked = [c \in Callers |-> NoMask]
    /\ told = [connected |-> FALSE, params |-> {}]
    /\ unsent = FALSE
    /\ alone = FALSE
    /\ current = FALSE

Setting == {c \in Callers : asked[c] # NoMask}

-----------------------------------------------------------------------------

CableComes ==
    /\ ~cable
    /\ events < MaxEvents
    /\ cable' = TRUE
    /\ events' = events + 1
    /\ queue' = Append(queue, "ACT_UPDEVICE")
    /\ UNCHANGED <<gadget, manager, handler, answer, asked, broadcast, history>>

CableGoes ==
    /\ cable
    /\ events < MaxEvents
    /\ cable' = FALSE
    /\ events' = events + 1
    /\ queue' = Append(queue, "ACT_DOWNDEVICE")
    /\ UNCHANGED <<gadget, manager, handler, answer, asked, broadcast, history>>

(* Mutant of SetCurrentFunctions: the manager is not told. *)
SetCurrentFunctionsOnlyUsbd(c) ==
    /\ asked[c] = NoMask
    /\ \E mask \in Masks : asked' = [asked EXCEPT ![c] = mask]
    /\ alone' = (Setting = {} /\ handler \notin {"query", "store"})
    /\ current' = FALSE
    /\ UNCHANGED <<usbd, gadget, manager, handler, answer, broadcast>>

(* An application sets what ConvertFromString has made of its string, an   *)
(* error included.  UpdateFunctions comes first ...                        *)
SetCurrentFunctions(c) ==
    /\ asked[c] = NoMask
    /\ \E mask \in Masks :
          /\ asked' = [asked EXCEPT ![c] = mask]
          /\ currentFunctions' = mask
    /\ alone' = (Setting = {} /\ handler \notin {"query", "store"})
    /\ current' = FALSE
    /\ UNCHANGED <<usbd, gadget, connected, handler, answer, broadcast>>

(* ... and then usbd, which takes settable functions only. *)
UsbdAccepts(c) ==
    /\ asked[c] # NoMask
    /\ asked[c] \subseteq FUNCTION_SETTABLE
    /\ gadget' = asked[c]
    /\ asked' = [asked EXCEPT ![c] = NoMask]
    /\ current' = alone
    /\ UNCHANGED <<usbd, manager, handler, answer, broadcast, alone>>

UsbdRefuses(c) ==
    /\ asked[c] # NoMask
    /\ asked' = [asked EXCEPT ![c] = NoMask]
    /\ current' = FALSE
    /\ UNCHANGED <<usbd, gadget, manager, handler, answer, broadcast, alone>>

(* HandleEvent *)
HandleUp ==
    /\ handler = "idle"
    /\ queue # <<>>
    /\ Head(queue) = "ACT_UPDEVICE"
    /\ queue' = Tail(queue)
    /\ connected' = TRUE
    /\ handler' = "query"
    /\ alone' = (Setting = {})
    /\ UNCHANGED <<cable, events, gadget, currentFunctions, answer, asked, broadcast, current>>

HandleDown ==
    /\ handler = "idle"
    /\ queue # <<>>
    /\ Head(queue) = "ACT_DOWNDEVICE"
    /\ queue' = Tail(queue)
    /\ connected' = FALSE
    /\ handler' = "publish"
    /\ UNCHANGED <<cable, events, gadget, currentFunctions, answer, asked, broadcast, history>>

UsbdAnswers ==
    /\ handler = "query"
    /\ answer' = gadget
    /\ handler' = "store"
    /\ UNCHANGED <<usbd, gadget, manager, asked, broadcast, history>>

(* HandleEvent ignores that usbd did not answer. *)
UsbdFails ==
    /\ handler = "query"
    /\ handler' = "publish"
    /\ UNCHANGED <<usbd, gadget, manager, answer, asked, broadcast, history>>

(* The answer is written to currentFunctions_. *)
StoreAnswer ==
    /\ handler = "store"
    /\ currentFunctions' = answer
    /\ handler' = "publish"
    /\ current' = (alone /\ Setting = {})
    /\ answer' = {}
    /\ UNCHANGED <<usbd, gadget, connected, asked, broadcast, alone>>

(* Mutant of Params: the parameters are those of the whole mask. *)
ParamsOfMask(mask) == {ConvertToString(mask)}

(* One parameter for each bit, named by ConvertToString. *)
Params(mask) == {ConvertToString({bit}) : bit \in mask}

(* Mutant of Publish: connected_ is only broadcast when it has become true. *)
PublishUp ==
    /\ handler = "publish"
    /\ \/ /\ told' = [connected |-> connected \/ told.connected, params |-> Params(currentFunctions)]
          /\ unsent' = FALSE
       \/ UNCHANGED told /\ unsent' = TRUE
    /\ handler' = "idle"
    /\ UNCHANGED <<usbd, gadget, manager, answer, asked, history>>

(* Nobody looks at whether PublishCommonEvent succeeded. *)
Publish ==
    /\ handler = "publish"
    /\ \/ /\ told' = [connected |-> connected, params |-> Params(currentFunctions)]
          /\ unsent' = FALSE
       \/ UNCHANGED told /\ unsent' = TRUE
    /\ handler' = "idle"
    /\ UNCHANGED <<usbd, gadget, manager, answer, asked, history>>

-----------------------------------------------------------------------------

HandlerStep == HandleUp \/ HandleDown \/ UsbdAnswers \/ UsbdFails \/ StoreAnswer \/ Publish

Next ==
    \/ CableComes \/ CableGoes
    \/ HandlerStep
    \/ \E c \in Callers : SetCurrentFunctions(c) \/ UsbdAccepts(c) \/ UsbdRefuses(c)

Spec == Init /\ [][Next]_vars

(* usbd's notification thread keeps running; nobody need call or plug. *)
FairSpec == Spec /\ WF_vars(HandlerStep)

-----------------------------------------------------------------------------

(* A list of names: every other token is a comma. *)
WellFormed(text) ==
    /\ text # <<>>
    /\ \A i \in DOMAIN text :
          IF i % 2 = 1 THEN text[i] \in DOMAIN FUNCTION_MAPPING_N2C ELSE text[i] = "comma"

NamedIn(text) == {text[i] : i \in DOMAIN text} \ {"comma", "none"}

(* A string that is set is a list of function names, and the mask has the  *)
(* functions that are named; any other string is refused.  (Reference for  *)
(* the loop of ConvertFromString.)  And the string of the functions usbd   *)
(* has set is read back as the same functions.                             *)
StringsAreLists ==
    /\ \A text \in Texts :
          ConvertFromString(text) = currentFunctions
              <=> currentFunctions = IF WellFormed(text) THEN NamedIn(text) ELSE UEC_SERVICE_INVALID_VALUE
    /\ ConvertFromString(ConvertToString(gadget)) = gadget

(* When the last call or query that touched the mask was accepted and met  *)
(* no other on its way, the service and usbd agree on the functions.       *)
AgreeUnlessRaced == current => currentFunctions = gadget

(* Then the broadcast, if it is published, has one parameter for each      *)
(* function usbd has set, under its own name, also when the cable goes and *)
(* usbd is not asked.                                                      *)
BroadcastNamesFunctions ==
    [][handler = "publish" /\ handler' = "idle" /\ current /\ ~unsent' => told'.params = {<<f>> : f \in gadget}]_vars

Quiet == handler = "idle" /\ queue = <<>>

(* When every event is handled, the last broadcast tells whether a host is *)
(* connected, in whatever order the cable, HandleEvent and usbd's answers  *)
(* went, and however many broadcasts before it were lost; and as long as   *)
(* the cable stays it comes to that.  Only a failure to publish the very   *)
(* last broadcast, which nobody looks at or repairs, leaves the            *)
(* applications with an older one.                                         *)
BroadcastFollowsCable ==
    /\ cable ~> ~cable \/ (Quiet /\ (told.connected \/ unsent))
    /\ ~cable ~> cable \/ (Quiet /\ (~told.connected \/ unsent))
=============================================================================
