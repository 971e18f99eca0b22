----------------------------- MODULE UsbRights -----------------------------
(***************************************************************************)
(* UsbRightManager and the entry points of UsbService that use it:         *)
(* RequestRight, RemoveRight, OpenDevice and Close, executed by the IPC    *)
(* threads of the service.  No lock protects rightMap and dialogId_ (the   *)
(* member UsbService::mutex_ is never taken), so every thread may run      *)
(* between any two steps of another.  The dialog is shown by the UI        *)
(* service (external); its callback runs on yet another thread and wakes   *)
(* the requester through a semaphore on the requester's stack, before or   *)
(* after ShowDialog has written dialogId_.                                 *)
(*                                                                         *)
(* Data: a list of bundle names is a set (nothing in the code depends on   *)
(* order or multiplicity; a device name without an entry is the empty set, *)
(* the code never keeps an empty list), and dialogId_ is -1 or 0 because   *)
(* the code only asks whether it is >= 0.                                  *)
(***************************************************************************)
EXTENDS Integers

CONSTANTS
    Threads,              \* IPC threads of the service
    Bundles,              \* names GetBundleNameForUid yields ("" is one: its failure is ignored)
    Devices,              \* device names
    DialogMayFail         \* may ShowDialog show nothing? (its result is ignored)

ASSUME RightsConstants == DialogMayFail \in BOOLEAN

VARIABLES
    rightMap,    \* rightMap[d]: bundles with a right on d
    dialogId,    \* dialogId_
    overtaken,   \* history: was dialogId_ last written after the answer to that dialog?
    dialogs,     \* threads whose dialog is on the screen
    pc,          \* where each thread is
    bundle, dev, \* arguments of the call each thread executes
    agree,       \* threads whose isAgree (of GetUserAgreementByDiag) is true
    posted,      \* threads whose callbackSem was posted
    found,       \* itMap of AddDeviceRight
    met,         \* history: threads whose AddDeviceRight another one's write has met
    ret,         \* what the last call of each thread returned
    agreed,      \* history: agreed[d] the user ever allowed on d
    openedFor    \* history: bundles whose OpenDevice reached usbd, until Close

manager == <<rightMap, dialogId, overtaken>>
request == <<bundle, dev>>
dialog == <<dialogs, agree, posted>>
search == <<found, met>>
history == <<agreed, openedFor>>
vars == <<manager, dialog, pc, request, search, ret, history>>

OK == "UEC_OK"
DENIED == "UEC_SERVICE_PERMISSION_DENIED"
INVALID == "UEC_SERVICE_INVALID_VALUE"
INNER == "UEC_SERVICE_INNER_ERR"
USBD_ERR == "usbd error"
DEAD == "service died"
Running == "no result yet"

EVENT_ALLOW == "EVENT_ALLOW"
EVENT_NOT_ALLOW == "EVENT_NOT_ALLOW"
Events == {EVENT_ALLOW, EVENT_NOT_ALLOW, "another event"}

PCs == {"idle", "gate", "show", "reply", "wait", "stranded", "add", "store", "recheck", "open"}
Rets == {OK, DENIED, INVALID, INNER, USBD_ERR, DEAD, Running}

TypeOK ==
    /\ rightMap \in [Devices -> SUBSET Bundles]
    /\ dialogId \in {-1, 0}
    /\ overtaken \in BOOLEAN
    /\ dialogs \in SUBSET Threads
    /\ pc \in [Threads -> PCs]
    /\ bundle \in [Threads -> Bundles]
    /\ dev \in [Threads -> Devices]
    /\ agree \in SUBSET Threads
    /\ posted \in SUBSET Threads
    /\ found \in [Threads -> {"absent", "present", "dangling"}]
    /\ met \in SUBSET Threads
    /\ ret \in [Threads -> Rets]
    /\ agreed \in [Devices -> SUBSET Bundles]
    /\ openedFor \in [Devices -> SUBSET Bundles]

Init ==
    /\ rightMap = [d \in Devices |-> {}]
    /\ dialogId = -1
    /\ overtaken = FALSE
    /\ dialogs = {}
    /\ pc = [t \in Threads |-> "idle"]
    /\ bundle \in [Threads -> Bundles]
    /\ dev \in [Threads -> Devices]
    /\ agree = {}
    /\ posted = {}
    /\ found = [t \in Threads |-> "absent"]
    /\ met = {}
    /\ ret = [t \in Threads |-> Running]
    /\ agreed = [d \in Devices |-> {}]
    /\ openedFor = [d \in Devices |-> {}]

-----------------------------------------------------------------------------

Go(t, label) == pc' = [pc EXCEPT ![t] = label] /\ ret' = [ret EXCEPT ![t] = Running]
Return(t, code) == pc' = [pc EXCEPT ![t] = "idle"] /\ ret' = [ret EXCEPT ![t] = code]

HasRight(d, b) == b \in rightMap[d]

(* While t searches the map for d, another thread may be inserting into    *)
(* it, adding to the list of d, or erasing the entry of another device.    *)
Disturbed(t, d) ==
    \/ \E u \in Threads \ {t} : pc[u] = "store" /\ (found[u] # "present" \/ dev[u] = d)
    \/ \E e \in Devices \ {d} : rightMap[e] # {}

(* What t may see where "what" is: a search that is disturbed may miss it. *)
Seen(t, d, what, nothing) == {what} \cup (IF Disturbed(t, d) THEN {nothing} ELSE {})

Take(t, d, b) == bundle' = [bundle EXCEPT ![t] = b] /\ dev' = [dev EXCEPT ![t] = d]

(* Mutant of RequestRight: isAgree survives from the previous call, as a   *)
(* member would.                                                           *)
RequestRightKeepsAnswer(t, d, b) ==
    /\ pc[t] = "idle"
    /\ Take(t, d, b)
    /\ \E has \in Seen(t, d, HasRight(d, b), FALSE) : IF has THEN Return(t, OK) ELSE Go(t, "gate")
    /\ UNCHANGED <<manager, dialog, search, history>>

(* RequestRight up to its first HasRight.  isAgree is a local of the call  *)
(* and starts afresh.                                                      *)
RequestRight(t, d, b) ==
    /\ pc[t] = "idle"
    /\ Take(t, d, b)
    /\ \E has \in Seen(t, d, HasRight(d, b), FALSE) : IF has THEN Return(t, OK) ELSE Go(t, "gate")
    /\ agree' = agree \ {t}
    /\ UNCHANGED <<manager, dialogs, posted, search, history>>

(* GetBundleName fails: no system ability manager or bundle manager. *)
RequestRightNoBundle(t) ==
    /\ pc[t] = "idle"
    /\ Return(t, INNER)
    /\ UNCHANGED <<manager, request, dialog, search, history>>

(* Mutant of DialogGate: a dialog that is showing counts as agreement. *)
DialogGateAgrees(t) ==
    /\ pc[t] = "gate"
    /\ IF dialogId >= 0 THEN Go(t, "add") ELSE Go(t, "show")
    /\ UNCHANGED <<manager, request, dialog, search, history>>

(* GetUserAgreementByDiag refuses while it believes a dialog is showing. *)
DialogGate(t) ==
    /\ pc[t] = "gate"
    /\ IF dialogId >= 0 THEN Return(t, DENIED) ELSE Go(t, "show")
    /\ UNCHANGED <<manager, request, dialog, search, history>>

ShowDialog(t) ==
    /\ pc[t] = "show"
    /\ dialogs' = dialogs \cup {t}
    /\ Go(t, "reply")
    /\ UNCHANGED <<manager, request, agree, posted, search, history>>

(* Nobody looks at ShowDialog's result: the thread waits in sem_wait for   *)
(* an answer to a dialog that does not exist.                              *)
ShowDialogFails(t) ==
    /\ DialogMayFail
    /\ pc[t] = "show"
    /\ Go(t, "stranded")
    /\ UNCHANGED <<manager, request, dialog, search, history>>

(* Mutant of ShowDialogReturns: dialogs are counted instead of named. *)
ShowDialogCounts(t) ==
    /\ pc[t] = "reply"
    /\ dialogId' = dialogId + 1
    /\ overtaken' = (t \notin dialogs)
    /\ Go(t, "wait")
    /\ UNCHANGED <<rightMap, request, dialog, search, history>>

(* ShowDialog returns the identifier through its out parameter &dialogId_. *)
ShowDialogReturns(t) ==
    /\ pc[t] = "reply"
    /\ dialogId' = 0
    /\ overtaken' = (t \notin dialogs)
    /\ Go(t, "wait")
    /\ UNCHANGED <<rightMap, request, dialog, search, history>>

(* isAgree after an event: one that is neither answer leaves it alone. *)
Answer(t, event) ==
    CASE event = EVENT_ALLOW -> agree \cup {t}
      [] event = EVENT_NOT_ALLOW -> agree \ {t}
      [] OTHER -> agree

(* Mutant of DialogCallback: dialogId_ is not reset. *)
DialogCallbackNoReset(t, event) ==
    /\ t \in dialogs
    /\ agree' = Answer(t, event)
    /\ dialogs' = dialogs \ {t}
    /\ posted' = posted \cup {t}
    /\ agreed' = [agreed EXCEPT ![dev[t]] = IF event = EVENT_ALLOW THEN @ \cup {bundle[t]} ELSE @]
    /\ UNCHANGED <<manager, pc, request, search, ret, openedFor>>

(* Mutant of DialogCallback: the semaphore is posted for EVENT_ALLOW only. *)
DialogCallbackNoPost(t, event) ==
    /\ t \in dialogs
    /\ agree' = Answer(t, event)
    /\ dialogs' = dialogs \ {t}
    /\ dialogId' = -1
    /\ overtaken' = FALSE
    /\ posted' = IF event = EVENT_ALLOW THEN posted \cup {t} ELSE posted
    /\ agreed' = [agreed EXCEPT ![dev[t]] = IF event = EVENT_ALLOW THEN @ \cup {bundle[t]} ELSE @]
    /\ UNCHANGED <<rightMap, pc, request, search, ret, openedFor>>

(* The lambda given to ShowDialog, on a thread of the UI client. *)
DialogCallback(t, event) ==
    /\ t \in dialogs
    /\ agree' = Answer(t, event)
    /\ dialogs' = dialogs \ {t}
    /\ dialogId' = -1
    /\ overtaken' = FALSE
    /\ posted' = posted \cup {t}
    /\ agreed' = [agreed EXCEPT ![dev[t]] = IF event = EVENT_ALLOW THEN @ \cup {bundle[t]} ELSE @]
    /\ UNCHANGED <<rightMap, pc, request, search, ret, openedFor>>

(* sem_wait returns, sem_destroy ends the semaphore's life. *)
Wake(t) ==
    /\ pc[t] = "wait"
    /\ t \in posted
    /\ posted' = posted \ {t}
    /\ IF t \in agree THEN Go(t, "add") ELSE Return(t, DENIED)
    /\ UNCHANGED <<manager, request, dialogs, agree, search, history>>

Entry(d) == IF rightMap[d] = {} THEN "absent" ELSE "present"

(* AddDeviceRight up to the end of its search. *)
AddDeviceRightFind(t) ==
    /\ pc[t] = "add"
    /\ \E has \in Seen(t, dev[t], HasRight(dev[t], bundle[t]), FALSE) :
          IF has
          THEN Return(t, INVALID) /\ UNCHANGED search
          ELSE /\ Go(t, "store")
               /\ \E entry \in Seen(t, dev[t], Entry(dev[t]), "absent") :
                     found' = [found EXCEPT ![t] = entry]
               /\ met' = IF Disturbed(t, dev[t]) THEN met \cup {t} ELSE met
    /\ UNCHANGED <<manager, request, dialog, history>>

(* Searches of other threads for the same device are out of date. *)
Meets(d, where) == {t \in Threads : pc[t] \in where /\ dev[t] = d}

(* Mutant of Stored: the entry of the device is replaced. *)
StoredOverwrites(t) == {bundle[t]}

(* Mutant of Stored: nothing is pushed to a list that was found. *)
StoredInsertsOnly(t) == IF rightMap[dev[t]] = {} THEN {bundle[t]} ELSE rightMap[dev[t]]

(* The entry after push_back through itMap and the insert that follows:    *)
(* insert does nothing when the key exists, and a push_back through an     *)
(* iterator whose entry was erased is lost.                                *)
Stored(t) ==
    LET old == rightMap[dev[t]] IN
    IF found[t] = "present" \/ old = {} THEN old \cup {bundle[t]} ELSE old

AddDeviceRightStore(t) ==
    /\ pc[t] = "store"
    /\ rightMap' = [rightMap EXCEPT ![dev[t]] = Stored(t)]
    /\ found' = [found EXCEPT ![t] = "absent"]
    /\ met' = met \cup (Meets(dev[t], {"store"}) \ {t})
    /\ Go(t, "recheck")
    /\ UNCHANGED <<dialogId, overtaken, request, dialog, history>>

(* Two threads push_back to the same vector or insert into the map at once *)
(* (data races): both write the same place, and what u writes is lost.     *)
Racing(t, u) ==
    /\ t # u
    /\ pc[t] = "store" /\ pc[u] = "store"
    /\ found[t] = found[u]
    /\ found[t] = "absent" \/ (found[t] = "present" /\ dev[t] = dev[u])

AddDeviceRightRace(t, u) ==
    /\ Racing(t, u)
    /\ rightMap' = [rightMap EXCEPT ![dev[t]] = Stored(t)]
    /\ found' = [found EXCEPT ![t] = "absent", ![u] = "absent"]
    /\ met' = met \cup (Meets(dev[t], {"store"}) \ {t}) \cup {u}
    /\ pc' = [pc EXCEPT ![t] = "recheck", ![u] = "recheck"]
    /\ UNCHANGED <<dialogId, overtaken, request, dialog, ret, history>>

(* RequestRight after AddDeviceRight: HasRight once more. *)
Recheck(t) ==
    /\ pc[t] = "recheck"
    /\ \E has \in Seen(t, dev[t], HasRight(dev[t], bundle[t]), FALSE) : Return(t, IF has THEN OK ELSE INVALID)
    /\ met' = met \ {t}
    /\ UNCHANGED <<manager, request, dialog, found, history>>

Erased(d) == rightMap' = [rightMap EXCEPT ![d] = {}]

(* The iterators that threads hold to an entry that is erased dangle. *)
Dangling(d) == [t \in Threads |-> IF dev[t] = d /\ found[t] = "present" THEN "dangling" ELSE found[t]]

(* RemoveDeviceRight erases the entry of the device, whoever calls. *)
RemoveRight(d) ==
    /\ Erased(d)
    /\ found' = Dangling(d)
    /\ met' = met \cup Meets(d, {"store", "recheck"})
    /\ UNCHANGED <<dialogId, overtaken, request, dialog, pc, ret, history>>

(* It meets an insert of t (a data race), and what t inserts is lost. *)
RemoveRightRace(t, d) ==
    /\ pc[t] = "store" /\ found[t] = "absent"
    /\ rightMap[d] # {}
    /\ Erased(d)
    /\ found' = Dangling(d)
    /\ met' = met \cup Meets(d, {"store", "recheck"}) \cup {t}
    /\ Go(t, "recheck")
    /\ UNCHANGED <<dialogId, overtaken, request, dialog, history>>

(* The undefined behaviour of a write through a dangling iterator, and of  *)
(* every access to rightMap while another thread writes to it, may also    *)
(* end the process.  Whoever is about to write may be met by the search of *)
(* any other call, and so may RemoveRight, which comes at any time, when   *)
(* there is an entry to erase.  Everything in memory is gone, and so are   *)
(* the callbacks of the dialogs.  usbd keeps the devices open.             *)
ServiceDies ==
    /\ (\E t \in Threads : pc[t] = "store") \/ (\E d \in Devices : rightMap[d] # {})
    /\ rightMap' = [d \in Devices |-> {}]
    /\ dialogId' = -1
    /\ overtaken' = FALSE
    /\ dialogs' = {}
    /\ pc' = [t \in Threads |-> "idle"]
    /\ ret' = [t \in Threads |-> DEAD]
    /\ agree' = {}
    /\ posted' = {}
    /\ found' = [t \in Threads |-> "absent"]
    /\ met' = {}
    /\ UNCHANGED <<request, history>>

(* OpenDevice: the right is checked before, not while, usbd is called. *)
OpenDevice(t, d, b) ==
    /\ pc[t] = "idle"
    /\ Take(t, d, b)
    /\ \E has \in Seen(t, d, HasRight(d, b), FALSE) : IF has THEN Go(t, "open") ELSE Return(t, DENIED)
    /\ UNCHANGED <<manager, dialog, search, history>>

OpenDeviceUsbd(t) ==
    /\ pc[t] = "open"
    /\ \/ /\ openedFor' = [openedFor EXCEPT ![dev[t]] = @ \cup {bundle[t]}]
          /\ Return(t, OK)
       \/ /\ UNCHANGED openedFor
          /\ Return(t, USBD_ERR)
    /\ UNCHANGED <<manager, request, dialog, search, agreed>>

(* Close releases the device in usbd, for every bundle that opened it. *)
Close(d) ==
    /\ openedFor' = [openedFor EXCEPT ![d] = {}]
    /\ UNCHANGED <<manager, request, dialog, pc, search, ret, agreed>>

-----------------------------------------------------------------------------

(* What a thread does on its own once its call has begun. *)
ThreadStep(t) ==
    \/ DialogGate(t) \/ ShowDialog(t) \/ ShowDialogReturns(t) \/ Wake(t)
    \/ AddDeviceRightFind(t) \/ AddDeviceRightStore(t) \/ Recheck(t)
    \/ OpenDeviceUsbd(t)

Next ==
    \/ \E t \in Threads, d \in Devices, b \in Bundles : RequestRight(t, d, b) \/ OpenDevice(t, d, b)
    \/ \E t \in Threads : RequestRightNoBundle(t) \/ ThreadStep(t) \/ ShowDialogFails(t)
    \/ \E t \in Threads, event \in Events : DialogCallback(t, event)
    \/ \E t, u \in Threads : AddDeviceRightRace(t, u)
    \/ \E d \in Devices : RemoveRight(d) \/ Close(d)
    \/ \E t \in Threads, d \in Devices : RemoveRightRace(t, d)
    \/ ServiceDies

Spec == Init /\ [][Next]_vars

(* The kernel schedules every thread, and the user answers every dialog.   *)
(* Clients need not call, and nothing need go wrong.                       *)
Fairness ==
    \A t \in Threads : WF_vars(ThreadStep(t)) /\ WF_vars(\E event \in Events : DialogCallback(t, event))

FairSpec == Spec /\ Fairness
-----------------------------------------------------------------------------

(* A device was opened for a bundle, or a bundle has a right on it, only   *)
(* if the user at some time allowed exactly that bundle on that device:    *)
(* whatever requests, dialogs, removals and opens of other threads do      *)
(* between RequestRight's check and AddDeviceRight, and between            *)
(* OpenDevice's check and usbd.                                            *)
AccessNeedsAgreement ==
    \A d \in Devices : rightMap[d] \subseteq agreed[d] /\ openedFor[d] \subseteq agreed[d]

(* dialogId_ says that a dialog is showing only while some request still   *)
(* waits for its answer, so that requests are not refused for ever,        *)
(* whichever of several requests wrote and reset it, unless the one to     *)
(* write it last was overtaken by the answer to its own dialog.            *)
DialogIdIsCurrent == dialogId >= 0 /\ ~overtaken => \E t \in dialogs : pc[t] = "wait"

(* A right appears in rightMap only by a request whose own dialog the user *)
(* answered with EVENT_ALLOW, so a right removed by RemoveRight does not   *)
(* come back by a request that was refused or answered for another bundle. *)
NewRightsAgreed ==
    \A d \in Devices : \A b \in rightMap'[d] \ rightMap[d] :
        \E t \in Threads : t \in agree /\ pc[t] = "store" /\ dev[t] = d /\ bundle[t] = b
RightNeedsOwnAgreement == [][NewRightsAgreed]_vars

(* When the user has allowed a request, its bundle has the right at the    *)
(* end, unless another thread's AddDeviceRight or RemoveRight met it       *)
(* between its search and its last HasRight: the search, the push_back and *)
(* the insert that may do nothing lose no right on their own.              *)
AllowedAreGranted ==
    \A t \in Threads :
        pc[t] \in {"add", "recheck"} /\ pc'[t] = "idle" /\ ret'[t] # DEAD /\ t \notin met
        => bundle[t] \in rightMap[dev[t]]
AllowedIsGranted == [][AllowedAreGranted]_vars

(* Every RequestRight and OpenDevice that has begun returns to its caller, *)
(* but for those GetUserAgreementByDiag strands on a dialog that failed:   *)
(* in particular no call is held up by the dialogs of other threads.       *)
CallsReturn == \A t \in Threads : pc[t] # "idle" ~> pc[t] \in {"idle", "stranded"}

(* The service implements what right management promises: rights appear    *)
(* one at a time after an agreement and vanish only for a whole device.    *)
Promise == INSTANCE RightsPromise WITH rights <- rightMap
KeepsPromise == Promise!PromiseSpec

(* Claimed by the refusal in GetUserAgreementByDiag ("dialog is already    *)
(* showing"): no second dialog is shown while one is on the screen.        *)
OneDialogAtATime == \A t, u \in dialogs : t = u
=============================================================================
