----------------------------- MODULE UsbClient -----------------------------
(***************************************************************************)
(* UsbSrvClient, the object through which an application reaches the USB   *)
(* service, and the service process behind it, which may die and be        *)
(* started again.  The client keeps one proxy_, found by Connect under     *)
(* mutex_ and used by every call without it.  ResetProxy, meant for the    *)
(* death of the service, is never reached: no code registers the death     *)
(* recipient.                                                              *)
(*                                                                         *)
(* Data: calls differ in how they begin and in whether they end.           *)
(* "connecting" calls run Connect and fail with UEC_INTERFACE_NO_INIT,     *)
(* SetCurrentFunctions runs Connect and returns false, which is UEC_OK,    *)
(* when it fails, the calls of a pipe only test proxy_, and RequestRight   *)
(* connects, but may wait for ever in the service for the answer to a      *)
(* dialog that was never shown.                                            *)
(***************************************************************************)
EXTENDS Naturals

CONSTANTS
    Callers,      \* threads of the application
    MaxLives      \* bound: how often the service process is started

Null == 0
Free == "free"

ASSUME ClientConstants == MaxLives \in Nat \ {0} /\ Free \notin Callers

OK == "UEC_OK"
NO_INIT == "UEC_INTERFACE_NO_INIT"
IPC_ERR == "SendRequest failed"
SERVICE_ERR == "error of the service"
Running == "no result yet"

Labels == {"idle", "connect", "lookup", "send", "in service", "unanswered"}
Kinds == {"connecting", "SetCurrentFunctions", "pipe", "RequestRight"}

VARIABLES
    life,     \* which start of the service process is, or was last, running
    alive,    \* is it running, and known to the system ability manager?
    proxy,    \* proxy_: Null, or the life of the service it points to
    mutex,    \* holder of mutex_
    pc, kind, result,
    served    \* callers whose call the service has executed

vars == <<life, alive, proxy, mutex, pc, kind, result, served>>

TypeOK ==
    /\ life \in 1 .. MaxLives
    /\ alive \in BOOLEAN
    /\ proxy \in 0 .. life
    /\ mutex \in Callers \cup {Free}
    /\ pc \in [Callers -> Labels]
    /\ kind \in [Callers -> Kinds]
    /\ result \in [Callers -> {OK, NO_INIT, IPC_ERR, SERVICE_ERR, Running}]
    /\ served \in SUBSET Callers

Init ==
    /\ life = 1
    /\ alive = TRUE
    /\ proxy = Null
    /\ mutex = Free
    /\ pc = [c \in Callers |-> "idle"]
    /\ kind \in [Callers -> Kinds]
    /\ result = [c \in Callers |-> Running]
    /\ served = {}

Go(c, label) == pc' = [pc EXCEPT ![c] = label] /\ result' = [result EXCEPT ![c] = Running]
Return(c, code) == pc' = [pc EXCEPT ![c] = "idle"] /\ result' = [result EXCEPT ![c] = code]

-----------------------------------------------------------------------------

(* OpenDevice, the other right, function and port calls, GetRawDescriptors *)
(* and GetFileDescriptor begin with Connect.                               *)
BeginConnecting(c) ==
    /\ pc[c] = "idle"
    /\ kind' = [kind EXCEPT ![c] = "connecting"]
    /\ Go(c, "connect")
    /\ served' = served \ {c}
    /\ UNCHANGED <<life, alive, proxy, mutex>>

BeginSetCurrentFunctions(c) ==
    /\ pc[c] = "idle"
    /\ kind' = [kind EXCEPT ![c] = "SetCurrentFunctions"]
    /\ Go(c, "connect")
    /\ served' = served \ {c}
    /\ UNCHANGED <<life, alive, proxy, mutex>>

BeginRequestRight(c) ==
    /\ pc[c] = "idle"
    /\ kind' = [kind EXCEPT ![c] = "RequestRight"]
    /\ Go(c, "connect")
    /\ served' = served \ {c}
    /\ UNCHANGED <<life, alive, proxy, mutex>>

(* Transfers, claims, requests and Close of a USBDevicePipe. *)
BeginPipe(c) ==
    /\ pc[c] = "idle"
    /\ kind' = [kind EXCEPT ![c] = "pipe"]
    /\ IF proxy = Null THEN Return(c, NO_INIT) ELSE Go(c, "send")
    /\ served' = served \ {c}
    /\ UNCHANGED <<life, alive, proxy, mutex>>

(* Mutant of Connect: it does not wait for mutex_. *)
ConnectUnlocked(c) ==
    /\ pc[c] = "connect"
    /\ IF proxy # Null
       THEN Go(c, "send") /\ UNCHANGED mutex
       ELSE Go(c, "lookup") /\ mutex' = c
    /\ UNCHANGED <<life, alive, proxy, kind, served>>

(* Connect gets mutex_ and looks at proxy_ ... *)
Connect(c) ==
    /\ pc[c] = "connect"
    /\ mutex = Free
    /\ IF proxy # Null
       THEN Go(c, "send") /\ UNCHANGED mutex
       ELSE Go(c, "lookup") /\ mutex' = c
    /\ UNCHANGED <<life, alive, proxy, kind, served>>

(* Mutant of NotConnected: every call returns false. *)
NotConnectedFalse(c) == OK

(* What a call returns when Connect failed. *)
NotConnected(c) == IF kind[c] = "SetCurrentFunctions" THEN OK ELSE NO_INIT

(* Mutant of ConnectLookup: a failure does not unlock. *)
ConnectLookupKeepsLock(c) ==
    /\ pc[c] = "lookup"
    /\ \/ /\ alive
          /\ proxy' = life
          /\ Go(c, "send")
          /\ mutex' = Free
       \/ /\ Return(c, NotConnected(c))
          /\ UNCHANGED <<proxy, mutex>>
    /\ UNCHANGED <<life, alive, kind, served>>

(* ... and asks the system ability manager for the service if it is null.  *)
(* The manager itself may be missing.                                      *)
ConnectLookup(c) ==
    /\ pc[c] = "lookup"
    /\ \/ /\ alive
          /\ proxy' = life
          /\ Go(c, "send")
       \/ /\ Return(c, NotConnected(c))
          /\ UNCHANGED proxy
    /\ mutex' = Free
    /\ UNCHANGED <<life, alive, kind, served>>

(* proxy_->...: SendRequest fails when the service it points to is dead.   *)
Send(c) ==
    /\ pc[c] = "send"
    /\ IF alive /\ proxy = life THEN Go(c, "in service") ELSE Return(c, IPC_ERR)
    /\ UNCHANGED <<life, alive, proxy, mutex, kind, served>>

(* The service executes the call and replies (external to the client). *)
Reply(c) ==
    /\ pc[c] = "in service"
    /\ \/ Return(c, OK)
       \/ Return(c, SERVICE_ERR)
    /\ served' = served \cup {c}
    /\ UNCHANGED <<life, alive, proxy, mutex, kind>>

(* ShowDialog has failed, so that nobody posts the semaphore on which the  *)
(* service waits for the user: RequestRight is never answered.             *)
NoReply(c) ==
    /\ pc[c] = "in service"
    /\ kind[c] = "RequestRight"
    /\ Go(c, "unanswered")
    /\ UNCHANGED <<life, alive, proxy, mutex, kind, served>>

(* The calls that are with the service. *)
InService == {c \in Callers : pc[c] \in {"in service", "unanswered"}}

(* The service process dies; the calls it was executing fail, done or not. *)
ServiceDies ==
    /\ alive
    /\ alive' = FALSE
    /\ pc' = [c \in Callers |-> IF c \in InService THEN "idle" ELSE pc[c]]
    /\ result' = [c \in Callers |-> IF c \in InService THEN IPC_ERR ELSE result[c]]
    /\ \E done \in SUBSET InService : served' = served \cup done
    /\ UNCHANGED <<life, proxy, mutex, kind>>

ServiceStarts ==
    /\ ~alive
    /\ life < MaxLives
    /\ life' = life + 1
    /\ alive' = TRUE
    /\ UNCHANGED <<proxy, mutex, pc, kind, result, served>>

-----------------------------------------------------------------------------

Begin(c) ==
    \/ BeginConnecting(c) \/ BeginSetCurrentFunctions(c)
    \/ BeginPipe(c) \/ BeginRequestRight(c)
CallStep(c) == Connect(c) \/ ConnectLookup(c) \/ Send(c) \/ Reply(c)

Next ==
    \/ \E c \in Callers : Begin(c) \/ CallStep(c) \/ NoReply(c)
    \/ ServiceDies \/ ServiceStarts

Spec == Init /\ [][Next]_vars

(* Threads run on, and mutex_ is granted to each that keeps asking for it. *)
(* The service answers what it is not left waiting for.  Nobody need call, *)
(* die or start.                                                           *)
FairSpec == Spec /\ \A c \in Callers : SF_vars(Connect(c)) /\ WF_vars(CallStep(c))

-----------------------------------------------------------------------------

(* proxy_ is never written while a thread that has passed Connect, or has  *)
(* seen it set, is about to use it without mutex_.                         *)
NoWriteUnderUse ==
    [][proxy' # proxy => \A c \in Callers : pc[c] # "send"]_vars

(* A call that answers UEC_OK was executed by the service (but for         *)
(* SetCurrentFunctions), through deaths and restarts of the service.       *)
OkMeansServed ==
    \A c \in Callers : result[c] = OK /\ kind[c] # "SetCurrentFunctions" => c \in served

(* Claimed by @ohos.usb.d.ts for setCurrentFunctions ("Returns true if the *)
(* setting is successful; returns false otherwise").                       *)
SetFunctionsIsTruthful ==
    \A c \in Callers : result[c] = OK /\ kind[c] = "SetCurrentFunctions" => c \in served
=============================================================================
