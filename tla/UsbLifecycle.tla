---------------------------- MODULE UsbLifecycle ----------------------------
(***************************************************************************)
(* How UsbService starts and stops: OnStart with Init and InitUsbd, and    *)
(* OnStop.  The system ability framework calls them one at a time.  What   *)
(* they depend on may be missing: the event runner, the system ability     *)
(* manager (Publish), the common event service, and usbd.                  *)
(***************************************************************************)
EXTENDS Naturals

CONSTANTS
    Subscribers,        \* UsbServiceSubscriber objects; InitUsbd makes a new one each time
    EventRetries,       \* COMMEVENT_REGISTER_RETRY_TIMES
    StartupMaxTime      \* SERVICE_STARTUP_MAX_TIME

ASSUME LifecycleConstants ==
    /\ EventRetries \in Nat
    /\ StartupMaxTime \in Nat \ {0}

NoSubscriber == "no subscriber"

VARIABLES
    pc,           \* where OnStart is; "idle" outside
    ready,        \* ready_
    runner,       \* is eventRunner_ set?
    handler,      \* is handler_ set?
    published,    \* does the system ability manager know the service?
    eventTries,   \* commEventRetryTimes_, a member: it outlives a call of Init
    retryTimes,   \* retryTimes of OnStart
    subscriber,   \* usbdSubscriber_
    bound,        \* the subscribers usbd sends its events to
    stuck         \* history: those of them that usbd failed to unbind

vars == <<pc, ready, runner, handler, published, eventTries, retryTimes, subscriber, bound, stuck>>

TypeOK ==
    /\ pc \in {"idle", "runner", "handler", "events", "bind", "ports"}
    /\ ready \in BOOLEAN /\ runner \in BOOLEAN /\ handler \in BOOLEAN /\ published \in BOOLEAN
    /\ eventTries \in 0 .. EventRetries + 1
    /\ retryTimes \in 0 .. StartupMaxTime
    /\ subscriber \in Subscribers \cup {NoSubscriber}
    /\ bound \in SUBSET Subscribers
    /\ stuck \in SUBSET bound

Init ==
    /\ pc = "idle"
    /\ ready = FALSE /\ runner = FALSE /\ handler = FALSE /\ published = FALSE
    /\ eventTries = 0
    /\ retryTimes = 0
    /\ subscriber = NoSubscriber
    /\ bound = {}
    /\ stuck = {}

-----------------------------------------------------------------------------

OnStart ==
    /\ pc = "idle"
    /\ ~ready
    /\ pc' = "runner"
    /\ UNCHANGED <<ready, runner, handler, published, eventTries, retryTimes, subscriber, bound, stuck>>

(* OnStart finds the service ready and has nothing to do. *)
OnStartAgain ==
    /\ pc = "idle"
    /\ ready
    /\ UNCHANGED vars

(* Init: EventRunner::Create may fail. *)
CreateRunner ==
    /\ pc = "runner"
    /\ \/ runner' = TRUE /\ pc' = "handler"
       \/ ~runner /\ UNCHANGED runner /\ pc' = "idle"
    /\ UNCHANGED <<ready, handler, published, eventTries, retryTimes, subscriber, bound, stuck>>

(* Init: only a new handler is published, and it stays when Publish fails. *)
PublishService ==
    /\ pc = "handler"
    /\ \/ handler /\ pc' = "events" /\ UNCHANGED published
       \/ ~handler /\ published' = TRUE /\ pc' = "events"
       \/ ~handler /\ pc' = "idle" /\ UNCHANGED published
    /\ handler' = TRUE
    /\ UNCHANGED <<ready, runner, eventTries, retryTimes, subscriber, bound, stuck>>

(* Mutant of WaitForEvents: the count is reset inside the loop. *)
WaitForEventsForever ==
    /\ pc = "events"
    /\ \/ eventTries' = (eventTries + 1) % (EventRetries + 1) /\ UNCHANGED <<pc, retryTimes>>
       \/ eventTries' = 0 /\ pc' = "bind" /\ retryTimes' = 0
    /\ UNCHANGED <<ready, runner, handler, published, subscriber, bound, stuck>>

(* Mutant of WaitForEvents: one try too many. *)
WaitForEventsLonger ==
    /\ pc = "events"
    /\ \/ /\ eventTries <= EventRetries + 1
          /\ eventTries' = eventTries + 1
          /\ UNCHANGED <<pc, retryTimes>>
       \/ /\ eventTries <= EventRetries + 1
          /\ eventTries' = 0
          /\ pc' = "bind" /\ retryTimes' = 0
       \/ /\ eventTries > EventRetries + 1
          /\ pc' = "bind" /\ retryTimes' = 0
          /\ UNCHANGED eventTries
    /\ UNCHANGED <<ready, runner, handler, published, subscriber, bound, stuck>>

(* Init goes on when it has seen the common event service, or has looked   *)
(* EventRetries + 1 times in vain; the count is reset only in the first    *)
(* case.  OnStart then begins its own count.                               *)
WaitForEvents ==
    /\ pc = "events"
    /\ \/ /\ eventTries <= EventRetries
          /\ eventTries' = eventTries + 1
          /\ UNCHANGED <<pc, retryTimes>>
       \/ /\ eventTries <= EventRetries
          /\ eventTries' = 0
          /\ pc' = "bind" /\ retryTimes' = 0
       \/ /\ eventTries > EventRetries
          /\ pc' = "bind" /\ retryTimes' = 0
          /\ UNCHANGED eventTries
    /\ UNCHANGED <<ready, runner, handler, published, subscriber, bound, stuck>>

(* InitUsbd makes a subscriber and binds it; OnStart retries every second. *)
InitUsbd ==
    /\ pc = "bind"
    /\ subscriber' \in Subscribers \ bound
    /\ \/ /\ bound' = bound \cup {subscriber'}
          /\ pc' = "ports"
          /\ UNCHANGED retryTimes
       \/ /\ retryTimes' = retryTimes + 1
          /\ pc' = IF retryTimes + 1 = StartupMaxTime THEN "idle" ELSE "bind"
          /\ UNCHANGED bound
    /\ UNCHANGED <<ready, runner, handler, published, eventTries, stuck>>

(* UsbPortManager::Init (UsbPort) and the end of OnStart. *)
BecomeReady ==
    /\ pc = "ports"
    /\ ready' = TRUE
    /\ pc' = "idle"
    /\ UNCHANGED <<runner, handler, published, eventTries, retryTimes, subscriber, bound, stuck>>

(* Mutant of OnStop: the subscriber stays bound. *)
OnStopKeepsSubscriber ==
    /\ pc = "idle"
    /\ ready
    /\ ready' = FALSE /\ runner' = FALSE /\ handler' = FALSE
    /\ UNCHANGED <<pc, published, eventTries, retryTimes, subscriber, bound, stuck>>

(* OnStop does nothing unless the service is ready, and ignores whether    *)
(* usbd unbound.  (Bound: it fails to only while Subscribers has an object *)
(* left for the next start.)                                               *)
OnStop ==
    /\ pc = "idle"
    /\ ready
    /\ ready' = FALSE /\ runner' = FALSE /\ handler' = FALSE
    /\ \/ bound' = bound \ {subscriber} /\ UNCHANGED stuck
       \/ bound # Subscribers /\ stuck' = stuck \cup {subscriber} /\ UNCHANGED bound
    /\ UNCHANGED <<pc, published, eventTries, retryTimes, subscriber>>

StartStep ==
    CreateRunner \/ PublishService \/ WaitForEvents \/ InitUsbd \/ BecomeReady

Next == OnStart \/ OnStartAgain \/ StartStep \/ OnStop

Spec == Init /\ [][Next]_vars

(* A start that has begun keeps running: its waits are sleeps of fixed     *)
(* length.                                                                 *)
FairSpec == Spec /\ WF_vars(StartStep)

-----------------------------------------------------------------------------

(* Between calls, usbd sends its events to exactly one subscriber when the *)
(* service is ready and to none otherwise, over any sequence of starts,    *)
(* failed starts and stops: no event is handled twice, none after a stop.  *)
(* (But for subscribers whose unbind failed, which OnStop ignores.)        *)
ReadyHasOneSubscriber ==
    pc = "idle" => bound \ stuck = IF ready THEN {subscriber} ELSE {}

(* A start ends, ready or not, however long usbd and the common event      *)
(* service stay away.                                                      *)
StartEnds == pc # "idle" ~> pc = "idle"
=============================================================================
