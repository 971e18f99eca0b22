------------------------------ MODULE UsbPort ------------------------------
(***************************************************************************)
(* UsbPortManager, the service's cache of the USB ports, between usbd      *)
(* (external) and the clients.  The cache is filled by QueryPort (at start *)
(* and by a GetPorts that finds it empty) on any IPC thread, and updated   *)
(* by the PortChangedEvents of usbd, which the subscriber handles one      *)
(* after the other in the order they were sent.  SetPortRole goes to usbd, *)
(* never to the cache.  Nothing is locked, so a query may overlap events   *)
(* and other queries.                                                      *)
(*                                                                         *)
(* Data: power role, data role and mode are one Status; supportedModes is  *)
(* the same constant for every port.                                       *)
(***************************************************************************)
EXTENDS Naturals, Sequences

CONSTANTS
    Ports,        \* port identifiers
    QueriedPort,  \* the one port usbd's QueryPort reports
    Status,       \* power role, data role and mode of a port
    Unknown,      \* no entry in portMap_
    Threads,      \* IPC threads (and the one that runs OnStart)
    MaxQueue      \* bound: events usbd has sent and the service not handled

ASSUME PortConstants ==
    /\ QueriedPort \in Ports
    /\ Unknown \notin Status
    /\ MaxQueue \in Nat

VARIABLES
    actual,     \* actual[p]: the status of port p in usbd
    queue,      \* PortChangedEvents sent by usbd, not yet handled
    portMap,    \* portMap_
    pc,         \* pc[t]: "idle", or "add" between usbd's answer and AddPort
    answer,     \* answer[t]: the status QueryPort got from usbd
    event,      \* the event whose broadcast is still to come, as a sequence
    updated     \* history: ports an event updated since they entered portMap_

vars == <<actual, queue, portMap, pc, answer, event, updated>>

Events == [port : Ports, status : Status]

TypeOK ==
    /\ actual \in [Ports -> Status]
    /\ queue \in Seq(Events)
    /\ portMap \in [Ports -> Status \cup {Unknown}]
    /\ pc \in [Threads -> {"idle", "add"}]
    /\ answer \in [Threads -> Status \cup {Unknown}]
    /\ event \in Seq(Events)
    /\ updated \in SUBSET Ports

Init ==
    /\ actual \in [Ports -> Status]
    /\ queue = <<>>
    /\ portMap = [p \in Ports |-> Unknown]
    /\ pc = [t \in Threads |-> "idle"]
    /\ answer = [t \in Threads |-> Unknown]
    /\ event = <<>>
    /\ updated = {}

-----------------------------------------------------------------------------

(* A role changes, by a cable or by a client's SetPortRole, and usbd       *)
(* reports it.                                                             *)
PortChanges(p, s) ==
    /\ s # actual[p]
    /\ Len(queue) < MaxQueue
    /\ actual' = [actual EXCEPT ![p] = s]
    /\ queue' = Append(queue, [port |-> p, status |-> s])
    /\ UNCHANGED <<portMap, pc, answer, event, updated>>

(* Mutant of UpdatePort: the new status goes to a copy of the entry. *)
UpdatePortCopy ==
    /\ event = <<>>
    /\ queue # <<>>
    /\ event' = <<Head(queue)>>
    /\ updated' = IF portMap[Head(queue).port] # Unknown THEN updated \cup {Head(queue).port} ELSE updated
    /\ queue' = Tail(queue)
    /\ UNCHANGED <<actual, portMap, pc, answer>>

(* Mutant of UpdatePort: an unknown port is entered without a status. *)
UpdatePortEnters ==
    /\ event = <<>>
    /\ queue # <<>>
    /\ portMap' = [portMap EXCEPT ![Head(queue).port] = IF @ = Unknown THEN "uninitialised" ELSE Head(queue).status]
    /\ event' = <<Head(queue)>>
    /\ updated' = updated \cup {Head(queue).port}
    /\ queue' = Tail(queue)
    /\ UNCHANGED <<actual, pc, answer>>

(* UpdatePort, the first part of PortChangedEvent: a port that is not in   *)
(* portMap_ is ignored.                                                    *)
UpdatePort ==
    /\ event = <<>>
    /\ queue # <<>>
    /\ LET e == Head(queue)
           known == portMap[e.port] # Unknown
       IN /\ portMap' = IF known THEN [portMap EXCEPT ![e.port] = e.status] ELSE portMap
          /\ updated' = IF known THEN updated \cup {e.port} ELSE updated
          /\ event' = <<e>>
    /\ queue' = Tail(queue)
    /\ UNCHANGED <<actual, pc, answer>>

(* ... and the broadcast of COMMON_EVENT_USB_PORT_CHANGED that follows. *)
PublishPortChanged ==
    /\ event # <<>>
    /\ event' = <<>>
    /\ UNCHANGED <<actual, queue, portMap, pc, answer, updated>>

(* QueryPort asks usbd; an error ends it.  Init of the port manager calls  *)
(* it always, GetPorts when portMap_ is empty.                             *)
QueryPort(t) ==
    /\ pc[t] = "idle"
    /\ \/ /\ pc' = [pc EXCEPT ![t] = "add"]
          /\ answer' = [answer EXCEPT ![t] = actual[QueriedPort]]
       \/ UNCHANGED <<pc, answer>>
    /\ UNCHANGED <<actual, queue, portMap, event, updated>>

(* Mutant of Inserted: the entry is assigned, not inserted. *)
InsertedOverwrites(s) == s

(* AddPort inserts: an entry that is there already stays as it is. *)
Inserted(s) == IF portMap[QueriedPort] = Unknown THEN s ELSE portMap[QueriedPort]

AddPort(t) ==
    /\ pc[t] = "add"
    /\ portMap' = [portMap EXCEPT ![QueriedPort] = Inserted(answer[t])]
    /\ pc' = [pc EXCEPT ![t] = "idle"]
    /\ answer' = [answer EXCEPT ![t] = Unknown]
    /\ UNCHANGED <<actual, queue, event, updated>>

Next ==
    \/ \E p \in Ports, s \in Status : PortChanges(p, s)
    \/ UpdatePort \/ PublishPortChanged
    \/ \E t \in Threads : QueryPort(t) \/ AddPort(t)

Spec == Init /\ [][Next]_vars

(* usbd's notification thread and the threads of pending queries keep      *)
(* running; ports need not change and clients need not ask.                *)
FairSpec == Spec /\ WF_vars(UpdatePort) /\ WF_vars(PublishPortChanged)
                 /\ \A t \in Threads : WF_vars(AddPort(t))

-----------------------------------------------------------------------------

(* Once an event has reached a cached port, the cache has the port's       *)
(* current status whenever usbd has nothing more to report, no matter      *)
(* which queries were answered before that event and add after it.         *)
UpdatedCacheIsCurrent ==
    \A p \in updated : (\A i \in 1 .. Len(queue) : queue[i].port # p) => portMap[p] = actual[p]

(* A client that reacts to PORT_CHANGED by GetPorts gets the status of the *)
(* event, or a later one, for a port the event updated.                    *)
BroadcastIsCached ==
    \A i \in 1 .. Len(event) : event[i].port \in updated => portMap[event[i].port] = event[i].status

(* When the ports stop changing, the cache of every port that an event     *)
(* ever updated has its current status at last and keeps it.               *)
CacheCatchesUp ==
    <>[][FALSE]_actual => <>[](\A p \in updated : portMap[p] = actual[p])
=============================================================================
