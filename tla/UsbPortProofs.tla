--------------------------- MODULE UsbPortProofs ---------------------------
(***************************************************************************)
(* Theorems about UsbPort for any number of ports, statuses and threads.   *)
(***************************************************************************)
EXTENDS UsbPort, SequenceTheorems, TLAPS

Waits(q, p) == \E i \in 1 .. Len(q) : q[i].port = p
IsLast(q, i) == \A k \in 1 .. Len(q) : i < k => q[k].port # q[i].port

(* The last event of a port has the status the port has. *)
EndsWith(q, status) == \A i \in 1 .. Len(q) : IsLast(q, i) => q[i].status = status[q[i].port]

(* A port that an event updated is cached, and currently so when no        *)
(* further event of it waits: neither a query that usbd answered before    *)
(* nor one it answers later overwrites it.                                 *)
CacheInv ==
    /\ EndsWith(queue, actual)
    /\ \A p \in updated :
          /\ portMap[p] # Unknown
          /\ ~Waits(queue, p) => portMap[p] = actual[p]

PortInv == TypeOK /\ CacheInv /\ BroadcastIsCached

-----------------------------------------------------------------------------
(* The queue *)

(* Sending the new status of a port. *)
LEMMA SendEvent ==
    ASSUME NEW q \in Seq(Events), NEW status \in [Ports -> Status], NEW p \in Ports, NEW s \in Status,
           EndsWith(q, status)
    PROVE  LET r == Append(q, [port |-> p, status |-> s]) IN
           /\ r \in Seq(Events)
           /\ EndsWith(r, [status EXCEPT ![p] = s])
           /\ Waits(r, p)
           /\ \A o \in Ports : o # p => (Waits(r, o) <=> Waits(q, o))
<1> DEFINE e == [port |-> p, status |-> s]
           r == Append(q, e)
<1>1. e \in Events
  BY DEF Events
<1>2. /\ r \in Seq(Events)
      /\ Len(r) = Len(q) + 1 /\ Len(q) \in Nat
      /\ r[Len(q) + 1] = e
      /\ \A i \in 1 .. Len(q) : r[i] = q[i]
  BY <1>1, AppendProperties, LenProperties
<1>3. \A i \in 1 .. Len(q) : q[i] \in Events
  BY ElementOfSeq
<1>4. e.port = p /\ e.status = s
  OBVIOUS
<1> HIDE DEF r, e
<1>5. /\ \A i \in 1 .. Len(r) : i \in 1 .. Len(q) \/ i = Len(q) + 1
      /\ \A i \in 1 .. Len(q) : i \in 1 .. Len(r) /\ i < Len(q) + 1
      /\ Len(q) + 1 \in 1 .. Len(r)
  BY <1>2
<1>6. Waits(r, p) /\ \A o \in Ports : o # p => (Waits(r, o) <=> Waits(q, o))
  BY <1>2, <1>4, <1>5 DEF Waits
<1>7. ASSUME NEW i \in 1 .. Len(r), IsLast(r, i)
      PROVE  r[i].status = [status EXCEPT ![p] = s][r[i].port]
  <2>1. CASE i = Len(q) + 1
    BY <1>2, <1>4, <2>1
  <2>2. CASE i \in 1 .. Len(q)
    <3>1. IsLast(q, i) /\ q[i].port # p
      BY <1>2, <1>4, <1>5, <1>7, <2>2 DEF IsLast
    <3>2. q[i].status = status[q[i].port] /\ q[i].port \in Ports
      BY <1>3, <2>2, <3>1 DEF EndsWith, Events
    <3>3. QED
      BY <1>2, <2>2, <3>1, <3>2
  <2>3. QED
    BY <1>5, <2>1, <2>2
<1>8. EndsWith(r, [status EXCEPT ![p] = s])
  BY <1>7 DEF EndsWith
<1>9. QED
  BY <1>2, <1>6, <1>8 DEF r, e

(* Taking the first event: when it was the only one of its port, the port  *)
(* has its status.                                                         *)
LEMMA TakeEvent ==
    ASSUME NEW q \in Seq(Events), q # <<>>, NEW status, EndsWith(q, status)
    PROVE  /\ Head(q) \in Events /\ Tail(q) \in Seq(Events)
           /\ EndsWith(Tail(q), status)
           /\ \A p : p # Head(q).port => (Waits(q, p) <=> Waits(Tail(q), p))
           /\ ~Waits(Tail(q), Head(q).port) => Head(q).status = status[Head(q).port]
<1> DEFINE r == Tail(q)
<1>1. /\ Head(q) \in Events /\ r \in Seq(Events)
      /\ Len(q) \in Nat \ {0} /\ Len(r) = Len(q) - 1
      /\ Head(q) = q[1]
      /\ \A i \in 1 .. Len(r) : r[i] = q[i + 1]
  BY HeadTailProperties, EmptySeq
<1> HIDE DEF r
<1>2. /\ \A i \in 1 .. Len(r) : i + 1 \in 1 .. Len(q)
      /\ \A k \in 1 .. Len(q) : k = 1 \/ (k - 1 \in 1 .. Len(r) /\ r[k - 1] = q[k])
      /\ 1 \in 1 .. Len(q)
  BY <1>1
<1>3. \A p : p # Head(q).port => (Waits(q, p) <=> Waits(r, p))
  BY <1>1, <1>2 DEF Waits
<1>4. EndsWith(r, status)
  <2> SUFFICES ASSUME NEW i \in 1 .. Len(r), IsLast(r, i)
               PROVE  r[i].status = status[r[i].port]
    BY DEF EndsWith
  <2>1. IsLast(q, i + 1)
    BY <1>1, <1>2 DEF IsLast
  <2>2. QED
    BY <1>1, <1>2, <2>1 DEF EndsWith
<1>5. ~Waits(r, Head(q).port) => IsLast(q, 1)
  <2> SUFFICES ASSUME NEW k \in 1 .. Len(q), 1 < k, q[k].port = q[1].port
               PROVE  Waits(r, q[1].port)
    BY <1>1 DEF IsLast
  <2>1. k - 1 \in 1 .. Len(r) /\ r[k - 1] = q[k]
    BY <1>2
  <2>2. QED
    BY <2>1 DEF Waits
<1>6. ~Waits(r, Head(q).port) => Head(q).status = status[Head(q).port]
  BY <1>1, <1>2, <1>5 DEF EndsWith
<1>7. QED
  BY <1>1, <1>3, <1>4, <1>6 DEF r

-----------------------------------------------------------------------------

(* Every step keeps the types, the cache and what is broadcast. *)
LEMMA PortStep == PortInv /\ [Next]_vars => PortInv'
<1> SUFFICES ASSUME PortInv, [Next]_vars PROVE PortInv'
  OBVIOUS
<1> USE PortConstants DEF PortInv, TypeOK, CacheInv, BroadcastIsCached
<1>1. CASE UNCHANGED vars
  BY <1>1 DEF vars, EndsWith, IsLast, Waits
<1>2. ASSUME NEW p \in Ports, NEW s \in Status, PortChanges(p, s) PROVE PortInv'
  <2>1. /\ queue' = Append(queue, [port |-> p, status |-> s])
        /\ actual' = [actual EXCEPT ![p] = s]
        /\ UNCHANGED <<portMap, pc, answer, event, updated>>
    BY <1>2 DEF PortChanges
  <2>2. /\ queue' \in Seq(Events) /\ EndsWith(queue', actual')
        /\ Waits(queue', p) /\ \A o \in Ports : o # p => (Waits(queue', o) <=> Waits(queue, o))
    BY <2>1, SendEvent
  <2>3. TypeOK'
    BY <2>1, <2>2
  <2>4. CacheInv'
    BY <2>1, <2>2
  <2>5. BroadcastIsCached'
    BY <2>1
  <2>6. QED
    BY <2>3, <2>4, <2>5
<1>3. CASE UpdatePort
  <2> DEFINE e == Head(queue)
             known == portMap[e.port] # Unknown
  <2>1. /\ queue # <<>> /\ queue' = Tail(queue) /\ event' = <<e>>
        /\ portMap' = IF known THEN [portMap EXCEPT ![e.port] = e.status] ELSE portMap
        /\ updated' = IF known THEN updated \cup {e.port} ELSE updated
        /\ UNCHANGED <<actual, pc, answer>>
    BY <1>3 DEF UpdatePort
  <2>2. /\ e \in Events /\ queue' \in Seq(Events) /\ EndsWith(queue', actual')
        /\ \A p : p # e.port => (Waits(queue, p) <=> Waits(queue', p))
        /\ ~Waits(queue', e.port) => e.status = actual[e.port]
    BY <2>1, TakeEvent
  <2>3. e.port \in Ports /\ e.status \in Status
    BY <2>2 DEF Events
  <2> HIDE DEF e
  <2>4. event' \in Seq(Events) /\ Len(event') = 1 /\ event'[1] = e
    BY <2>1, <2>2
  <2>5. TypeOK'
    BY <2>1, <2>2, <2>3, <2>4
  <2>6. CacheInv'
    BY <2>1, <2>2, <2>3
  <2>7. BroadcastIsCached'
    BY <2>1, <2>3, <2>4
  <2>8. QED
    BY <2>5, <2>6, <2>7
<1>4. CASE PublishPortChanged
  BY <1>4 DEF PublishPortChanged, Waits, EndsWith, IsLast
<1>5. ASSUME NEW t \in Threads, QueryPort(t) PROVE PortInv'
  BY <1>5 DEF QueryPort, Waits, EndsWith, IsLast
<1>6. ASSUME NEW t \in Threads, AddPort(t) PROVE PortInv'
  <2>1. /\ portMap' = [portMap EXCEPT ![QueriedPort] = Inserted(answer[t])]
        /\ pc' = [pc EXCEPT ![t] = "idle"] /\ answer' = [answer EXCEPT ![t] = Unknown]
        /\ UNCHANGED <<actual, queue, event, updated>>
    BY <1>6 DEF AddPort
  <2>2. Inserted(answer[t]) \in Status \cup {Unknown}
    BY DEF Inserted
  <2>3. \A p \in updated : portMap'[p] = portMap[p]
    BY <2>1 DEF Inserted
  <2>4. TypeOK'
    BY <2>1, <2>2
  <2>5. CacheInv'
    BY <2>1, <2>3
  <2>6. BroadcastIsCached'
    BY <2>1, <2>3
  <2>7. QED
    BY <2>4, <2>5, <2>6
<1>7. QED
  BY <1>1, <1>2, <1>3, <1>4, <1>5, <1>6 DEF Next

(* The invariant holds in every state. *)
THEOREM PortInvariance == Spec => []PortInv
<1>1. Init => PortInv
  <2> SUFFICES ASSUME Init PROVE PortInv
    OBVIOUS
  <2>1. TypeOK
    BY DEF Init, TypeOK
  <2>2. CacheInv /\ BroadcastIsCached
    BY DEF Init, CacheInv, BroadcastIsCached, EndsWith
  <2>3. QED
    BY <2>1, <2>2 DEF PortInv
<1>2. QED
  BY <1>1, PortStep, PTL DEF Spec

(* The variables keep their types. *)
THEOREM PortTypes == Spec => []TypeOK
<1>1. PortInv => TypeOK
  BY DEF PortInv
<1>2. QED
  BY <1>1, PortInvariance, PTL

(* Once an event has updated a cached port, the cache is current whenever  *)
(* no event of that port waits, however many queries overlapped.           *)
THEOREM UpdatedCacheStaysCurrent == Spec => []UpdatedCacheIsCurrent
<1>1. PortInv => UpdatedCacheIsCurrent
  BY DEF PortInv, CacheInv, UpdatedCacheIsCurrent, Waits
<1>2. QED
  BY <1>1, PortInvariance, PTL

(* A client that reacts to PORT_CHANGED by GetPorts gets the status of the *)
(* event for a port that an event updated.                                 *)
THEOREM BroadcastsAreCached == Spec => []BroadcastIsCached
<1>1. PortInv => BroadcastIsCached
  BY DEF PortInv
<1>2. QED
  BY <1>1, PortInvariance, PTL
=============================================================================
