------------------------ MODULE UsbLifecycleProofs ------------------------
(***************************************************************************)
(* Theorems about UsbLifecycle for any limits of retries and any number of *)
(* starts and stops.                                                       *)
(***************************************************************************)
EXTENDS UsbLifecycle, TLAPS

Starting == {"runner", "handler", "events", "bind", "ports"}

(* A start that is under way is not ready, and has bound a subscriber of   *)
(* its own when it comes to the ports and none before; those a failed      *)
(* unbind left behind are not its own.  InitUsbd has a retry left.         *)
StartInv ==
    /\ pc \in Starting => ~ready
    /\ pc \in Starting => bound \ stuck = IF pc = "ports" THEN {subscriber} ELSE {}
    /\ pc = "bind" => retryTimes < StartupMaxTime

LifecycleInv == TypeOK /\ StartInv /\ ReadyHasOneSubscriber

(* The counts of tries stay within their limits. *)
LEMMA TriesBounded ==
    ASSUME LifecycleInv, WaitForEvents \/ InitUsbd
    PROVE  eventTries' \in 0 .. EventRetries + 1 /\ retryTimes' \in 0 .. StartupMaxTime
<1> USE LifecycleConstants DEF LifecycleInv, TypeOK, StartInv
<1>1. CASE WaitForEvents
  BY <1>1 DEF WaitForEvents
<1>2. CASE InitUsbd
  BY <1>2 DEF InitUsbd
<1>3. QED
  BY <1>1, <1>2

(* Every step of a start keeps the invariant ... *)
LEMMA StartKeepsInv ==
    ASSUME LifecycleInv, OnStart \/ StartStep
    PROVE  LifecycleInv'
<1> USE LifecycleConstants DEF LifecycleInv, TypeOK, StartInv, Starting, ReadyHasOneSubscriber
<1>1. CASE OnStart
  BY <1>1 DEF OnStart
<1>2. CASE CreateRunner
  BY <1>2 DEF CreateRunner
<1>3. CASE PublishService
  BY <1>3 DEF PublishService
<1>4. CASE WaitForEvents
  BY <1>4, TriesBounded DEF WaitForEvents
<1>5. CASE InitUsbd
  <2>1. subscriber' \in Subscribers /\ subscriber' \notin bound /\ pc = "bind" /\ ~ready /\ bound \ stuck = {}
    BY <1>5 DEF InitUsbd
  <2>2. CASE bound' = bound \cup {subscriber'} /\ pc' = "ports" /\ UNCHANGED retryTimes
    <3>1. bound' \ stuck = {subscriber'}
      BY <2>1, <2>2
    <3>2. QED
      BY <1>5, <2>1, <2>2, <3>1 DEF InitUsbd
  <2>3. CASE /\ retryTimes' = retryTimes + 1
             /\ pc' = IF retryTimes + 1 = StartupMaxTime THEN "idle" ELSE "bind"
             /\ UNCHANGED bound
    BY <1>5, <2>1, <2>3, TriesBounded DEF InitUsbd
  <2>4. QED
    BY <1>5, <2>2, <2>3 DEF InitUsbd
<1>6. CASE BecomeReady
  BY <1>6 DEF BecomeReady
<1>7. QED
  BY <1>1, <1>2, <1>3, <1>4, <1>5, <1>6 DEF StartStep

(* ... and so does a stop, whether or not usbd unbinds the subscriber. *)
LEMMA StopKeepsInv ==
    ASSUME LifecycleInv, OnStop
    PROVE  LifecycleInv'
<1> USE DEF LifecycleInv, TypeOK, StartInv, Starting, ReadyHasOneSubscriber
<1>1. pc = "idle" /\ pc' = "idle" /\ ready' = FALSE /\ bound \ stuck = {subscriber} /\ UNCHANGED subscriber
  BY DEF OnStop
<1>2. subscriber \in bound /\ subscriber \notin stuck
  BY <1>1
<1>3. stuck' \subseteq bound' /\ bound' \subseteq Subscribers /\ bound' \ stuck' = {}
  BY <1>1, <1>2 DEF OnStop
<1>4. QED
  BY <1>1, <1>3 DEF OnStop

(* The invariant holds in every state. *)
THEOREM LifecycleInvariance == Spec => []LifecycleInv
<1>1. Init => LifecycleInv
  <2> SUFFICES ASSUME Init PROVE LifecycleInv
    OBVIOUS
  <2>1. eventTries \in 0 .. EventRetries + 1 /\ retryTimes \in 0 .. StartupMaxTime
    BY LifecycleConstants DEF Init
  <2>2. TypeOK
    BY <2>1 DEF Init, TypeOK
  <2>3. StartInv /\ ReadyHasOneSubscriber
    BY DEF Init, StartInv, Starting, ReadyHasOneSubscriber
  <2>4. QED
    BY <2>2, <2>3 DEF LifecycleInv
<1>2. LifecycleInv /\ [Next]_vars => LifecycleInv'
  <2> SUFFICES ASSUME LifecycleInv, [Next]_vars PROVE LifecycleInv'
    OBVIOUS
  <2>1. CASE UNCHANGED vars
    BY <2>1 DEF vars, LifecycleInv, TypeOK, StartInv, ReadyHasOneSubscriber
  <2>2. CASE Next
    BY <2>1, <2>2, StartKeepsInv, StopKeepsInv DEF Next, OnStartAgain
  <2>3. QED
    BY <2>1, <2>2
<1>3. QED
  BY <1>1, <1>2, PTL DEF Spec

(* The variables keep their types: no retry goes past its limit. *)
THEOREM LifecycleTypes == Spec => []TypeOK
<1>1. LifecycleInv => TypeOK
  BY DEF LifecycleInv
<1>2. QED
  BY <1>1, LifecycleInvariance, PTL

(* Between calls usbd has exactly one subscriber when the service is ready *)
(* and none otherwise, but for those that it failed to unbind.             *)
THEOREM ReadyAlwaysHasOneSubscriber == Spec => []ReadyHasOneSubscriber
<1>1. LifecycleInv => ReadyHasOneSubscriber
  BY DEF LifecycleInv
<1>2. QED
  BY <1>1, LifecycleInvariance, PTL
=============================================================================
