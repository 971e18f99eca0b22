--------------------------- MODULE UsbNapiProofs ---------------------------
(***************************************************************************)
(* Theorems about UsbClient, and about UsbNapi that extends it, for any    *)
(* number of threads, workers, promises and restarts of the service.       *)
(***************************************************************************)
EXTENDS UsbNapi, SequenceTheorems, TLAPS

-----------------------------------------------------------------------------
(* The client library. *)

(* mutex_ is held by the thread that looks the service up, and proxy_ is   *)
(* null until it has; a thread about to use proxy_ finds it set.           *)
ProxyGuarded ==
    \A c \in Callers :
        /\ pc[c] = "lookup" => mutex = c /\ proxy = Null
        /\ pc[c] = "send" => proxy # Null

ClientInv == TypeOK /\ ProxyGuarded /\ OkMeansServed

(* proxy_ points at most to the last start, which is not null. *)
LEMMA LifeBounds ==
    ASSUME NEW m \in Nat, NEW l \in 1 .. m, NEW p \in 0 .. l
    PROVE  /\ l # 0 /\ l \in 0 .. l
           /\ l < m => l + 1 \in 1 .. m /\ p \in 0 .. (l + 1)
OBVIOUS

(* The bounds, for the variables. *)
LEMMA TypedLife ==
    ASSUME TypeOK
    PROVE  /\ life # Null /\ life \in 0 .. life
           /\ life < MaxLives => life + 1 \in 1 .. MaxLives /\ proxy \in 0 .. (life + 1)
<1>1. MaxLives \in Nat /\ life \in 1 .. MaxLives /\ proxy \in 0 .. life
  BY ClientConstants DEF TypeOK
<1>2. QED
  BY <1>1, LifeBounds DEF Null

(* Every step keeps the types. *)
LEMMA TypeStep ==
    ASSUME TypeOK, [Next]_vars
    PROVE  TypeOK'
<1> USE ClientConstants DEF TypeOK, OK, NO_INIT, IPC_ERR, SERVICE_ERR, Running, Kinds, Labels,
           Null, Go, Return
<1>1. CASE UNCHANGED vars
  BY <1>1 DEF vars
<1>2. ASSUME NEW c \in Callers, Begin(c) \/ CallStep(c) \/ NoReply(c) PROVE TypeOK'
  <2>1. CASE BeginConnecting(c)
    BY <2>1 DEF BeginConnecting
  <2>2. CASE BeginSetCurrentFunctions(c)
    BY <2>2 DEF BeginSetCurrentFunctions
  <2>3. CASE BeginPipe(c)
    BY <2>3 DEF BeginPipe
  <2>4. CASE Connect(c)
    BY <2>4 DEF Connect
  <2>5. CASE ConnectLookup(c)
    <3>1. proxy' \in 0 .. life'
      <4>1. proxy' = life \/ proxy' = proxy
        BY <2>5 DEF ConnectLookup
      <4>2. life' = life
        BY <2>5 DEF ConnectLookup
      <4>3. QED
        BY <4>1, <4>2, TypedLife
    <3>2. NotConnected(c) \in {OK, NO_INIT}
      BY DEF NotConnected
    <3>3. /\ pc' \in [Callers -> Labels]
          /\ result' \in [Callers -> {OK, NO_INIT, IPC_ERR, SERVICE_ERR, Running}]
      BY <2>5, <3>2 DEF ConnectLookup
    <3>4. /\ mutex' \in Callers \cup {Free}
          /\ UNCHANGED <<life, alive, kind, served>>
      BY <2>5 DEF ConnectLookup
    <3>5. QED
      BY <3>1, <3>3, <3>4
  <2>6. CASE Send(c)
    BY <2>6 DEF Send
  <2>7. CASE Reply(c)
    BY <2>7 DEF Reply
  <2>8. CASE BeginRequestRight(c)
    BY <2>8 DEF BeginRequestRight
  <2>9. CASE NoReply(c)
    BY <2>9 DEF NoReply
  <2>10. QED
    BY <1>2, <2>1, <2>2, <2>3, <2>4, <2>5, <2>6, <2>7, <2>8, <2>9 DEF Begin, CallStep
<1>3. CASE ServiceDies
  BY <1>3 DEF ServiceDies, InService
<1>4. CASE ServiceStarts
  <2>1. life' \in 1 .. MaxLives /\ proxy' \in 0 .. life'
    <3>1. life < MaxLives /\ life' = life + 1 /\ proxy' = proxy
      BY <1>4 DEF ServiceStarts
    <3>2. QED
      BY <3>1, TypedLife
  <2>2. alive' \in BOOLEAN
    BY <1>4 DEF ServiceStarts
  <2>3. UNCHANGED <<mutex, pc, kind, result, served>>
    BY <1>4 DEF ServiceStarts
  <2>4. QED
    BY <2>1, <2>2, <2>3
<1>5. QED
  BY <1>1, <1>2, <1>3, <1>4 DEF Next

(* Every step keeps proxy_ guarded. *)
LEMMA GuardStep ==
    ASSUME TypeOK, ProxyGuarded, [Next]_vars
    PROVE  ProxyGuarded'
<1> USE ClientConstants DEF TypeOK, ProxyGuarded, OK, NO_INIT, IPC_ERR, SERVICE_ERR, Running, Kinds, Labels,
           Null, Go, Return
<1>1. CASE UNCHANGED vars
  BY <1>1 DEF vars
<1>2. ASSUME NEW c \in Callers, Begin(c) \/ CallStep(c) \/ NoReply(c) PROVE ProxyGuarded'
  <2>1. CASE BeginConnecting(c)
    BY <2>1 DEF BeginConnecting
  <2>2. CASE BeginSetCurrentFunctions(c)
    BY <2>2 DEF BeginSetCurrentFunctions
  <2>3. CASE BeginPipe(c)
    BY <2>3 DEF BeginPipe
  <2>4. CASE Connect(c)
    BY <2>4 DEF Connect
  <2>5. CASE ConnectLookup(c)
    <3>1. pc[c] = "lookup" /\ mutex = c /\ proxy = Null
      BY <2>5 DEF ConnectLookup
    <3>2. \A d \in Callers : pc[d] \notin {"send"} /\ (pc[d] = "lookup" => d = c)
      BY <3>1
    <3>3. \A d \in Callers : d # c => pc'[d] = pc[d]
      BY <2>5 DEF ConnectLookup
    <3>4. pc'[c] = "idle" \/ (pc'[c] = "send" /\ proxy' = life)
      BY <2>5 DEF ConnectLookup
    <3>5. life # Null
      BY TypedLife
    <3>6. QED
      BY <3>2, <3>3, <3>4, <3>5
  <2>6. CASE Send(c)
    BY <2>6 DEF Send
  <2>7. CASE Reply(c)
    BY <2>7 DEF Reply
  <2>8. CASE BeginRequestRight(c)
    BY <2>8 DEF BeginRequestRight
  <2>9. CASE NoReply(c)
    BY <2>9 DEF NoReply
  <2>10. QED
    BY <1>2, <2>1, <2>2, <2>3, <2>4, <2>5, <2>6, <2>7, <2>8, <2>9 DEF Begin, CallStep
<1>3. CASE ServiceDies
  BY <1>3 DEF ServiceDies, InService
<1>4. CASE ServiceStarts
  BY <1>4 DEF ServiceStarts
<1>5. QED
  BY <1>1, <1>2, <1>3, <1>4 DEF Next

(* Every step answers UEC_OK only for calls the service executed. *)
LEMMA ServedStep ==
    ASSUME TypeOK, OkMeansServed, [Next]_vars
    PROVE  OkMeansServed'
<1> USE ClientConstants DEF TypeOK, OkMeansServed, OK, NO_INIT, IPC_ERR, SERVICE_ERR, Running, Kinds, Labels,
           Null, Go, Return
<1>1. CASE UNCHANGED vars
  BY <1>1 DEF vars
<1>2. ASSUME NEW c \in Callers, Begin(c) \/ CallStep(c) \/ NoReply(c) PROVE OkMeansServed'
  <2>1. CASE BeginConnecting(c)
    BY <2>1 DEF BeginConnecting
  <2>2. CASE BeginSetCurrentFunctions(c)
    BY <2>2 DEF BeginSetCurrentFunctions
  <2>3. CASE BeginPipe(c)
    BY <2>3 DEF BeginPipe
  <2>4. CASE Connect(c)
    BY <2>4 DEF Connect
  <2>5. CASE ConnectLookup(c)
    BY <2>5 DEF ConnectLookup, NotConnected
  <2>6. CASE Send(c)
    BY <2>6 DEF Send
  <2>7. CASE Reply(c)
    BY <2>7 DEF Reply
  <2>8. CASE BeginRequestRight(c)
    BY <2>8 DEF BeginRequestRight
  <2>9. CASE NoReply(c)
    BY <2>9 DEF NoReply
  <2>10. QED
    BY <1>2, <2>1, <2>2, <2>3, <2>4, <2>5, <2>6, <2>7, <2>8, <2>9 DEF Begin, CallStep
<1>3. CASE ServiceDies
  BY <1>3 DEF ServiceDies, InService
<1>4. CASE ServiceStarts
  BY <1>4 DEF ServiceStarts
<1>5. QED
  BY <1>1, <1>2, <1>3, <1>4 DEF Next

(* proxy_ is only written where it is null, so that nobody is about to use it. *)
LEMMA WriteStep ==
    ASSUME TypeOK, ProxyGuarded, [Next]_vars
    PROVE  proxy' # proxy => \A d \in Callers : pc[d] # "send"
<1> USE ClientConstants DEF TypeOK, ProxyGuarded, OK, NO_INIT, IPC_ERR, SERVICE_ERR, Running, Kinds, Labels,
           Null, Go, Return
<1>1. CASE UNCHANGED vars
  BY <1>1 DEF vars
<1>2. ASSUME NEW c \in Callers, Begin(c) \/ CallStep(c) \/ NoReply(c) 
      PROVE  proxy' # proxy => \A d \in Callers : pc[d] # "send"
  <2>1. CASE BeginConnecting(c)
    BY <2>1 DEF BeginConnecting
  <2>2. CASE BeginSetCurrentFunctions(c)
    BY <2>2 DEF BeginSetCurrentFunctions
  <2>3. CASE BeginPipe(c)
    BY <2>3 DEF BeginPipe
  <2>4. CASE Connect(c)
    BY <2>4 DEF Connect
  <2>5. CASE ConnectLookup(c)
    BY <2>5 DEF ConnectLookup, NotConnected
  <2>6. CASE Send(c)
    BY <2>6 DEF Send
  <2>7. CASE Reply(c)
    BY <2>7 DEF Reply
  <2>8. CASE BeginRequestRight(c)
    BY <2>8 DEF BeginRequestRight
  <2>9. CASE NoReply(c)
    BY <2>9 DEF NoReply
  <2>10. QED
    BY <1>2, <2>1, <2>2, <2>3, <2>4, <2>5, <2>6, <2>7, <2>8, <2>9 DEF Begin, CallStep
<1>3. CASE ServiceDies
  BY <1>3 DEF ServiceDies, InService
<1>4. CASE ServiceStarts
  BY <1>4 DEF ServiceStarts
<1>5. QED
  BY <1>1, <1>2, <1>3, <1>4 DEF Next

(* The library begins with no proxy_ and no call. *)
LEMMA InitStep ==
    ASSUME Init
    PROVE  ClientInv
<1>1. life \in 1 .. MaxLives /\ proxy \in 0 .. life
  BY ClientConstants DEF Init, Null
<1>2. /\ mutex \in Callers \cup {Free}
      /\ alive \in BOOLEAN
      /\ served \in SUBSET Callers
  BY DEF Init
<1>3. /\ pc \in [Callers -> Labels]
      /\ kind \in [Callers -> Kinds]
      /\ result \in [Callers -> {OK, NO_INIT, IPC_ERR, SERVICE_ERR, Running}]
  BY DEF Init, Labels
<1>4. ProxyGuarded /\ OkMeansServed
  BY DEF Init, ProxyGuarded, OkMeansServed, OK, Running
<1>5. QED
  BY <1>1, <1>2, <1>3, <1>4 DEF ClientInv, TypeOK

(* The invariant holds in every state. *)
THEOREM Invariance == Spec => []ClientInv
<1>1. Init => ClientInv
  BY InitStep
<1>2. ClientInv /\ [Next]_vars => ClientInv'
  BY TypeStep, GuardStep, ServedStep DEF ClientInv
<1>3. QED
  BY <1>1, <1>2, PTL DEF Spec

(* UEC_OK is only answered for calls the service executed. *)
THEOREM OkIsServed == Spec => []OkMeansServed
<1>1. ClientInv => OkMeansServed
  BY DEF ClientInv
<1>2. QED
  BY <1>1, Invariance, PTL

(* The unlocked use of proxy_ never overlaps a write of it. *)
THEOREM UseIsSafe == Spec => NoWriteUnderUse
<1>1. ClientInv /\ [Next]_vars => [proxy' # proxy => \A c \in Callers : pc[c] # "send"]_vars
  BY WriteStep DEF ClientInv
<1>2. QED
  BY <1>1, Invariance, PTL DEF Spec, NoWriteUnderUse

-----------------------------------------------------------------------------
(* The binding. *)

Distinct(s) == \A i, j \in DOMAIN s : s[i] = s[j] => i = j

(* A work is in one place at a time. *)
OnePlace ==
    /\ Distinct(queue) /\ Distinct(executed)
    /\ \A v, w \in Workers : job[v] = job[w] /\ job[v] # Nobody => v = w
    /\ ToSet(queue) \cap Working = {}
    /\ ToSet(queue) \cap ToSet(executed) = {}
    /\ Working \cap ToSet(executed) = {}

(* The types NapiTypeOK leaves out. *)
Buffers ==
    /\ buffer \in [Promises -> Int \cup {JsArray}]
    /\ sent \in [Promises -> Int \cup {JsArray}]
    /\ given \in [Promises -> Int]

(* What a transfer that waits will send is its own copy. *)
WaitingCopies ==
    \A p \in ToSet(queue) : api[p] = "transfer out" => buffer[p] = given[p]

(* A worker makes the call its work is for. *)
JobKinds ==
    \A w \in Workers : job[w] # Nobody /\ kind[w] = "SetCurrentFunctions"
                          => api[job[w]] = "SetCurrentFunctions"

(* A work that waits for its completion has napi_ok only if it was served. *)
ExecutedIsServed ==
    \A p \in ToSet(executed) :
        status[p] = "napi_ok" /\ api[p] # "SetCurrentFunctions" => p \in done

OwnInv ==
    /\ NapiTypeOK /\ Buffers /\ OnePlace /\ ContextsAreFreed
    /\ WaitingCopies /\ SendsWhatWasGiven
    /\ JobKinds /\ ExecutedIsServed /\ ResolvedIsServed

NapiInv == ClientInv /\ OwnInv

-----------------------------------------------------------------------------
(* Sequences without repetitions *)

(* Appending a new item. *)
LEMMA AppendItem ==
    ASSUME NEW S, NEW s \in Seq(S), NEW x \in S
    PROVE  /\ Append(s, x) \in Seq(S)
           /\ ToSet(Append(s, x)) = ToSet(s) \cup {x}
           /\ Distinct(s) /\ x \notin ToSet(s) => Distinct(Append(s, x))
<1>1. Len(s) \in Nat /\ DOMAIN s = 1 .. Len(s)
  OBVIOUS
<1>2. /\ Append(s, x) \in Seq(S)
      /\ DOMAIN Append(s, x) = 1 .. Len(s) + 1
      /\ \A i \in 1 .. Len(s) : Append(s, x)[i] = s[i]
      /\ Append(s, x)[Len(s) + 1] = x
  BY AppendProperties
<1>3. \A i \in 1 .. Len(s) + 1 : i \in 1 .. Len(s) \/ i = Len(s) + 1
  BY <1>1
<1>4. ToSet(Append(s, x)) = ToSet(s) \cup {x}
  BY <1>1, <1>2, <1>3 DEF ToSet
<1>5. Distinct(s) /\ x \notin ToSet(s) => Distinct(Append(s, x))
  BY <1>1, <1>2, <1>3 DEF ToSet, Distinct
<1>6. QED
  BY <1>2, <1>4, <1>5

(* Taking the first item. *)
LEMMA TakeItem ==
    ASSUME NEW S, NEW s \in Seq(S), s # <<>>
    PROVE  /\ Head(s) \in S /\ Tail(s) \in Seq(S)
           /\ ToSet(s) = ToSet(Tail(s)) \cup {Head(s)}
           /\ Distinct(s) => Distinct(Tail(s)) /\ Head(s) \notin ToSet(Tail(s))
<1>1. Len(s) \in Nat \ {0} /\ DOMAIN s = 1 .. Len(s) /\ Head(s) = s[1]
  OBVIOUS
<1>2. /\ Head(s) \in S /\ Tail(s) \in Seq(S)
      /\ DOMAIN Tail(s) = 1 .. Len(s) - 1
      /\ \A i \in 1 .. Len(s) - 1 : Tail(s)[i] = s[i + 1]
  BY <1>1, HeadTailProperties
<1>3. \A i \in 1 .. Len(s) - 1 : i + 1 \in 1 .. Len(s) /\ i + 1 # 1
  BY <1>1
<1>4. \A j \in 1 .. Len(s) : j = 1 \/ (j - 1 \in 1 .. Len(s) - 1 /\ (j - 1) + 1 = j)
  BY <1>1
<1>5. ToSet(s) = ToSet(Tail(s)) \cup {Head(s)}
  <2>1. ASSUME NEW x \in ToSet(s) PROVE x \in ToSet(Tail(s)) \cup {Head(s)}
    <3>1. PICK j \in 1 .. Len(s) : x = s[j]
      BY <1>1 DEF ToSet
    <3>2. CASE j = 1
      BY <1>1, <3>1, <3>2
    <3>3. CASE j # 1
      <4>1. j - 1 \in 1 .. Len(s) - 1 /\ Tail(s)[j - 1] = s[j]
        BY <1>2, <1>4, <3>3
      <4>2. QED
        BY <1>2, <3>1, <4>1 DEF ToSet
    <3>4. QED
      BY <3>2, <3>3
  <2>2. ASSUME NEW x \in ToSet(Tail(s)) PROVE x \in ToSet(s)
    BY <1>1, <1>2, <1>3 DEF ToSet
  <2>3. Head(s) \in ToSet(s)
    BY <1>1 DEF ToSet
  <2>4. QED
    BY <2>1, <2>2, <2>3
<1>6. Distinct(s) => Distinct(Tail(s))
  <2> SUFFICES ASSUME Distinct(s), NEW i \in 1 .. Len(s) - 1, NEW j \in 1 .. Len(s) - 1,
                      Tail(s)[i] = Tail(s)[j]
               PROVE  i = j
    BY <1>2 DEF Distinct
  <2>1. s[i + 1] = s[j + 1] /\ i + 1 \in DOMAIN s /\ j + 1 \in DOMAIN s
    BY <1>1, <1>2, <1>3
  <2>2. i + 1 = j + 1
    BY <2>1 DEF Distinct
  <2>3. QED
    BY <2>2
<1>7. Distinct(s) => Head(s) \notin ToSet(Tail(s))
  <2> SUFFICES ASSUME Distinct(s), NEW i \in 1 .. Len(s) - 1, Tail(s)[i] = Head(s)
               PROVE  FALSE
    BY <1>2 DEF ToSet
  <2>1. s[i + 1] = s[1] /\ i + 1 \in DOMAIN s /\ 1 \in DOMAIN s /\ i + 1 # 1
    BY <1>1, <1>2, <1>3
  <2>2. QED
    BY <2>1 DEF Distinct
<1>8. QED
  BY <1>2, <1>5, <1>6, <1>7

(* The works that are somewhere. *)
LEMMA PlacesType ==
    ASSUME NapiTypeOK
    PROVE  /\ ToSet(queue) \subseteq Promises /\ ToSet(executed) \subseteq Promises
           /\ Working \subseteq Promises
           /\ Nobody \notin Promises
<1>1. \A s \in Seq(Promises) : ToSet(s) \subseteq Promises
  BY DEF ToSet
<1>2. Nobody \notin Promises
  BY NapiConstants DEF Promises, Nobody
<1>3. QED
  BY <1>1, <1>2 DEF NapiTypeOK, Working

-----------------------------------------------------------------------------
(* The calls of the binding are calls of the client library. *)

(* A step of the binding is a step of UsbClient, or leaves the library alone. *)
LEMMA NapiStepIsClientStep ==
    ASSUME [NapiNext]_<<vars, napiVars>>
    PROVE  [Next]_vars
<1>1. CASE UNCHANGED <<vars, napiVars>>
  BY <1>1
<1>2. ASSUME NEW p \in Promises, NEW a \in Apis, CallAsync(p, a) \/ CallWithoutWork(p, a)
      PROVE  [Next]_vars
  BY <1>2 DEF CallAsync, CallWithoutWork, Allocate
<1>3. ASSUME NEW p \in Promises, RefuseBulkTransfer(p) PROVE [Next]_vars
  BY <1>3 DEF RefuseBulkTransfer
<1>4. CASE CallConnecting \/ CallPipe \/ CallStep(main)
  <2>1. main \in Callers
    BY NapiConstants
  <2>2. Begin(main) \/ CallStep(main)
    BY <1>4 DEF CallConnecting, CallPipe, Begin
  <2>3. QED
    BY <2>1, <2>2 DEF Next
<1>5. CASE WriteArray \/ Complete
  BY <1>5 DEF WriteArray, Complete
<1>6. ASSUME NEW w \in Workers, Worker(w) PROVE [Next]_vars
  <2>1. w \in Callers
    BY DEF Workers
  <2>2. CASE Execute(w)
    <3>1. Begin(w)
      BY <2>2 DEF Execute, Begin
    <3>2. QED
      BY <2>1, <3>1 DEF Next
  <2>3. CASE Finish(w)
    BY <2>3 DEF Finish
  <2>4. CASE CallStep(w) \/ NoReply(w)
    BY <2>1, <2>4 DEF Next
  <2>5. QED
    BY <1>6, <2>2, <2>3, <2>4 DEF Worker
<1>7. CASE ServiceDies \/ ServiceStarts
  BY <1>7 DEF Next
<1>8. QED
  BY <1>1, <1>2, <1>3, <1>4, <1>5, <1>6, <1>7 DEF NapiNext

(* So the invariant of UsbClient holds with the binding, too. *)
LEMMA ClientInvStep ==
    ASSUME ClientInv, [NapiNext]_<<vars, napiVars>>
    PROVE  ClientInv'
BY NapiStepIsClientStep, TypeStep, GuardStep, ServedStep DEF ClientInv

(* What the library does for the main thread, or goes on doing for a       *)
(* worker, disturbs nothing of the binding.                                *)
LEMMA LibraryStep ==
    ASSUME OwnInv, TypeOK', UNCHANGED napiVars, \A w \in Workers : kind'[w] = kind[w]
    PROVE  OwnInv'
<1> USE DEF OwnInv, napiVars, contextVars
<1>1. NapiTypeOK' /\ Buffers'
  BY DEF NapiTypeOK, Buffers
<1>2. Working' = Working
  BY DEF Working
<1>3. OnePlace' /\ ContextsAreFreed'
  BY <1>2 DEF OnePlace, ContextsAreFreed, Distinct, ToSet
<1>4. WaitingCopies' /\ SendsWhatWasGiven'
  <2>1. ToSet(queue)' = ToSet(queue) /\ ToSet(executed)' = ToSet(executed)
    BY DEF ToSet
  <2>2. UNCHANGED <<api, buffer, given, sent>>
    OBVIOUS
  <2>3. WaitingCopies'
    BY <2>1, <2>2 DEF WaitingCopies
  <2>4. SendsWhatWasGiven'
    BY <1>2, <2>1, <2>2 DEF SendsWhatWasGiven
  <2>5. QED
    BY <2>3, <2>4
<1>5. JobKinds'
  BY DEF JobKinds
<1>6. ExecutedIsServed' /\ ResolvedIsServed'
  BY DEF ExecutedIsServed, ResolvedIsServed, ToSet
<1>7. QED
  BY <1>1, <1>3, <1>4, <1>5, <1>6

-----------------------------------------------------------------------------
(* The actions of the binding *)

(* A fresh promise is nowhere: it has no context. *)
LEMMA FreshIsNowhere ==
    ASSUME OwnInv, NEW p \in Promises, Fresh(p)
    PROVE  /\ p \notin contexts /\ p \notin ToSet(queue) /\ p \notin Working /\ p \notin ToSet(executed)
BY DEF OwnInv, ContextsAreFreed, Fresh

(* An asynchronous call, with or without its work. *)
LEMMA AllocateStep ==
    ASSUME OwnInv, NEW p \in Promises, NEW a \in Apis, CallAsync(p, a) \/ CallWithoutWork(p, a)
    PROVE  OwnInv'
<1> USE DEF OwnInv, Allocate
<1>1. /\ Allocate(p, a) /\ Fresh(p)
      /\ p \notin contexts /\ p \notin ToSet(queue) /\ p \notin Working /\ p \notin ToSet(executed)
  BY FreshIsNowhere DEF CallAsync, CallWithoutWork
<1>2. /\ queue' \in Seq(Promises) /\ Distinct(queue')
      /\ ToSet(queue) \subseteq ToSet(queue') /\ ToSet(queue') \subseteq ToSet(queue) \cup {p}
  <2>1. CASE CallAsync(p, a)
    <3>1. queue \in Seq(Promises) /\ queue' = Append(queue, p) /\ Distinct(queue)
      BY <2>1 DEF CallAsync, NapiTypeOK, OnePlace
    <3>2. /\ Append(queue, p) \in Seq(Promises)
          /\ ToSet(Append(queue, p)) = ToSet(queue) \cup {p}
          /\ Distinct(Append(queue, p))
      BY <1>1, <3>1, AppendItem
    <3>3. QED
      BY <3>1, <3>2
  <2>2. CASE CallWithoutWork(p, a)
    BY <2>2 DEF CallWithoutWork, NapiTypeOK, OnePlace
  <2>3. QED
    BY <2>1, <2>2
<1>3. Working' = Working /\ UNCHANGED <<executed, job, status, array, sent, done, kind>>
  BY <1>1 DEF Working, vars
<1>4. /\ contexts' = contexts \cup {p}
      /\ copies' \subseteq copies \cup {p}
      /\ promise' = [promise EXCEPT ![p] = "pending"]
      /\ api' = [api EXCEPT ![p] = a]
  BY <1>1
<1>5. array \in Int
  BY DEF NapiTypeOK, Written, Zeros, Received, Promises
<1>6. NapiTypeOK'
  <2>1. TypeOK'
    BY <1>1 DEF NapiTypeOK, TypeOK, vars
  <2>2. api' \in [Promises -> Apis] /\ promise' \in [Promises -> {"none", "pending", "resolved", "rejected"}]
    BY <1>4 DEF NapiTypeOK
  <2>3. contexts' \in SUBSET Promises /\ copies' \in SUBSET contexts'
    BY <1>4 DEF NapiTypeOK
  <2>4. QED
    BY <1>2, <1>3, <2>1, <2>2, <2>3 DEF NapiTypeOK
<1>7. Buffers'
  <2>1. buffer' \in [Promises -> Int \cup {JsArray}]
    BY <1>1, <1>5 DEF Buffers, Buffer
  <2>2. given' \in [Promises -> Int]
    <3>1. given \in [Promises -> Int] /\ Zeros \in Int
      BY DEF Buffers, Zeros
    <3>2. given' = [given EXCEPT ![p] = IF a = "transfer out" THEN array ELSE Zeros]
      BY <1>1
    <3>3. QED
      BY <1>5, <3>1, <3>2
  <2>3. QED
    BY <1>3, <2>1, <2>2 DEF Buffers
<1>8. OnePlace'
  BY <1>1, <1>2, <1>3 DEF OnePlace
<1>9. ContextsAreFreed'
  <2>1. \A q \in contexts' : promise'[q] = "pending"
    BY <1>4 DEF ContextsAreFreed, NapiTypeOK
  <2>2. QED
    <3>1. ToSet(executed') = ToSet(executed)
      BY <1>3
    <3>2. ToSet(queue') \cup Working' \cup ToSet(executed') \subseteq contexts'
      BY <1>2, <1>3, <1>4, <3>1 DEF ContextsAreFreed
    <3>3. copies' \cap (Working' \cup ToSet(executed')) = {}
      BY <1>1, <1>3, <1>4, <3>1 DEF ContextsAreFreed
    <3>4. copies' \subseteq contexts'
      BY <1>6 DEF NapiTypeOK
    <3>5. QED
      BY <2>1, <3>2, <3>3, <3>4 DEF ContextsAreFreed
<1>10. \A q \in Promises : q # p => api'[q] = api[q] /\ promise'[q] = promise[q]
                                    /\ buffer'[q] = buffer[q] /\ given'[q] = given[q]
  BY <1>1 DEF NapiTypeOK, Buffers
<1>11. WaitingCopies'
  <2>1. api'[p] = "transfer out" => buffer'[p] = given'[p]
    BY <1>1 DEF NapiTypeOK, Buffers, Buffer
  <2>2. QED
    BY <1>2, <1>10, <2>1, PlacesType DEF WaitingCopies
<1>12. SendsWhatWasGiven'
  BY <1>1, <1>3, <1>10, PlacesType DEF SendsWhatWasGiven
<1>13. JobKinds'
  <2> SUFFICES ASSUME NEW w \in Workers, job[w] # Nobody, kind[w] = "SetCurrentFunctions"
               PROVE  api'[job[w]] = "SetCurrentFunctions"
    BY <1>3 DEF JobKinds
  <2>1. job[w] \in Working /\ job[w] # p
    BY <1>1 DEF Working
  <2>2. QED
    BY <1>10, <2>1, PlacesType DEF JobKinds
<1>14. ExecutedIsServed'
  BY <1>1, <1>3, <1>10, PlacesType DEF ExecutedIsServed
<1>15. ResolvedIsServed'
  BY <1>3, <1>4, <1>10 DEF ResolvedIsServed, NapiTypeOK
<1>16. QED
  BY <1>6, <1>7, <1>8, <1>9, <1>11, <1>12, <1>13, <1>14, <1>15

(* A bulkTransfer that is refused. *)
LEMMA RefuseStep ==
    ASSUME OwnInv, NEW p \in Promises, RefuseBulkTransfer(p)
    PROVE  OwnInv'
<1> USE DEF OwnInv, RefuseBulkTransfer, contextVars
<1>1. p \notin contexts /\ p \notin ToSet(queue) /\ p \notin Working /\ p \notin ToSet(executed)
  BY FreshIsNowhere
<1>2. Working' = Working /\ ToSet(queue)' = ToSet(queue) /\ ToSet(executed)' = ToSet(executed)
  BY DEF Working, ToSet
<1>3. UNCHANGED <<queue, executed, job, contexts, copies, status, buffer, given, sent, array, done, kind>>
  BY DEF vars
<1>4. \A q \in Promises : q # p => api'[q] = api[q] /\ promise'[q] = promise[q]
  BY DEF NapiTypeOK
<1>5. NapiTypeOK'
  <2>1. TypeOK'
    BY DEF NapiTypeOK, TypeOK, vars
  <2>2. api' \in [Promises -> Apis] /\ promise' \in [Promises -> {"none", "pending", "resolved", "rejected"}]
    BY DEF NapiTypeOK, Apis, Transfers
  <2>3. QED
    BY <1>3, <2>1, <2>2 DEF NapiTypeOK
<1>6. Buffers' /\ OnePlace'
  BY <1>2, <1>3 DEF Buffers, OnePlace, Distinct
<1>7. ContextsAreFreed'
  <2>1. \A q \in contexts : promise'[q] = "pending"
    BY <1>1, <1>4 DEF ContextsAreFreed, NapiTypeOK
  <2>2. QED
    BY <1>2, <1>3, <2>1 DEF ContextsAreFreed
<1>8. WaitingCopies' /\ SendsWhatWasGiven'
  <2>1. \A q \in ToSet(queue) \cup Working \cup ToSet(executed) : api'[q] = api[q]
    BY <1>1, <1>4, PlacesType
  <2>2. WaitingCopies'
    BY <1>2, <1>3, <2>1 DEF WaitingCopies
  <2>3. SendsWhatWasGiven'
    BY <1>2, <1>3, <2>1 DEF SendsWhatWasGiven
  <2>4. QED
    BY <2>2, <2>3
<1>9. JobKinds'
  <2> SUFFICES ASSUME NEW w \in Workers, job[w] # Nobody, kind[w] = "SetCurrentFunctions"
               PROVE  api'[job[w]] = "SetCurrentFunctions"
    BY <1>3 DEF JobKinds
  <2>1. job[w] \in Working /\ job[w] # p
    BY <1>1 DEF Working
  <2>2. QED
    BY <1>4, <2>1, PlacesType DEF JobKinds
<1>10. ExecutedIsServed'
  BY <1>1, <1>2, <1>3, <1>4, PlacesType DEF ExecutedIsServed
<1>11. ResolvedIsServed'
  <2>1. promise'[p] = "rejected"
    BY DEF NapiTypeOK
  <2>2. QED
    BY <1>3, <1>4, <2>1 DEF ResolvedIsServed
<1>12. QED
  BY <1>5, <1>6, <1>7, <1>8, <1>9, <1>10, <1>11

(* JavaScript writes to the array. *)
LEMMA WriteArrayStep ==
    ASSUME OwnInv, WriteArray
    PROVE  OwnInv'
<1> USE DEF OwnInv, contextVars
<1>1. UNCHANGED <<vars, api, promise, queue, job, executed, contexts, copies, status, buffer, given, sent, done>>
  BY DEF WriteArray
<1>2. Working' = Working /\ ToSet(queue)' = ToSet(queue) /\ ToSet(executed)' = ToSet(executed)
  BY <1>1 DEF Working, ToSet
<1>3. NapiTypeOK'
  <2>1. TypeOK'
    BY <1>1 DEF NapiTypeOK, TypeOK, vars
  <2>2. array' \in Written
    BY DEF WriteArray
  <2>3. QED
    BY <1>1, <2>1, <2>2 DEF NapiTypeOK
<1>4. Buffers' /\ OnePlace'
  BY <1>1, <1>2 DEF Buffers, OnePlace, Distinct
<1>5. ContextsAreFreed' /\ WaitingCopies'
  BY <1>1, <1>2 DEF ContextsAreFreed, WaitingCopies
<1>6. SendsWhatWasGiven'
  BY <1>1, <1>2 DEF SendsWhatWasGiven
<1>7. JobKinds' /\ ExecutedIsServed' /\ ResolvedIsServed'
  BY <1>1, <1>2 DEF JobKinds, ExecutedIsServed, ResolvedIsServed, vars
<1>8. QED
  BY <1>3, <1>4, <1>5, <1>6, <1>7

(* The completion of a work settles its promise. *)
LEMMA CompleteStep ==
    ASSUME OwnInv, Complete
    PROVE  OwnInv'
<1> USE DEF OwnInv
<1> DEFINE p == Head(executed)
<1>1. /\ executed # <<>> /\ executed' = Tail(executed)
      /\ promise' = [promise EXCEPT ![p] = IF status[p] = "napi_ok" THEN "resolved" ELSE "rejected"]
      /\ contexts' = contexts \ {p}
      /\ status' = [status EXCEPT ![p] = "napi_ok"]
      /\ buffer' = [buffer EXCEPT ![p] = JsArray]
      /\ given' = [given EXCEPT ![p] = Zeros]
      /\ sent' = [sent EXCEPT ![p] = Zeros]
      /\ UNCHANGED <<vars, api, queue, job, copies, array, done>>
  BY DEF Complete
<1>2. /\ p \in Promises /\ executed' \in Seq(Promises) /\ Distinct(executed')
      /\ ToSet(executed) = ToSet(executed') \cup {p} /\ p \notin ToSet(executed')
  <2>1. executed \in Seq(Promises) /\ Distinct(executed)
    BY DEF NapiTypeOK, OnePlace
  <2>2. /\ Head(executed) \in Promises /\ Tail(executed) \in Seq(Promises)
        /\ ToSet(executed) = ToSet(Tail(executed)) \cup {Head(executed)}
        /\ Distinct(Tail(executed)) /\ Head(executed) \notin ToSet(Tail(executed))
    BY <1>1, <2>1, TakeItem
  <2>3. QED
    BY <1>1, <2>2
<1> HIDE DEF p
<1>3. Working' = Working /\ queue' = queue /\ ToSet(queue)' = ToSet(queue)
  BY <1>1 DEF Working, ToSet
<1>4. p \notin ToSet(queue) /\ p \notin Working /\ p \notin copies
  BY <1>2 DEF OnePlace, ContextsAreFreed
<1>5. \A q \in Promises : q # p => /\ promise'[q] = promise[q] /\ status'[q] = status[q]
                                   /\ buffer'[q] = buffer[q] /\ given'[q] = given[q] /\ sent'[q] = sent[q]
  BY <1>1 DEF NapiTypeOK, Buffers
<1>6. NapiTypeOK'
  <2>1. TypeOK'
    BY <1>1 DEF NapiTypeOK, TypeOK, vars
  <2>2. promise' \in [Promises -> {"none", "pending", "resolved", "rejected"}]
    BY <1>1 DEF NapiTypeOK
  <2>3. status' \in [Promises -> {"napi_ok", "napi_generic_failure"}]
    BY <1>1 DEF NapiTypeOK
  <2>4. contexts' \in SUBSET Promises /\ copies' \in SUBSET contexts'
    BY <1>1, <1>4 DEF NapiTypeOK
  <2>5. QED
    BY <1>1, <1>2, <2>1, <2>2, <2>3, <2>4 DEF NapiTypeOK
<1>7. Buffers'
  <2>1. Zeros \in Int
    BY DEF Zeros
  <2>2. QED
    BY <1>1, <2>1 DEF Buffers
<1>8. OnePlace'
  BY <1>1, <1>2, <1>3 DEF OnePlace
<1>9. ContextsAreFreed'
  <2>1. ToSet(queue') \cup Working' \cup ToSet(executed') \subseteq contexts'
    BY <1>1, <1>2, <1>3, <1>4 DEF ContextsAreFreed
  <2>2. \A q \in contexts' : promise'[q] = "pending"
    BY <1>1, <1>5 DEF ContextsAreFreed, NapiTypeOK
  <2>3. copies' \cap (Working' \cup ToSet(executed')) = {}
    BY <1>1, <1>2, <1>3 DEF ContextsAreFreed
  <2>4. copies' \subseteq contexts'
    BY <1>1, <1>4 DEF ContextsAreFreed
  <2>5. QED
    BY <2>1, <2>2, <2>3, <2>4 DEF ContextsAreFreed
<1>10. WaitingCopies'
  BY <1>1, <1>3, <1>4, <1>5, PlacesType DEF WaitingCopies
<1>11. SendsWhatWasGiven'
  <2> SUFFICES ASSUME NEW q \in Working' \cup ToSet(executed'), api'[q] = "transfer out"
               PROVE  sent'[q] = given'[q]
    BY DEF SendsWhatWasGiven
  <2>1. q # p /\ q \in Working \cup ToSet(executed) /\ api[q] = "transfer out"
    BY <1>1, <1>2, <1>3, <1>4
  <2>2. QED
    BY <1>5, <2>1, PlacesType DEF SendsWhatWasGiven
<1>12. JobKinds'
  BY <1>1 DEF JobKinds, vars
<1>13. ExecutedIsServed'
  BY <1>1, <1>2, <1>5, PlacesType DEF ExecutedIsServed
<1>14. ResolvedIsServed'
  <2> SUFFICES ASSUME NEW q \in Promises, promise'[q] = "resolved", api[q] # "SetCurrentFunctions"
               PROVE  q \in done
    BY <1>1 DEF ResolvedIsServed
  <2>1. CASE q = p
    <3>1. status[p] = "napi_ok"
      BY <1>1, <1>2, <2>1 DEF NapiTypeOK
    <3>2. QED
      BY <1>2, <2>1, <3>1 DEF ExecutedIsServed
  <2>2. CASE q # p
    BY <1>5, <2>2 DEF ResolvedIsServed
  <2>3. QED
    BY <2>1, <2>2
<1>15. QED
  BY <1>6, <1>7, <1>8, <1>9, <1>10, <1>11, <1>12, <1>13, <1>14

(* A worker takes a work. *)
LEMMA ExecuteStep ==
    ASSUME OwnInv, TypeOK', NEW w \in Workers, Execute(w)
    PROVE  OwnInv'
<1> USE DEF OwnInv
<1> DEFINE p == Head(queue)
<1>1. /\ job[w] = Nobody /\ queue # <<>> /\ queue' = Tail(queue)
      /\ job' = [job EXCEPT ![w] = p]
      /\ \/ api[p] = "RequestRight" /\ BeginRequestRight(w)
         \/ api[p] = "SetCurrentFunctions" /\ BeginSetCurrentFunctions(w)
         \/ api[p] \in Transfers /\ BeginPipe(w)
      /\ sent' = IF api[p] = "transfer out"
                 THEN [sent EXCEPT ![p] = IF buffer[p] = JsArray THEN array ELSE buffer[p]]
                 ELSE sent
      /\ copies' = copies \ {p}
      /\ UNCHANGED <<api, promise, executed, contexts, status, buffer, array, given, done>>
  BY DEF Execute, FreeCopy
<1>2. /\ p \in Promises /\ queue' \in Seq(Promises) /\ Distinct(queue')
      /\ ToSet(queue) = ToSet(queue') \cup {p} /\ p \notin ToSet(queue')
  <2>1. queue \in Seq(Promises) /\ Distinct(queue)
    BY DEF NapiTypeOK, OnePlace
  <2>2. /\ Head(queue) \in Promises /\ Tail(queue) \in Seq(Promises)
        /\ ToSet(queue) = ToSet(Tail(queue)) \cup {Head(queue)}
        /\ Distinct(Tail(queue)) /\ Head(queue) \notin ToSet(Tail(queue))
    BY <1>1, <2>1, TakeItem
  <2>3. QED
    BY <1>1, <2>2
<1> HIDE DEF p
<1>3. p # Nobody /\ w \in Callers /\ p \notin Working /\ p \notin ToSet(executed)
  BY <1>2, PlacesType DEF Workers, OnePlace
<1>4. job'[w] = p /\ \A v \in Workers : v # w => job'[v] = job[v]
  BY <1>1 DEF NapiTypeOK
<1>5. Working' = Working \cup {p}
  BY <1>1, <1>3, <1>4 DEF Working
<1>6. /\ kind'[w] = "SetCurrentFunctions" => api[p] = "SetCurrentFunctions"
      /\ \A v \in Workers : v # w => kind'[v] = kind[v]
  <2>1. kind \in [Callers -> Kinds]
    BY DEF NapiTypeOK, TypeOK
  <2>2. CASE api[p] = "RequestRight" /\ BeginRequestRight(w)
    BY <1>3, <2>1, <2>2 DEF BeginRequestRight, Workers
  <2>3. CASE api[p] = "SetCurrentFunctions" /\ BeginSetCurrentFunctions(w)
    BY <1>3, <2>1, <2>3 DEF BeginSetCurrentFunctions, Workers
  <2>4. CASE api[p] \in Transfers /\ BeginPipe(w)
    BY <1>3, <2>1, <2>4 DEF BeginPipe, Workers
  <2>5. QED
    BY <1>1, <2>2, <2>3, <2>4
<1>7. array \in Int
  BY DEF NapiTypeOK, Written, Zeros, Received, Promises
<1>8. NapiTypeOK'
  <2>1. job' \in [Workers -> Promises \cup {Nobody}]
    BY <1>1, <1>2 DEF NapiTypeOK
  <2>2. copies' \in SUBSET contexts'
    BY <1>1 DEF NapiTypeOK
  <2>3. QED
    BY <1>1, <1>2, <2>1, <2>2 DEF NapiTypeOK
<1>9. Buffers'
  <2>1. sent' \in [Promises -> Int \cup {JsArray}]
    BY <1>1, <1>2, <1>7 DEF Buffers
  <2>2. QED
    BY <1>1, <2>1 DEF Buffers
<1>10. OnePlace'
  <2>1. \A u, v \in Workers : job'[u] = job'[v] /\ job'[u] # Nobody => u = v
    <3>1. \A v \in Workers : v # w => job'[v] # p
      BY <1>3, <1>4 DEF Working
    <3>2. QED
      BY <1>4, <3>1 DEF OnePlace
  <2>2. ToSet(executed') = ToSet(executed) /\ Distinct(executed')
    BY <1>1 DEF OnePlace
  <2>3. QED
    BY <1>2, <1>3, <1>5, <2>1, <2>2 DEF OnePlace
<1>11. ContextsAreFreed'
  <2>1. ToSet(queue') \cup Working' \cup ToSet(executed') \subseteq contexts'
    BY <1>1, <1>2, <1>5 DEF ContextsAreFreed
  <2>2. copies' \cap (Working' \cup ToSet(executed')) = {}
    BY <1>1, <1>5 DEF ContextsAreFreed
  <2>3. QED
    BY <1>1, <2>1, <2>2 DEF ContextsAreFreed
<1>12. WaitingCopies'
  BY <1>1, <1>2 DEF WaitingCopies
<1>13. SendsWhatWasGiven'
  <2> SUFFICES ASSUME NEW q \in Working' \cup ToSet(executed'), api[q] = "transfer out"
               PROVE  sent'[q] = given[q]
    BY <1>1 DEF SendsWhatWasGiven
  <2>1. CASE q = p
    <3>1. buffer[p] = given[p] /\ given[p] \in Int
      BY <1>2, <2>1 DEF WaitingCopies, Buffers
    <3>2. buffer[p] # JsArray
      BY <3>1, NapiConstants
    <3>3. sent'[p] = buffer[p]
      BY <1>1, <1>2, <2>1, <3>2 DEF Buffers
    <3>4. QED
      BY <2>1, <3>1, <3>3
  <2>2. CASE q # p
    <3>1. q \in Working \cup ToSet(executed) /\ q \in Promises
      BY <1>1, <1>5, <2>2, PlacesType
    <3>2. sent'[q] = sent[q]
      BY <1>1, <2>2, <3>1 DEF Buffers
    <3>3. QED
      BY <3>1, <3>2 DEF SendsWhatWasGiven
  <2>3. QED
    BY <2>1, <2>2
<1>14. JobKinds'
  BY <1>1, <1>4, <1>6 DEF JobKinds
<1>15. ExecutedIsServed' /\ ResolvedIsServed'
  BY <1>1 DEF ExecutedIsServed, ResolvedIsServed
<1>16. QED
  BY <1>8, <1>9, <1>10, <1>11, <1>12, <1>13, <1>14, <1>15

(* A worker's call has returned. *)
LEMMA FinishStep ==
    ASSUME OwnInv, OkMeansServed, NEW w \in Workers, Finish(w)
    PROVE  OwnInv'
<1> USE DEF OwnInv
<1> DEFINE p == job[w]
           receives == api[p] = "transfer in" /\ result[w] = OK
<1>1. PICK fits \in IF receives THEN BOOLEAN ELSE {TRUE} :
          /\ status' = [status EXCEPT ![p] = Status(w, fits)]
          /\ array' = IF receives THEN IF fits THEN Received(p) ELSE Zeros ELSE array
  BY DEF Finish
<1>2. /\ p # Nobody
      /\ done' = IF w \in served THEN done \cup {p} ELSE done
      /\ executed' = Append(executed, p)
      /\ job' = [job EXCEPT ![w] = Nobody]
      /\ UNCHANGED <<vars, api, promise, queue, contexts, copies, buffer, given, sent>>
  BY DEF Finish
<1>3. p \in Promises /\ p \in Working /\ p \notin ToSet(queue) /\ p \notin ToSet(executed)
  <2>1. p \in Promises
    BY <1>2 DEF NapiTypeOK
  <2>2. p \in Working
    BY <1>2 DEF Working
  <2>3. QED
    BY <2>1, <2>2 DEF OnePlace
<1>4. job'[w] = Nobody /\ \A v \in Workers : v # w => job'[v] = job[v] /\ (job[v] = p => FALSE)
  BY <1>2 DEF NapiTypeOK, OnePlace
<1> HIDE DEF p, receives
<1>5. Working' = Working \ {p}
  <2>1. \A v \in Workers : job[v] = p => v = w
    BY <1>4
  <2>2. job[w] = p
    BY DEF p
  <2>3. QED
    BY <1>2, <1>4, <2>1, <2>2 DEF Working
<1>6. /\ executed' \in Seq(Promises) /\ Distinct(executed')
      /\ ToSet(executed') = ToSet(executed) \cup {p}
  <2>1. executed \in Seq(Promises) /\ Distinct(executed)
    BY DEF NapiTypeOK, OnePlace
  <2>2. /\ Append(executed, p) \in Seq(Promises) /\ Distinct(Append(executed, p))
        /\ ToSet(Append(executed, p)) = ToSet(executed) \cup {p}
    BY <1>3, <2>1, AppendItem
  <2>3. QED
    BY <1>2, <2>2
<1>7. ToSet(queue') = ToSet(queue) /\ Distinct(queue')
  BY <1>2 DEF OnePlace
<1>8. NapiTypeOK'
  <2>1. TypeOK'
    BY <1>2 DEF NapiTypeOK, TypeOK, vars
  <2>2. status' \in [Promises -> {"napi_ok", "napi_generic_failure"}]
    BY <1>1 DEF NapiTypeOK, Status
  <2>3. array' \in Written \cup {Received(q) : q \in Promises}
    BY <1>1, <1>3 DEF NapiTypeOK, Written
  <2>4. job' \in [Workers -> Promises \cup {Nobody}] /\ done' \in SUBSET Promises
    BY <1>2, <1>3 DEF NapiTypeOK
  <2>5. QED
    BY <1>2, <1>6, <2>1, <2>2, <2>3, <2>4 DEF NapiTypeOK
<1>9. Buffers'
  BY <1>2 DEF Buffers
<1>10. OnePlace'
  <2>1. \A u, v \in Workers : job'[u] = job'[v] /\ job'[u] # Nobody => u = v
    BY <1>4 DEF OnePlace
  <2>2. QED
    BY <1>3, <1>5, <1>6, <1>7, <2>1 DEF OnePlace
<1>11. ContextsAreFreed'
  <2>1. p \in contexts /\ p \notin copies
    BY <1>3 DEF ContextsAreFreed
  <2>2. ToSet(queue') \cup Working' \cup ToSet(executed') \subseteq contexts'
    BY <1>2, <1>5, <1>6, <1>7, <2>1 DEF ContextsAreFreed
  <2>3. copies' \cap (Working' \cup ToSet(executed')) = {}
    BY <1>2, <1>5, <1>6, <2>1 DEF ContextsAreFreed
  <2>4. QED
    BY <1>2, <2>2, <2>3 DEF ContextsAreFreed
<1>12. WaitingCopies'
  BY <1>2, <1>7 DEF WaitingCopies
<1>13. SendsWhatWasGiven'
  BY <1>2, <1>3, <1>5, <1>6 DEF SendsWhatWasGiven
<1>14. JobKinds'
  BY <1>2, <1>4 DEF JobKinds, vars
<1>15. ExecutedIsServed'
  <2> SUFFICES ASSUME NEW q \in ToSet(executed'), status'[q] = "napi_ok", api[q] # "SetCurrentFunctions"
               PROVE  q \in done'
    BY <1>2 DEF ExecutedIsServed
  <2>1. CASE q = p
    <3>1. Status(w, fits) = "napi_ok"
      BY <1>1, <1>3, <2>1 DEF NapiTypeOK
    <3>2. result[w] = OK
      BY <3>1 DEF Status
    <3>3. kind[w] # "SetCurrentFunctions"
      BY <1>2, <2>1 DEF JobKinds, p
    <3>4. w \in served
      BY <3>2, <3>3 DEF OkMeansServed, Workers
    <3>5. QED
      BY <1>2, <2>1, <3>4
  <2>2. CASE q # p
    <3>1. q \in ToSet(executed) /\ q \in Promises
      BY <1>6, <2>2, PlacesType
    <3>2. status'[q] = status[q]
      BY <1>1, <2>2, <3>1 DEF NapiTypeOK
    <3>3. QED
      BY <1>2, <3>1, <3>2 DEF ExecutedIsServed
  <2>3. QED
    BY <2>1, <2>2
<1>16. ResolvedIsServed'
  BY <1>2 DEF ResolvedIsServed
<1>17. QED
  BY <1>8, <1>9, <1>10, <1>11, <1>12, <1>13, <1>14, <1>15, <1>16

-----------------------------------------------------------------------------

(* Every step keeps the invariant. *)
LEMMA NapiInvStep ==
    ASSUME NapiInv, [NapiNext]_<<vars, napiVars>>
    PROVE  NapiInv'
<1>1. ClientInv' /\ TypeOK' /\ OwnInv /\ OkMeansServed
  BY ClientInvStep DEF NapiInv, ClientInv
<1>2. kind \in [Callers -> Kinds] /\ main \notin Workers
  BY DEF NapiInv, ClientInv, TypeOK, Workers
<1>3. OwnInv'
  <2>1. CASE UNCHANGED <<vars, napiVars>>
    BY <1>1, <2>1, LibraryStep DEF vars
  <2>2. ASSUME NEW p \in Promises, NEW a \in Apis, CallAsync(p, a) \/ CallWithoutWork(p, a)
        PROVE  OwnInv'
    BY <1>1, <2>2, AllocateStep
  <2>3. ASSUME NEW p \in Promises, RefuseBulkTransfer(p) PROVE OwnInv'
    BY <1>1, <2>3, RefuseStep
  <2>4. CASE CallConnecting \/ CallPipe
    <3>1. UNCHANGED napiVars /\ \A w \in Workers : kind'[w] = kind[w]
      BY <1>2, <2>4 DEF CallConnecting, CallPipe, BeginConnecting, BeginPipe, Workers
    <3>2. QED
      BY <1>1, <3>1, LibraryStep
  <2>5. ASSUME NEW c \in Callers, CallStep(c) \/ NoReply(c), UNCHANGED napiVars PROVE OwnInv'
    <3>1. kind' = kind
      BY <2>5 DEF CallStep, Connect, ConnectLookup, Send, Reply, NoReply
    <3>2. QED
      BY <1>1, <2>5, <3>1, LibraryStep
  <2>6. CASE WriteArray
    BY <1>1, <2>6, WriteArrayStep
  <2>7. CASE Complete
    BY <1>1, <2>7, CompleteStep
  <2>8. ASSUME NEW w \in Workers, Worker(w) PROVE OwnInv'
    <3>1. w \in Callers
      BY DEF Workers
    <3>2. QED
      BY <1>1, <2>5, <2>8, <3>1, ExecuteStep, FinishStep DEF Worker
  <2>9. CASE (ServiceDies \/ ServiceStarts) /\ UNCHANGED napiVars
    BY <1>1, <2>9, LibraryStep DEF ServiceDies, ServiceStarts
  <2>10. QED
    <3>1. main \in Callers
      BY NapiConstants
    <3>2. QED
      BY <2>1, <2>2, <2>3, <2>4, <2>5, <2>6, <2>7, <2>8, <2>9, <3>1 DEF NapiNext
<1>4. QED
  BY <1>1, <1>3 DEF NapiInv

(* The binding begins with nothing under way. *)
LEMMA NapiInvInit ==
    ASSUME NapiInit
    PROVE  NapiInv
<1> USE DEF NapiInit
<1>1. ClientInv
  BY InitStep
<1>2. ToSet(queue) = {} /\ ToSet(executed) = {} /\ Working = {} /\ Distinct(queue) /\ Distinct(executed)
  BY DEF ToSet, Working, Distinct
<1>3. NapiTypeOK
  <2>1. TypeOK
    BY <1>1 DEF ClientInv
  <2>2. QED
    BY <2>1 DEF NapiTypeOK, Apis, Written
<1>4. Buffers
  BY DEF Buffers, Zeros
<1>5. OnePlace /\ ContextsAreFreed /\ WaitingCopies /\ SendsWhatWasGiven
  BY <1>2 DEF OnePlace, ContextsAreFreed, WaitingCopies, SendsWhatWasGiven
<1>6. JobKinds /\ ExecutedIsServed /\ ResolvedIsServed
  BY <1>2 DEF JobKinds, ExecutedIsServed, ResolvedIsServed
<1>7. QED
  BY <1>1, <1>3, <1>4, <1>5, <1>6 DEF NapiInv, OwnInv

(* NapiInv is an invariant of the binding, of its workers and of the       *)
(* library they call, through deaths and restarts of the service.          *)
THEOREM NapiInvariance == NapiSpec => []NapiInv
<1>1. NapiInit => NapiInv
  BY NapiInvInit
<1>2. NapiInv /\ [NapiNext]_<<vars, napiVars>> => NapiInv'
  BY NapiInvStep
<1>3. QED
  BY <1>1, <1>2, PTL DEF NapiSpec

(* The variables of the binding have their types. *)
THEOREM NapiTypes == NapiSpec => []NapiTypeOK
<1>1. NapiInv => NapiTypeOK
  BY DEF NapiInv, OwnInv
<1>2. QED
  BY <1>1, NapiInvariance, PTL

(* A promise is only resolved if the service executed its call: result,    *)
(* status, worker and completion never take one call for another.          *)
THEOREM PromisesAreTruthful == NapiSpec => []ResolvedIsServed
<1>1. NapiInv => ResolvedIsServed
  BY DEF NapiInv, OwnInv
<1>2. QED
  BY <1>1, NapiInvariance, PTL

(* The data of an outgoing transfer is what the array held at the call. *)
THEOREM DataIsCopied == NapiSpec => []SendsWhatWasGiven
<1>1. NapiInv => SendsWhatWasGiven
  BY DEF NapiInv, OwnInv
<1>2. QED
  BY <1>1, NapiInvariance, PTL

(* No context or copy is used after it was deleted, or outlives its work. *)
THEOREM ContextsLiveAsLongAsWorks == NapiSpec => []ContextsAreFreed
<1>1. NapiInv => ContextsAreFreed
  BY DEF NapiInv, OwnInv
<1>2. QED
  BY <1>1, NapiInvariance, PTL

(* The library, used by the main thread and the workers, implements its    *)
(* own specification: what is proved of UsbClient holds of its use here.   *)
THEOREM BindingUsesClient == NapiSpec => Spec
<1>1. NapiInit => Init
  BY DEF NapiInit
<1>2. [NapiNext]_<<vars, napiVars>> => [Next]_vars
  BY NapiStepIsClientStep
<1>3. QED
  BY <1>1, <1>2, PTL DEF NapiSpec, Spec
=============================================================================
