------------------------------ MODULE UsbNapi ------------------------------
(***************************************************************************)
(* The JavaScript binding: requestRight, setPortRoles, setCurrentFunctions *)
(* controlTransfer and bulkTransfer return a promise at once; a worker     *)
(* thread of the engine makes the call of UsbSrvClient, and the completion *)
(* on the main thread settles the promise.  All other functions are calls  *)
(* of UsbSrvClient on the main thread, which waits for them.               *)
(*                                                                         *)
(* Extends UsbClient: its callers are the main thread and the workers, and *)
(* the service may die and start again at any moment.  Queue, workers and  *)
(* event loop of the engine are external.  The transfers of the model use  *)
(* one Uint8Array, which the application keeps until they have settled.    *)
(***************************************************************************)
EXTENDS UsbClient, Integers, SequencesExt

CONSTANTS
    main,        \* the thread that runs JavaScript
    MaxPromises, \* bound: calls that return a promise
    JsArray      \* the pointer to the Uint8Array

ASSUME NapiConstants ==
    /\ main \in Callers
    /\ MaxPromises \in Nat
    /\ JsArray \notin Int

Workers == Callers \ {main}
Promises == 1 .. MaxPromises   \* the n-th call's promise, context and work
Nobody == 0
Zeros == 0
Written == {Zeros, 1}          \* contents of the array that JavaScript writes
Received(p) == -p              \* contents of the array after transfer p came in

(* setPortRoles is a requestRight that the service always answers. *)
Transfers == {"transfer in", "transfer out"}
Apis == {"RequestRight", "SetCurrentFunctions"} \cup Transfers

VARIABLES
    api,        \* the function that made the promise
    promise,    \* what JavaScript sees of it
    queue,      \* works that wait for a worker
    job,        \* the work each worker executes
    executed,   \* works that wait for their completion on the main thread
    contexts,   \* the asyncContexts that are allocated
    copies,     \* those of them whose buffer is an array of their own
    status,     \* asyncContext->status
    buffer,     \* asyncContext->buffer: a pointer to the array, or the contents of the copy
    array,      \* contents of the array: what JavaScript wrote, or what a transfer received
    given,      \* history: its contents when the transfer was called
    sent,       \* history: what the worker gave to UsbSrvClient
    done        \* history: the works whose call the service executed

contextVars == <<contexts, copies, status, buffer>>
napiVars == <<api, promise, queue, job, executed, contextVars, array, given, sent, done>>

NapiInit ==
    /\ Init
    /\ kind = [c \in Callers |-> "connecting"]
    /\ api = [p \in Promises |-> "RequestRight"]
    /\ promise = [p \in Promises |-> "none"]
    /\ queue = <<>> /\ executed = <<>>
    /\ job = [w \in Workers |-> Nobody]
    /\ contexts = {} /\ copies = {}
    /\ status = [p \in Promises |-> "napi_ok"]
    /\ buffer = [p \in Promises |-> JsArray]
    /\ array = Zeros
    /\ given = [p \in Promises |-> Zeros]
    /\ sent = [p \in Promises |-> Zeros]
    /\ done = {}

-----------------------------------------------------------------------------
(* The main thread, between its calls of UsbSrvClient. *)

JavaScript == pc[main] = "idle"

(* p is the promise of the next call. *)
Fresh(p) == promise[p] = "none" /\ \A q \in 1 .. p - 1 : promise[q] # "none"

(* Mutant of Buffer: every transfer keeps the pointer. *)
BufferShared(a) == JsArray

(* What a transfer keeps: data that goes out is copied by memcpy_s, for    *)
(* data that comes in the pointer of napi_get_typedarray_info is kept.     *)
Buffer(a) == IF a = "transfer out" THEN array ELSE JsArray

Allocate(p, a) ==
    /\ JavaScript
    /\ Fresh(p)
    /\ api' = [api EXCEPT ![p] = a]
    /\ promise' = [promise EXCEPT ![p] = "pending"]
    /\ contexts' = contexts \cup {p}
    /\ copies' = IF a = "transfer out" THEN copies \cup {p} ELSE copies
    /\ buffer' = [buffer EXCEPT ![p] = Buffer(a)]
    /\ given' = [given EXCEPT ![p] = IF a = "transfer out" THEN array ELSE Zeros]
    /\ UNCHANGED <<vars, job, executed, status, array, sent, done>>

CallAsync(p, a) == Allocate(p, a) /\ queue' = Append(queue, p)

(* Mutant of CallWithoutWork: the context is deleted, the copy is not. *)
CallWithoutWorkForgets(p, a) ==
    /\ JavaScript
    /\ Fresh(p)
    /\ api' = [api EXCEPT ![p] = a]
    /\ promise' = [promise EXCEPT ![p] = "pending"]
    /\ copies' = IF a = "transfer out" THEN copies \cup {p} ELSE copies
    /\ UNCHANGED <<vars, queue, job, executed, contexts, status, buffer, array, given, sent, done>>

(* The engine makes no work.  Only bulkTransfer looks at that, and does as *)
(* the others do: it returns a promise nobody will settle.                 *)
CallWithoutWork(p, a) == Allocate(p, a) /\ UNCHANGED queue

(* bulkTransfer with arguments of a wrong kind, an empty array among them. *)
RefuseBulkTransfer(p) ==
    /\ JavaScript
    /\ Fresh(p)
    /\ api' = [api EXCEPT ![p] = "transfer in"]
    /\ promise' = [promise EXCEPT ![p] = "rejected"]
    /\ UNCHANGED <<vars, queue, job, executed, contextVars, array, given, sent, done>>

(* The functions that return no promise: getDevices to getSupportedModes,  *)
(* getRawDescriptor and getFileDescriptor ...                              *)
CallConnecting ==
    /\ JavaScript
    /\ BeginConnecting(main)
    /\ UNCHANGED napiVars

(* ... and claimInterface to setConfiguration and closePipe. *)
CallPipe ==
    /\ JavaScript
    /\ BeginPipe(main)
    /\ UNCHANGED napiVars

WriteArray ==
    /\ JavaScript
    /\ array' \in Written \ {array}
    /\ UNCHANGED <<vars, api, promise, queue, job, executed, contextVars, given, sent, done>>

(* g_...Complete.  What belonged to the deleted context is forgotten. *)
Complete ==
    /\ JavaScript
    /\ executed # <<>>
    /\ LET p == Head(executed) IN
       /\ promise' = [promise EXCEPT ![p] = IF status[p] = "napi_ok" THEN "resolved" ELSE "rejected"]
       /\ contexts' = contexts \ {p}
       /\ status' = [status EXCEPT ![p] = "napi_ok"]
       /\ buffer' = [buffer EXCEPT ![p] = JsArray]
       /\ given' = [given EXCEPT ![p] = Zeros]
       /\ sent' = [sent EXCEPT ![p] = Zeros]
    /\ executed' = Tail(executed)
    /\ UNCHANGED <<vars, api, queue, job, copies, array, done>>

-----------------------------------------------------------------------------
(* The workers: g_...Execute. *)

(* Mutant of FreeCopy: the copy is kept. *)
FreeCopyNever(p) == copies

FreeCopy(p) == copies \ {p}

(* The call of UsbSrvClient begins, with the contents of the buffer. *)
Execute(w) ==
    /\ job[w] = Nobody
    /\ queue # <<>>
    /\ LET p == Head(queue) IN
       /\ job' = [job EXCEPT ![w] = p]
       /\ \/ api[p] = "RequestRight" /\ BeginRequestRight(w)
          \/ api[p] = "SetCurrentFunctions" /\ BeginSetCurrentFunctions(w)
          \/ api[p] \in Transfers /\ BeginPipe(w)
       /\ sent' = IF api[p] = "transfer out"
                  THEN [sent EXCEPT ![p] = IF buffer[p] = JsArray THEN array ELSE buffer[p]]
                  ELSE sent
       /\ copies' = FreeCopy(p)
    /\ queue' = Tail(queue)
    /\ UNCHANGED <<api, promise, executed, contexts, status, buffer, array, given, done>>

(* Mutant of Status: only memcpy_s is looked at. *)
StatusOfCopy(w, fits) == IF fits THEN "napi_ok" ELSE "napi_generic_failure"

Status(w, fits) == IF result[w] = OK /\ fits THEN "napi_ok" ELSE "napi_generic_failure"

(* The call has returned.  What a transfer received goes to the array,     *)
(* unless it is larger: then memcpy_s clears the array and fails.          *)
Finish(w) ==
    /\ job[w] # Nobody
    /\ pc[w] = "idle"
    /\ LET p == job[w]
           receives == api[p] = "transfer in" /\ result[w] = OK
       IN
       /\ \E fits \in IF receives THEN BOOLEAN ELSE {TRUE} :
             /\ status' = [status EXCEPT ![p] = Status(w, fits)]
             /\ array' = IF receives THEN IF fits THEN Received(p) ELSE Zeros ELSE array
       /\ done' = IF w \in served THEN done \cup {p} ELSE done
       /\ executed' = Append(executed, p)
    /\ job' = [job EXCEPT ![w] = Nobody]
    /\ UNCHANGED <<vars, api, promise, queue, contexts, copies, buffer, given, sent>>

Worker(w) ==
    \/ Execute(w) \/ Finish(w)
    \/ (CallStep(w) \/ NoReply(w)) /\ UNCHANGED napiVars

NapiNext ==
    \/ \E p \in Promises :
          \/ \E a \in Apis : CallAsync(p, a) \/ CallWithoutWork(p, a)
          \/ RefuseBulkTransfer(p)
    \/ CallConnecting \/ CallPipe
    \/ CallStep(main) /\ UNCHANGED napiVars
    \/ WriteArray \/ Complete
    \/ \E w \in Workers : Worker(w)
    \/ (ServiceDies \/ ServiceStarts) /\ UNCHANGED napiVars

NapiSpec == NapiInit /\ [][NapiNext]_<<vars, napiVars>>

(* Threads run on, mutex_ is granted to each that keeps asking for it, and *)
(* the event loop comes to its completions between the calls JavaScript    *)
(* makes.                                                                  *)
FairNapiSpec ==
    /\ NapiSpec
    /\ SF_<<vars, napiVars>>(Complete)
    /\ \A c \in Callers :
          /\ SF_<<vars, napiVars>>(Connect(c) /\ UNCHANGED napiVars)
          /\ WF_<<vars, napiVars>>(CallStep(c) /\ UNCHANGED napiVars)
    /\ \A w \in Workers : WF_<<vars, napiVars>>(Execute(w) \/ Finish(w))

-----------------------------------------------------------------------------

Working == {job[w] : w \in Workers} \ {Nobody}

NapiTypeOK ==
    /\ TypeOK
    /\ api \in [Promises -> Apis]
    /\ promise \in [Promises -> {"none", "pending", "resolved", "rejected"}]
    /\ queue \in Seq(Promises) /\ executed \in Seq(Promises)
    /\ job \in [Workers -> Promises \cup {Nobody}]
    /\ array \in Written \cup {Received(p) : p \in Promises}
    /\ contexts \in SUBSET Promises /\ copies \in SUBSET contexts
    /\ status \in [Promises -> {"napi_ok", "napi_generic_failure"}]
    /\ done \in SUBSET Promises

(* A promise is only resolved if the service executed its call (but for    *)
(* setCurrentFunctions without a service), through deaths and restarts of  *)
(* the service and whatever the main thread and other workers call.        *)
ResolvedIsServed ==
    \A p \in Promises : promise[p] = "resolved" /\ api[p] # "SetCurrentFunctions" => p \in done

(* Data that goes out is what the array held when the application made the *)
(* transfer, although JavaScript and transfers that come in write to the   *)
(* array before a worker gets to it.                                       *)
SendsWhatWasGiven ==
    \A p \in Working \cup ToSet(executed) : api[p] = "transfer out" => sent[p] = given[p]

(* A context lives as long as its work: the workers and the completion     *)
(* never use one that is deleted, a settled promise leaves none, and a     *)
(* copy does not outlive the moment its worker has taken it.  (A work that *)
(* could not be made leaves both.)                                         *)
ContextsAreFreed ==
    /\ ToSet(queue) \cup Working \cup ToSet(executed) \subseteq contexts
    /\ \A p \in contexts : promise[p] = "pending"
    /\ copies \cap (Working \cup ToSet(executed)) = {}
    /\ copies \subseteq contexts

(* The service keeps the worker of p, or all of them with p behind them.   *)
Stranded(p) ==
    \/ \E w \in Workers : job[w] = p /\ pc[w] = "unanswered"
    \/ p \in ToSet(queue) /\ \A w \in Workers : pc[w] = "unanswered"

(* Every promise whose work was made is settled, whatever dies, restarts   *)
(* and is called meanwhile.  Excepted are the requestRight whose dialog    *)
(* was never shown, which the service never answers, and the works behind  *)
(* them when no worker is left; these, too, when the service dies.         *)
PromisesSettle ==
    \A p \in Promises :
        p \in ToSet(queue) \cup Working \cup ToSet(executed) /\ ~Stranded(p)
            ~> promise[p] \in {"resolved", "rejected"} \/ Stranded(p)
=============================================================================
