-------------------------- MODULE UsbRightsProofs --------------------------
(***************************************************************************)
(* Theorems about UsbRights for any number of threads, bundles and         *)
(* devices.                                                                *)
(***************************************************************************)
EXTENDS UsbRights, TLAPS

(* The actions, by who performs them. *)
StepOf(t) ==
    \/ \E d \in Devices, b \in Bundles : RequestRight(t, d, b) \/ OpenDevice(t, d, b)
    \/ RequestRightNoBundle(t) \/ ThreadStep(t) \/ ShowDialogFails(t)
    \/ \E event \in Events : DialogCallback(t, event)
    \/ \E u \in Threads : AddDeviceRightRace(t, u)
    \/ \E d \in Devices : RemoveRightRace(t, d)

(* Every step is one of a thread, a removal, a close, or the death of the service. *)
LEMMA NextCases ==
    ASSUME Next
    PROVE  \/ \E t \in Threads : StepOf(t)
           \/ \E d \in Devices : RemoveRight(d) \/ Close(d)
           \/ ServiceDies
BY DEF Next, StepOf

(* The service starts with variables of their types. *)
LEMMA TypeInit == Init => TypeOK
<1> SUFFICES ASSUME Init PROVE TypeOK
  OBVIOUS
<1>1. /\ rightMap \in [Devices -> SUBSET Bundles]
      /\ agreed \in [Devices -> SUBSET Bundles]
      /\ openedFor \in [Devices -> SUBSET Bundles]
  BY DEF Init
<1>2. /\ pc \in [Threads -> PCs]
      /\ ret \in [Threads -> Rets]
      /\ found \in [Threads -> {"absent", "present", "dangling"}]
  BY DEF Init, PCs, Rets
<1>3. QED
  BY <1>1, <1>2 DEF Init, TypeOK

(* The variables keep their types: rightMap and the per-call locals of every thread. *)
THEOREM TypeCorrect == Spec => []TypeOK
<1>1. Init => TypeOK
  BY TypeInit
<1>2. TypeOK /\ [Next]_vars => TypeOK'
  <2> SUFFICES ASSUME TypeOK, [Next]_vars PROVE TypeOK'
    OBVIOUS
  <2> USE DEF TypeOK, PCs, Rets, OK, DENIED, INVALID, INNER, USBD_ERR, DEAD, Running,
              Go, Return, Take, manager, request, dialog, search, history
  <2>1. CASE UNCHANGED vars
    BY <2>1 DEF vars
  <2>2. ASSUME NEW t \in Threads, StepOf(t) PROVE TypeOK'
    <3>1. ASSUME NEW d \in Devices, NEW b \in Bundles, RequestRight(t, d, b) PROVE TypeOK'
      BY <3>1 DEF RequestRight, Seen, HasRight
    <3>2. ASSUME NEW d \in Devices, NEW b \in Bundles, OpenDevice(t, d, b) PROVE TypeOK'
      BY <3>2 DEF OpenDevice, Seen, HasRight
    <3>3. CASE RequestRightNoBundle(t)
      BY <3>3 DEF RequestRightNoBundle
    <3>4. CASE DialogGate(t)
      BY <3>4 DEF DialogGate
    <3>5. CASE ShowDialog(t)
      BY <3>5 DEF ShowDialog
    <3>6. CASE ShowDialogReturns(t)
      BY <3>6 DEF ShowDialogReturns
    <3>7. CASE Wake(t)
      BY <3>7 DEF Wake
    <3>8. CASE AddDeviceRightFind(t)
      <4>1. CASE Return(t, INVALID) /\ UNCHANGED search
        BY <3>8, <4>1 DEF AddDeviceRightFind
      <4>2. CASE Go(t, "store") /\ met' \in {met, met \cup {t}}
                 /\ \E where \in {"absent", "present"} : found' = [found EXCEPT ![t] = where]
        BY <3>8, <4>2 DEF AddDeviceRightFind
      <4>3. QED
        BY <3>8, <4>1, <4>2 DEF AddDeviceRightFind, Seen, Entry
    <3>9. CASE AddDeviceRightStore(t)
      <4>1. Stored(t) \in SUBSET Bundles
        <5>1. rightMap[dev[t]] \in SUBSET Bundles /\ bundle[t] \in Bundles
          OBVIOUS
        <5>2. QED BY <5>1 DEF Stored
      <4>2. rightMap' \in [Devices -> SUBSET Bundles]
        BY <3>9, <4>1 DEF AddDeviceRightStore
      <4>3. QED BY <3>9, <4>2 DEF AddDeviceRightStore, Meets
    <3>10. CASE Recheck(t)
      BY <3>10 DEF Recheck
    <3>11. CASE OpenDeviceUsbd(t)
      <4>1. openedFor[dev[t]] \cup {bundle[t]} \in SUBSET Bundles
        OBVIOUS
      <4>2. openedFor' \in [Devices -> SUBSET Bundles]
        BY <3>11, <4>1 DEF OpenDeviceUsbd
      <4>3. QED BY <3>11, <4>2 DEF OpenDeviceUsbd
    <3>12. CASE ShowDialogFails(t)
      BY <3>12 DEF ShowDialogFails
    <3>13. ASSUME NEW event \in Events, DialogCallback(t, event) PROVE TypeOK'
      <4>1. Answer(t, event) \in SUBSET Threads
        BY DEF Answer
      <4>2. agreed[dev[t]] \cup {bundle[t]} \in SUBSET Bundles
        OBVIOUS
      <4>3. agreed' \in [Devices -> SUBSET Bundles]
        BY <3>13, <4>2 DEF DialogCallback
      <4>4. QED BY <3>13, <4>1, <4>3 DEF DialogCallback
    <3>14. ASSUME NEW u \in Threads, AddDeviceRightRace(t, u) PROVE TypeOK'
      <4>1. Stored(t) \in SUBSET Bundles
        <5>1. rightMap[dev[t]] \in SUBSET Bundles /\ bundle[t] \in Bundles
          OBVIOUS
        <5>2. QED BY <5>1 DEF Stored
      <4>2. rightMap' \in [Devices -> SUBSET Bundles]
        BY <3>14, <4>1 DEF AddDeviceRightRace
      <4>3. QED BY <3>14, <4>2 DEF AddDeviceRightRace, Racing, Meets
    <3>15. ASSUME NEW d \in Devices, RemoveRightRace(t, d) PROVE TypeOK'
      BY <3>15 DEF RemoveRightRace, Erased, Dangling, Meets
    <3>16. QED
      BY <2>2, <3>1, <3>2, <3>3, <3>4, <3>5, <3>6, <3>7, <3>8, <3>9, <3>10, <3>11, <3>12, <3>13, <3>14, <3>15
      DEF StepOf, ThreadStep
  <2>3. ASSUME NEW d \in Devices, RemoveRight(d) PROVE TypeOK'
    BY <2>3 DEF RemoveRight, Erased, Dangling, Meets
  <2>4. ASSUME NEW d \in Devices, Close(d) PROVE TypeOK'
    BY <2>4 DEF Close
  <2>5. CASE ServiceDies
    BY <2>5 DEF ServiceDies
  <2>6. QED
    BY <2>1, <2>2, <2>3, <2>4, <2>5, NextCases
<1>3. QED
  BY <1>1, <1>2, PTL DEF Spec

-----------------------------------------------------------------------------

(* A call in flight acts on an agreement the user gave for its own bundle  *)
(* and device.                                                             *)
AgreementBehind ==
    \A t \in Threads :
        /\ pc[t] \in {"add", "store", "recheck"} => t \in agree
        /\ t \in agree /\ pc[t] \notin {"idle", "open"} => bundle[t] \in agreed[dev[t]]
        /\ pc[t] = "open" => bundle[t] \in agreed[dev[t]]

(* A dialog belongs to a request that still waits, and a semaphore is      *)
(* posted only after the dialog has gone.                                  *)
DialogsPending ==
    /\ \A t \in dialogs : pc[t] \in {"reply", "wait"} /\ t \notin posted
    /\ \A t \in posted : pc[t] \in {"reply", "wait"}

(* While no write of another thread has met it, AddDeviceRight finds what  *)
(* is there, and what it stored stays.                                     *)
SearchInv ==
    \A t \in Threads \ met :
        /\ pc[t] = "store" => found[t] = Entry(dev[t])
        /\ pc[t] = "recheck" => bundle[t] \in rightMap[dev[t]]

RightsInv ==
    TypeOK /\ AccessNeedsAgreement /\ AgreementBehind /\ DialogsPending /\ DialogIdIsCurrent /\ SearchInv

(* Every step keeps access within what the user agreed to. *)
LEMMA AccessStep ==
    ASSUME RightsInv, [Next]_vars, TypeOK'
    PROVE  AccessNeedsAgreement'
<1> USE DEF RightsInv, TypeOK, AccessNeedsAgreement, AgreementBehind, Go, Return, Take, manager,
            request, dialog, search, history
<1>1. CASE UNCHANGED vars
  BY <1>1 DEF vars
<1>2. ASSUME NEW t \in Threads, StepOf(t) PROVE AccessNeedsAgreement'
  <2>1. ASSUME NEW d \in Devices, NEW b \in Bundles, RequestRight(t, d, b) PROVE AccessNeedsAgreement'
    BY <2>1 DEF RequestRight, Seen, HasRight
  <2>2. ASSUME NEW d \in Devices, NEW b \in Bundles, OpenDevice(t, d, b) PROVE AccessNeedsAgreement'
    BY <2>2 DEF OpenDevice, Seen, HasRight
  <2>3. CASE RequestRightNoBundle(t)
    BY <2>3 DEF RequestRightNoBundle
  <2>4. CASE DialogGate(t)
    BY <2>4 DEF DialogGate
  <2>5. CASE ShowDialog(t)
    BY <2>5 DEF ShowDialog
  <2>6. CASE ShowDialogReturns(t)
    BY <2>6 DEF ShowDialogReturns
  <2>7. CASE Wake(t)
    BY <2>7 DEF Wake
  <2>8. CASE AddDeviceRightFind(t)
    BY <2>8 DEF AddDeviceRightFind, Seen, HasRight
  <2>9. CASE AddDeviceRightStore(t)
    BY <2>9 DEF AddDeviceRightStore, Stored
  <2>10. CASE Recheck(t)
    BY <2>10 DEF Recheck, Seen, HasRight
  <2>11. CASE OpenDeviceUsbd(t)
    BY <2>11 DEF OpenDeviceUsbd
  <2>12. CASE ShowDialogFails(t)
    BY <2>12 DEF ShowDialogFails
  <2>13. ASSUME NEW event \in Events, DialogCallback(t, event) PROVE AccessNeedsAgreement'
    BY <2>13 DEF DialogCallback, Answer, Events, EVENT_ALLOW, EVENT_NOT_ALLOW
  <2>14. ASSUME NEW u \in Threads, AddDeviceRightRace(t, u) PROVE AccessNeedsAgreement'
    BY <2>14 DEF AddDeviceRightRace, Racing, Stored
  <2>15. ASSUME NEW d \in Devices, RemoveRightRace(t, d) PROVE AccessNeedsAgreement'
    BY <2>15 DEF RemoveRightRace, Erased
  <2>16. QED
    BY <1>2, <2>1, <2>2, <2>3, <2>4, <2>5, <2>6, <2>7, <2>8, <2>9, <2>10, <2>11, <2>12, <2>13, <2>14, <2>15
    DEF StepOf, ThreadStep
<1>3. ASSUME NEW d \in Devices, RemoveRight(d) PROVE AccessNeedsAgreement'
  BY <1>3 DEF RemoveRight, Erased
<1>4. ASSUME NEW d \in Devices, Close(d) PROVE AccessNeedsAgreement'
  BY <1>4 DEF Close
<1>5. CASE ServiceDies
  BY <1>5 DEF ServiceDies
<1>6. QED
  BY <1>1, <1>2, <1>3, <1>4, <1>5, NextCases

(* Every step keeps an agreement behind the calls in flight. *)
LEMMA AgreementStep ==
    ASSUME RightsInv, [Next]_vars, TypeOK'
    PROVE  AgreementBehind'
<1> USE DEF RightsInv, TypeOK, AccessNeedsAgreement, AgreementBehind, DialogsPending, Go, Return, Take,
            manager, request, dialog, search, history
<1>1. CASE UNCHANGED vars
  BY <1>1 DEF vars
<1>2. ASSUME NEW t \in Threads, StepOf(t) PROVE AgreementBehind'
  <2>1. ASSUME NEW d \in Devices, NEW b \in Bundles, RequestRight(t, d, b) PROVE AgreementBehind'
    BY <2>1 DEF RequestRight, Seen, HasRight
  <2>2. ASSUME NEW d \in Devices, NEW b \in Bundles, OpenDevice(t, d, b) PROVE AgreementBehind'
    <3>1. /\ \/ pc' = [pc EXCEPT ![t] = "open"] /\ b \in rightMap[d]
             \/ pc' = [pc EXCEPT ![t] = "idle"]
          /\ bundle' = [bundle EXCEPT ![t] = b] /\ dev' = [dev EXCEPT ![t] = d]
          /\ UNCHANGED <<agree, agreed>>
      BY <2>2 DEF OpenDevice, Seen, HasRight
    <3>2. QED
      BY <3>1
  <2>3. CASE RequestRightNoBundle(t)
    BY <2>3 DEF RequestRightNoBundle
  <2>4. CASE DialogGate(t)
    BY <2>4 DEF DialogGate
  <2>5. CASE ShowDialog(t)
    BY <2>5 DEF ShowDialog
  <2>6. CASE ShowDialogReturns(t)
    BY <2>6 DEF ShowDialogReturns
  <2>7. CASE Wake(t)
    BY <2>7 DEF Wake
  <2>8. CASE AddDeviceRightFind(t)
    BY <2>8 DEF AddDeviceRightFind, Seen, HasRight
  <2>9. CASE AddDeviceRightStore(t)
    BY <2>9 DEF AddDeviceRightStore, Stored
  <2>10. CASE Recheck(t)
    BY <2>10 DEF Recheck, Seen, HasRight
  <2>11. CASE OpenDeviceUsbd(t)
    BY <2>11 DEF OpenDeviceUsbd
  <2>12. CASE ShowDialogFails(t)
    BY <2>12 DEF ShowDialogFails
  <2>13. ASSUME NEW event \in Events, DialogCallback(t, event) PROVE AgreementBehind'
    BY <2>13 DEF DialogCallback, Answer, Events, EVENT_ALLOW, EVENT_NOT_ALLOW
  <2>14. ASSUME NEW u \in Threads, AddDeviceRightRace(t, u) PROVE AgreementBehind'
    BY <2>14 DEF AddDeviceRightRace, Racing, Stored
  <2>15. ASSUME NEW d \in Devices, RemoveRightRace(t, d) PROVE AgreementBehind'
    BY <2>15 DEF RemoveRightRace, Erased
  <2>16. QED
    BY <1>2, <2>1, <2>2, <2>3, <2>4, <2>5, <2>6, <2>7, <2>8, <2>9, <2>10, <2>11, <2>12, <2>13, <2>14, <2>15
    DEF StepOf, ThreadStep
<1>3. ASSUME NEW d \in Devices, RemoveRight(d) PROVE AgreementBehind'
  BY <1>3 DEF RemoveRight, Erased
<1>4. ASSUME NEW d \in Devices, Close(d) PROVE AgreementBehind'
  BY <1>4 DEF Close
<1>5. CASE ServiceDies
  BY <1>5 DEF ServiceDies
<1>6. QED
  BY <1>1, <1>2, <1>3, <1>4, <1>5, NextCases

(* Every step keeps dialogs and semaphores with waiting requests. *)
LEMMA DialogsStep ==
    ASSUME RightsInv, [Next]_vars, TypeOK'
    PROVE  DialogsPending'
<1> USE DEF RightsInv, TypeOK, DialogsPending, Go, Return, Take, manager, request, dialog, search, history
<1>1. CASE UNCHANGED vars
  BY <1>1 DEF vars
<1>2. ASSUME NEW t \in Threads, StepOf(t) PROVE DialogsPending'
  <2>1. ASSUME NEW d \in Devices, NEW b \in Bundles, RequestRight(t, d, b) PROVE DialogsPending'
    BY <2>1 DEF RequestRight, Seen, HasRight
  <2>2. ASSUME NEW d \in Devices, NEW b \in Bundles, OpenDevice(t, d, b) PROVE DialogsPending'
    BY <2>2 DEF OpenDevice, Seen, HasRight
  <2>3. CASE RequestRightNoBundle(t)
    BY <2>3 DEF RequestRightNoBundle
  <2>4. CASE DialogGate(t)
    BY <2>4 DEF DialogGate
  <2>5. CASE ShowDialog(t)
    BY <2>5 DEF ShowDialog
  <2>6. CASE ShowDialogReturns(t)
    BY <2>6 DEF ShowDialogReturns
  <2>7. CASE Wake(t)
    BY <2>7 DEF Wake
  <2>8. CASE AddDeviceRightFind(t)
    BY <2>8 DEF AddDeviceRightFind, Seen, HasRight
  <2>9. CASE AddDeviceRightStore(t)
    BY <2>9 DEF AddDeviceRightStore, Stored
  <2>10. CASE Recheck(t)
    BY <2>10 DEF Recheck, Seen, HasRight
  <2>11. CASE OpenDeviceUsbd(t)
    BY <2>11 DEF OpenDeviceUsbd
  <2>12. CASE ShowDialogFails(t)
    BY <2>12 DEF ShowDialogFails
  <2>13. ASSUME NEW event \in Events, DialogCallback(t, event) PROVE DialogsPending'
    BY <2>13 DEF DialogCallback, Answer, Events, EVENT_ALLOW, EVENT_NOT_ALLOW
  <2>14. ASSUME NEW u \in Threads, AddDeviceRightRace(t, u) PROVE DialogsPending'
    BY <2>14 DEF AddDeviceRightRace, Racing, Stored
  <2>15. ASSUME NEW d \in Devices, RemoveRightRace(t, d) PROVE DialogsPending'
    BY <2>15 DEF RemoveRightRace, Erased
  <2>16. QED
    BY <1>2, <2>1, <2>2, <2>3, <2>4, <2>5, <2>6, <2>7, <2>8, <2>9, <2>10, <2>11, <2>12, <2>13, <2>14, <2>15
    DEF StepOf, ThreadStep
<1>3. ASSUME NEW d \in Devices, RemoveRight(d) PROVE DialogsPending'
  BY <1>3 DEF RemoveRight, Erased
<1>4. ASSUME NEW d \in Devices, Close(d) PROVE DialogsPending'
  BY <1>4 DEF Close
<1>5. CASE ServiceDies
  BY <1>5 DEF ServiceDies
<1>6. QED
  BY <1>1, <1>2, <1>3, <1>4, <1>5, NextCases

(* Every step that is not overtaken keeps dialogId_ true to the screen. *)
LEMMA DialogIdStep ==
    ASSUME RightsInv, [Next]_vars, TypeOK'
    PROVE  DialogIdIsCurrent'
<1> USE DEF RightsInv, TypeOK, DialogsPending, DialogIdIsCurrent, Go, Return, Take, manager, request,
            dialog, search, history
<1>1. CASE UNCHANGED vars
  BY <1>1 DEF vars
<1>2. ASSUME NEW t \in Threads, StepOf(t) PROVE DialogIdIsCurrent'
  <2>1. ASSUME NEW d \in Devices, NEW b \in Bundles, RequestRight(t, d, b) PROVE DialogIdIsCurrent'
    BY <2>1 DEF RequestRight, Seen, HasRight
  <2>2. ASSUME NEW d \in Devices, NEW b \in Bundles, OpenDevice(t, d, b) PROVE DialogIdIsCurrent'
    BY <2>2 DEF OpenDevice, Seen, HasRight
  <2>3. CASE RequestRightNoBundle(t)
    BY <2>3 DEF RequestRightNoBundle
  <2>4. CASE DialogGate(t)
    BY <2>4 DEF DialogGate
  <2>5. CASE ShowDialog(t)
    BY <2>5 DEF ShowDialog
  <2>6. CASE ShowDialogReturns(t)
    BY <2>6 DEF ShowDialogReturns
  <2>7. CASE Wake(t)
    BY <2>7 DEF Wake
  <2>8. CASE AddDeviceRightFind(t)
    BY <2>8 DEF AddDeviceRightFind, Seen, HasRight
  <2>9. CASE AddDeviceRightStore(t)
    BY <2>9 DEF AddDeviceRightStore, Stored
  <2>10. CASE Recheck(t)
    BY <2>10 DEF Recheck, Seen, HasRight
  <2>11. CASE OpenDeviceUsbd(t)
    BY <2>11 DEF OpenDeviceUsbd
  <2>12. CASE ShowDialogFails(t)
    BY <2>12 DEF ShowDialogFails
  <2>13. ASSUME NEW event \in Events, DialogCallback(t, event) PROVE DialogIdIsCurrent'
    BY <2>13 DEF DialogCallback
  <2>14. ASSUME NEW u \in Threads, AddDeviceRightRace(t, u) PROVE DialogIdIsCurrent'
    BY <2>14 DEF AddDeviceRightRace, Racing, Stored
  <2>15. ASSUME NEW d \in Devices, RemoveRightRace(t, d) PROVE DialogIdIsCurrent'
    BY <2>15 DEF RemoveRightRace, Erased
  <2>16. QED
    BY <1>2, <2>1, <2>2, <2>3, <2>4, <2>5, <2>6, <2>7, <2>8, <2>9, <2>10, <2>11, <2>12, <2>13, <2>14, <2>15
    DEF StepOf, ThreadStep
<1>3. ASSUME NEW d \in Devices, RemoveRight(d) PROVE DialogIdIsCurrent'
  BY <1>3 DEF RemoveRight, Erased
<1>4. ASSUME NEW d \in Devices, Close(d) PROVE DialogIdIsCurrent'
  BY <1>4 DEF Close
<1>5. CASE ServiceDies
  BY <1>5 DEF ServiceDies
<1>6. QED
  BY <1>1, <1>2, <1>3, <1>4, <1>5, NextCases

(* Every step keeps searches up to date, or is one that meets them. *)
LEMMA SearchStep ==
    ASSUME RightsInv, [Next]_vars, TypeOK'
    PROVE  SearchInv'
<1> USE DEF RightsInv, TypeOK, SearchInv, Entry, Go, Return, Take, manager, request, dialog, search, history
<1>1. CASE UNCHANGED vars
  BY <1>1 DEF vars
<1>2. ASSUME NEW t \in Threads, StepOf(t) PROVE SearchInv'
  <2>1. ASSUME NEW d \in Devices, NEW b \in Bundles, RequestRight(t, d, b) PROVE SearchInv'
    BY <2>1 DEF RequestRight, Seen, HasRight
  <2>2. ASSUME NEW d \in Devices, NEW b \in Bundles, OpenDevice(t, d, b) PROVE SearchInv'
    BY <2>2 DEF OpenDevice, Seen, HasRight
  <2>3. CASE RequestRightNoBundle(t)
    BY <2>3 DEF RequestRightNoBundle
  <2>4. CASE DialogGate(t)
    BY <2>4 DEF DialogGate
  <2>5. CASE ShowDialog(t)
    BY <2>5 DEF ShowDialog
  <2>6. CASE ShowDialogReturns(t)
    BY <2>6 DEF ShowDialogReturns
  <2>7. CASE Wake(t)
    BY <2>7 DEF Wake
  <2>8. CASE AddDeviceRightFind(t)
    <3>1. CASE Return(t, INVALID) /\ UNCHANGED search
      BY <2>8, <3>1 DEF AddDeviceRightFind
    <3>2. CASE Go(t, "store") /\ ~Disturbed(t, dev[t])
      <4>1. found' = [found EXCEPT ![t] = Entry(dev[t])] /\ met' = met
        <5>1. pc'[t] = "store"
          BY <3>2
        <5>2. ~Return(t, INVALID)
          BY <5>1
        <5>3. /\ \E entry \in Seen(t, dev[t], Entry(dev[t]), "absent") : found' = [found EXCEPT ![t] = entry]
              /\ met' = IF Disturbed(t, dev[t]) THEN met \cup {t} ELSE met
          BY <2>8, <5>2 DEF AddDeviceRightFind
        <5>4. Seen(t, dev[t], Entry(dev[t]), "absent") = {Entry(dev[t])}
          BY <3>2 DEF Seen
        <5>5. QED
          BY <3>2, <5>3, <5>4
      <4>2. QED
        BY <2>8, <3>2, <4>1 DEF AddDeviceRightFind
    <3>3. CASE Go(t, "store") /\ Disturbed(t, dev[t])
      <4>1. \A u \in Threads : u # t => found'[u] = found[u] /\ pc'[u] = pc[u]
        BY <2>8, <3>3 DEF AddDeviceRightFind
      <4>2. met' = met \cup {t}
        BY <2>8, <3>3 DEF AddDeviceRightFind
      <4>3. QED
        BY <2>8, <4>1, <4>2 DEF AddDeviceRightFind
    <3>4. QED
      BY <2>8, <3>1, <3>2, <3>3 DEF AddDeviceRightFind
  <2>9. CASE AddDeviceRightStore(t)
    BY <2>9 DEF AddDeviceRightStore, Stored, Meets
  <2>10. CASE Recheck(t)
    BY <2>10 DEF Recheck, Seen, HasRight
  <2>11. CASE OpenDeviceUsbd(t)
    BY <2>11 DEF OpenDeviceUsbd
  <2>12. CASE ShowDialogFails(t)
    BY <2>12 DEF ShowDialogFails
  <2>13. ASSUME NEW event \in Events, DialogCallback(t, event) PROVE SearchInv'
    BY <2>13 DEF DialogCallback, Answer, Events, EVENT_ALLOW, EVENT_NOT_ALLOW
  <2>14. ASSUME NEW u \in Threads, AddDeviceRightRace(t, u) PROVE SearchInv'
    BY <2>14 DEF AddDeviceRightRace, Racing, Stored, Meets
  <2>15. ASSUME NEW d \in Devices, RemoveRightRace(t, d) PROVE SearchInv'
    BY <2>15 DEF RemoveRightRace, Erased, Dangling, Meets
  <2>16. QED
    BY <1>2, <2>1, <2>2, <2>3, <2>4, <2>5, <2>6, <2>7, <2>8, <2>9, <2>10, <2>11, <2>12, <2>13, <2>14, <2>15
    DEF StepOf, ThreadStep
<1>3. ASSUME NEW d \in Devices, RemoveRight(d) PROVE SearchInv'
  BY <1>3 DEF RemoveRight, Erased, Dangling, Meets
<1>4. ASSUME NEW d \in Devices, Close(d) PROVE SearchInv'
  BY <1>4 DEF Close
<1>5. CASE ServiceDies
  BY <1>5 DEF ServiceDies
<1>6. QED
  BY <1>1, <1>2, <1>3, <1>4, <1>5, NextCases

-----------------------------------------------------------------------------

(* The inductive invariant behind the results below holds in every state. *)
THEOREM Invariance == Spec => []RightsInv
<1>1. Init => TypeOK
  BY TypeInit
<1>2. Init => RightsInv
  <2> SUFFICES ASSUME Init PROVE RightsInv
    OBVIOUS
  <2>1. TypeOK
    BY <1>1
  <2>2. AccessNeedsAgreement /\ AgreementBehind /\ DialogsPending
    BY DEF Init, AccessNeedsAgreement, AgreementBehind, DialogsPending
  <2>3. DialogIdIsCurrent
    BY DEF Init, DialogIdIsCurrent
  <2>4. SearchInv
    BY DEF Init, SearchInv
  <2>5. QED
    BY <2>1, <2>2, <2>3, <2>4 DEF RightsInv
<1>3. TypeOK' /\ RightsInv /\ [Next]_vars => RightsInv'
  BY AccessStep, AgreementStep, DialogsStep, DialogIdStep, SearchStep DEF RightsInv
<1>4. QED
  BY <1>2, <1>3, TypeCorrect, PTL DEF Spec

(* No right and no open without the user's agreement, whatever the threads do. *)
THEOREM AccessIsAgreed == Spec => []AccessNeedsAgreement
<1>1. RightsInv => AccessNeedsAgreement
  BY DEF RightsInv
<1>2. QED
  BY <1>1, Invariance, PTL

(* Whatever the order of requests, answers and returns of ShowDialog,      *)
(* dialogId_ does not outlive the dialogs, unless the last to write it was *)
(* overtaken by the answer to its own dialog.                              *)
THEOREM DialogIdStaysCurrent == Spec => []DialogIdIsCurrent
<1>1. RightsInv => DialogIdIsCurrent
  BY DEF RightsInv
<1>2. QED
  BY <1>1, Invariance, PTL

-----------------------------------------------------------------------------

(* A request the user has allowed ends where it sees the right, or where   *)
(* it has just stored it.                                                  *)
LEMMA GrantStep ==
    ASSUME RightsInv, [Next]_vars, TypeOK'
    PROVE  AllowedAreGranted
<1> USE DEF RightsInv, TypeOK, AllowedAreGranted, SearchInv, PCs, DEAD, Go, Return, Take, manager,
            request, dialog, search, history
<1>1. CASE UNCHANGED vars
  BY <1>1 DEF vars
<1>2. ASSUME NEW t \in Threads, StepOf(t) PROVE AllowedAreGranted
  <2>1. ASSUME NEW d \in Devices, NEW b \in Bundles, RequestRight(t, d, b) PROVE AllowedAreGranted
    BY <2>1 DEF RequestRight, Seen, HasRight
  <2>2. ASSUME NEW d \in Devices, NEW b \in Bundles, OpenDevice(t, d, b) PROVE AllowedAreGranted
    BY <2>2 DEF OpenDevice, Seen, HasRight
  <2>3. CASE RequestRightNoBundle(t)
    BY <2>3 DEF RequestRightNoBundle
  <2>4. CASE DialogGate(t)
    BY <2>4 DEF DialogGate
  <2>5. CASE ShowDialog(t)
    BY <2>5 DEF ShowDialog
  <2>6. CASE ShowDialogReturns(t)
    BY <2>6 DEF ShowDialogReturns
  <2>7. CASE Wake(t)
    BY <2>7 DEF Wake
  <2>8. CASE AddDeviceRightFind(t)
    BY <2>8 DEF AddDeviceRightFind, Seen, HasRight
  <2>9. CASE AddDeviceRightStore(t)
    BY <2>9 DEF AddDeviceRightStore, Stored
  <2>10. CASE Recheck(t)
    BY <2>10 DEF Recheck, Seen, HasRight
  <2>11. CASE OpenDeviceUsbd(t)
    BY <2>11 DEF OpenDeviceUsbd
  <2>12. CASE ShowDialogFails(t)
    BY <2>12 DEF ShowDialogFails
  <2>13. ASSUME NEW event \in Events, DialogCallback(t, event) PROVE AllowedAreGranted
    BY <2>13 DEF DialogCallback, Answer, Events, EVENT_ALLOW, EVENT_NOT_ALLOW
  <2>14. ASSUME NEW u \in Threads, AddDeviceRightRace(t, u) PROVE AllowedAreGranted
    BY <2>14 DEF AddDeviceRightRace, Racing, Stored
  <2>15. ASSUME NEW d \in Devices, RemoveRightRace(t, d) PROVE AllowedAreGranted
    BY <2>15 DEF RemoveRightRace, Erased
  <2>16. QED
    BY <1>2, <2>1, <2>2, <2>3, <2>4, <2>5, <2>6, <2>7, <2>8, <2>9, <2>10, <2>11, <2>12, <2>13, <2>14, <2>15
    DEF StepOf, ThreadStep
<1>3. ASSUME NEW d \in Devices, RemoveRight(d) PROVE AllowedAreGranted
  BY <1>3 DEF RemoveRight, Erased
<1>4. ASSUME NEW d \in Devices, Close(d) PROVE AllowedAreGranted
  BY <1>4 DEF Close
<1>5. CASE ServiceDies
  BY <1>5 DEF ServiceDies
<1>6. QED
  BY <1>1, <1>2, <1>3, <1>4, <1>5, NextCases

(* Rights are added only where AddDeviceRight stores, after the request's own agreement. *)
LEMMA OwnAgreementStep ==
    ASSUME RightsInv, [Next]_vars, TypeOK'
    PROVE  NewRightsAgreed
<1> USE DEF RightsInv, TypeOK, NewRightsAgreed, AgreementBehind, Go, Return, Take, manager, request,
            dialog, search, history
<1>1. CASE UNCHANGED vars
  BY <1>1 DEF vars
<1>2. ASSUME NEW t \in Threads, StepOf(t) PROVE NewRightsAgreed
  <2>1. ASSUME NEW d \in Devices, NEW b \in Bundles, RequestRight(t, d, b) PROVE NewRightsAgreed
    BY <2>1 DEF RequestRight, Seen, HasRight
  <2>2. ASSUME NEW d \in Devices, NEW b \in Bundles, OpenDevice(t, d, b) PROVE NewRightsAgreed
    BY <2>2 DEF OpenDevice, Seen, HasRight
  <2>3. CASE RequestRightNoBundle(t)
    BY <2>3 DEF RequestRightNoBundle
  <2>4. CASE DialogGate(t)
    BY <2>4 DEF DialogGate
  <2>5. CASE ShowDialog(t)
    BY <2>5 DEF ShowDialog
  <2>6. CASE ShowDialogReturns(t)
    BY <2>6 DEF ShowDialogReturns
  <2>7. CASE Wake(t)
    BY <2>7 DEF Wake
  <2>8. CASE AddDeviceRightFind(t)
    BY <2>8 DEF AddDeviceRightFind, Seen, HasRight
  <2>9. CASE AddDeviceRightStore(t)
    BY <2>9 DEF AddDeviceRightStore, Stored
  <2>10. CASE Recheck(t)
    BY <2>10 DEF Recheck, Seen, HasRight
  <2>11. CASE OpenDeviceUsbd(t)
    BY <2>11 DEF OpenDeviceUsbd
  <2>12. CASE ShowDialogFails(t)
    BY <2>12 DEF ShowDialogFails
  <2>13. ASSUME NEW event \in Events, DialogCallback(t, event) PROVE NewRightsAgreed
    BY <2>13 DEF DialogCallback, Answer, Events, EVENT_ALLOW, EVENT_NOT_ALLOW
  <2>14. ASSUME NEW u \in Threads, AddDeviceRightRace(t, u) PROVE NewRightsAgreed
    BY <2>14 DEF AddDeviceRightRace, Racing, Stored
  <2>15. ASSUME NEW d \in Devices, RemoveRightRace(t, d) PROVE NewRightsAgreed
    BY <2>15 DEF RemoveRightRace, Erased
  <2>16. QED
    BY <1>2, <2>1, <2>2, <2>3, <2>4, <2>5, <2>6, <2>7, <2>8, <2>9, <2>10, <2>11, <2>12, <2>13, <2>14, <2>15
    DEF StepOf, ThreadStep
<1>3. ASSUME NEW d \in Devices, RemoveRight(d) PROVE NewRightsAgreed
  BY <1>3 DEF RemoveRight, Erased
<1>4. ASSUME NEW d \in Devices, Close(d) PROVE NewRightsAgreed
  BY <1>4 DEF Close
<1>5. CASE ServiceDies
  BY <1>5 DEF ServiceDies
<1>6. QED
  BY <1>1, <1>2, <1>3, <1>4, <1>5, NextCases

(* A request that the user has allowed ends with its bundle holding the    *)
(* right, whatever other requests did before its search and on other       *)
(* devices, unless a write of another thread met it.                       *)
THEOREM AllowedAreAlwaysGranted == Spec => AllowedIsGranted
<1>1. RightsInv /\ TypeOK' /\ [Next]_vars => [AllowedAreGranted]_vars
  BY GrantStep
<1>2. QED
  BY <1>1, Invariance, TypeCorrect, PTL DEF Spec, AllowedIsGranted

(* No right appears but by a request the user agreed to in its own dialog. *)
THEOREM RightsAreAgreed == Spec => RightNeedsOwnAgreement
<1>1. RightsInv /\ TypeOK' /\ [Next]_vars => [NewRightsAgreed]_vars
  BY OwnAgreementStep
<1>2. QED
  BY <1>1, Invariance, TypeCorrect, PTL DEF Spec, RightNeedsOwnAgreement

-----------------------------------------------------------------------------

(* Every step is one the promise allows, or leaves rights and agreements alone. *)
LEMMA PromiseStep ==
    ASSUME RightsInv, [Next]_vars, TypeOK'
    PROVE  [Promise!PromiseNext]_(Promise!promiseVars)
<1> USE DEF RightsInv, TypeOK, AgreementBehind, Promise!PromiseNext, Promise!promiseVars, Promise!Agree,
            Promise!Grant, Promise!Revoke, Promise!Forget, Go, Return, Take, manager, request, dialog, search, history
<1>1. CASE UNCHANGED vars
  BY <1>1 DEF vars
<1>2. ASSUME NEW t \in Threads, StepOf(t) PROVE [Promise!PromiseNext]_(Promise!promiseVars)
  <2>1. ASSUME NEW d \in Devices, NEW b \in Bundles, RequestRight(t, d, b)
        PROVE  [Promise!PromiseNext]_(Promise!promiseVars)
    BY <2>1 DEF RequestRight, Seen, HasRight
  <2>2. ASSUME NEW d \in Devices, NEW b \in Bundles, OpenDevice(t, d, b)
        PROVE  [Promise!PromiseNext]_(Promise!promiseVars)
    BY <2>2 DEF OpenDevice, Seen, HasRight
  <2>3. CASE RequestRightNoBundle(t)
    BY <2>3 DEF RequestRightNoBundle
  <2>4. CASE DialogGate(t)
    BY <2>4 DEF DialogGate
  <2>5. CASE ShowDialog(t)
    BY <2>5 DEF ShowDialog
  <2>6. CASE ShowDialogReturns(t)
    BY <2>6 DEF ShowDialogReturns
  <2>7. CASE Wake(t)
    BY <2>7 DEF Wake
  <2>8. CASE AddDeviceRightFind(t)
    BY <2>8 DEF AddDeviceRightFind, Seen, HasRight
  <2>9. CASE AddDeviceRightStore(t)
    BY <2>9 DEF AddDeviceRightStore, Stored
  <2>10. CASE Recheck(t)
    BY <2>10 DEF Recheck, Seen, HasRight
  <2>11. CASE OpenDeviceUsbd(t)
    BY <2>11 DEF OpenDeviceUsbd
  <2>12. CASE ShowDialogFails(t)
    BY <2>12 DEF ShowDialogFails
  <2>13. ASSUME NEW event \in Events, DialogCallback(t, event) PROVE [Promise!PromiseNext]_(Promise!promiseVars)
    BY <2>13 DEF DialogCallback, Answer, Events, EVENT_ALLOW, EVENT_NOT_ALLOW
  <2>14. ASSUME NEW u \in Threads, AddDeviceRightRace(t, u) PROVE [Promise!PromiseNext]_(Promise!promiseVars)
    BY <2>14 DEF AddDeviceRightRace, Racing, Stored
  <2>15. ASSUME NEW d \in Devices, RemoveRightRace(t, d) PROVE [Promise!PromiseNext]_(Promise!promiseVars)
    BY <2>15 DEF RemoveRightRace, Erased
  <2>16. QED
    BY <1>2, <2>1, <2>2, <2>3, <2>4, <2>5, <2>6, <2>7, <2>8, <2>9, <2>10, <2>11, <2>12, <2>13, <2>14, <2>15
    DEF StepOf, ThreadStep
<1>3. ASSUME NEW d \in Devices, RemoveRight(d) PROVE [Promise!PromiseNext]_(Promise!promiseVars)
  BY <1>3 DEF RemoveRight, Erased
<1>4. ASSUME NEW d \in Devices, Close(d) PROVE [Promise!PromiseNext]_(Promise!promiseVars)
  BY <1>4 DEF Close
<1>5. CASE ServiceDies
  BY <1>5 DEF ServiceDies
<1>6. QED
  BY <1>1, <1>2, <1>3, <1>4, <1>5, NextCases

(* The right management of the service implements RightsPromise. *)
THEOREM Refinement == Spec => KeepsPromise
<1>1. Init => Promise!PromiseInit
  BY DEF Init, Promise!PromiseInit
<1>2. RightsInv /\ TypeOK' /\ [Next]_vars => [Promise!PromiseNext]_(Promise!promiseVars)
  BY PromiseStep
<1>3. QED
  BY <1>1, <1>2, Invariance, TypeCorrect, PTL DEF Spec, KeepsPromise, Promise!PromiseSpec
=============================================================================
