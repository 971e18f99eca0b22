--------------------------- MODULE RightsPromise ---------------------------
(***************************************************************************)
(* What the right management of the USB service promises its users,        *)
(* without threads, dialogs or lists: an application may use a device only *)
(* after the user agreed to it, a right stays until the rights on its      *)
(* device are removed, and removing them takes the rights of every         *)
(* application on that device.                                             *)
(***************************************************************************)
CONSTANTS Bundles,      \* application bundle names
          Devices       \* device names, "bus-address"

VARIABLES rights,       \* rights[d]: the bundles that may use device d
          agreed        \* agreed[d]: the bundles the user ever agreed to for d

promiseVars == <<rights, agreed>>

PromiseInit ==
    /\ rights = [d \in Devices |-> {}]
    /\ agreed = [d \in Devices |-> {}]

Agree(d, b) ==
    /\ agreed' = [agreed EXCEPT ![d] = @ \cup {b}]
    /\ UNCHANGED rights

Grant(d, b) ==
    /\ b \in agreed[d]
    /\ rights' = [rights EXCEPT ![d] = @ \cup {b}]
    /\ UNCHANGED agreed

Revoke(d) ==
    /\ rights' = [rights EXCEPT ![d] = {}]
    /\ UNCHANGED agreed

(* Rights are kept in memory only: a service that dies loses them all. *)
Forget ==
    /\ rights' = [d \in Devices |-> {}]
    /\ UNCHANGED agreed

PromiseNext ==
    \/ \E d \in Devices, b \in Bundles : Agree(d, b) \/ Grant(d, b)
    \/ \E d \in Devices : Revoke(d)
    \/ Forget

PromiseSpec == PromiseInit /\ [][PromiseNext]_promiseVars
=============================================================================
