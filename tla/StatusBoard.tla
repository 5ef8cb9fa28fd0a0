---------------------------- MODULE StatusBoard ----------------------------
(***************************************************************************)
(* What the status ConfigMap stoker-status-{cr} promises: one entry per    *)
(* gateway, which a write by that gateway's agent replaces without         *)
(* touching any other entry, and which the finalizer's cleanup empties as  *)
(* a whole.  StatusConfigMap, the read-modify-write protocol of the        *)
(* agents, implements it.                                                  *)
(***************************************************************************)

CONSTANTS
    Keys,        \* the gateway names, which are the keys of the ConfigMap
    Values,      \* the serialised GatewayStatus values
    NoStatus     \* the entry of a gateway that has no key in the ConfigMap

VARIABLE board

EmptyBoard == [k \in Keys |-> NoStatus]

Init == board = EmptyBoard

\* An agent reports the status of its gateway.
Put(k, v) == board' = [board EXCEPT ![k] = v]

\* The controller deletes the ConfigMap of a deleted GatewaySync.
Clear == board' = EmptyBoard

Next ==
    \/ \E k \in Keys, v \in Values : Put(k, v)
    \/ Clear

Spec == Init /\ [][Next]_board

=============================================================================
