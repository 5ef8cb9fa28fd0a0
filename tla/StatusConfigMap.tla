-------------------------- MODULE StatusConfigMap --------------------------
(***************************************************************************)
(* internal/agent/configmap.go, WriteStatusConfigMap: how the agents of    *)
(* one GatewaySync write their statuses into the one ConfigMap they share. *)
(* Every call reads the whole ConfigMap, replaces its own key in the copy, *)
(* and writes the copy back; the API server accepts the write only if the  *)
(* copy carries the current resourceVersion.  A conflict starts the next   *)
(* of three attempts.  The other actor is the controller, whose finalizer  *)
(* deletes the ConfigMap.                                                  *)
(*                                                                         *)
(* A writer is a goroutine that calls WriteStatusConfigMap.  An agent has  *)
(* two (the main loop and postCommissionSync), which share a key.          *)
(***************************************************************************)
EXTENDS Naturals

CONSTANTS
    Writers,     \* the goroutines that report a status
    Keys,        \* gateway names
    KeyOf,       \* the gateway name of each writer's agent
    Values,      \* serialised statuses
    NoStatus,    \* "this gateway has no entry"
    MaxAttempts, \* the 3 of "for range 3"
    MaxCalls,    \* bound: calls of all writers together
    MaxDeletes   \* bound: deletions by the finalizer

ASSUME WriterAssumption == KeyOf \in [Writers -> Keys]
ASSUME ValueAssumption == NoStatus \notin Values
ASSUME BoundAssumption ==
    /\ MaxAttempts \in Nat \ {0}
    /\ MaxCalls \in Nat
    /\ MaxDeletes \in Nat

VARIABLES
    cm,          \* the ConfigMap at the API server
    version,     \* the last resourceVersion the API server gave out
    pc,          \* where each writer's call is
    attempt,     \* the number of the current attempt, from 1
    val,         \* the status the current call writes
    snap,        \* the copy the current attempt read
    outcome,     \* what the last call returned
    calls,       \* calls made so far, for the bound
    deletes,     \* deletions so far, for the bound
    committed,   \* history: the last status stored for each gateway
    interfered   \* history: the ConfigMap's changes by others during a call

vars == <<cm, version, pc, attempt, val, snap, outcome, calls, deletes,
          committed, interfered>>

Entries == [Keys -> Values \cup {NoStatus}]

NoEntries == [k \in Keys |-> NoStatus]

ConfigMap == [present : BOOLEAN, version : Nat, data : Entries]

\* Faulty variant of Absent: the ConfigMap's nil Data map is written to.
AbsentNil == [present |-> FALSE, version |-> 0, data |-> <<>>]

Absent == [present |-> FALSE, version |-> 0, data |-> NoEntries]

Outcomes == {"none", "ok", "error", "exhausted"}

TypeOK ==
    /\ cm \in ConfigMap
    /\ version \in Nat
    /\ pc \in [Writers -> {"idle", "get", "create", "update"}]
    /\ attempt \in [Writers -> Nat]
    /\ val \in [Writers -> Values \cup {NoStatus}]
    /\ snap \in [Writers -> ConfigMap]
    /\ outcome \in [Writers -> Outcomes]
    /\ calls \in Nat
    /\ deletes \in Nat
    /\ committed \in Entries
    /\ interfered \in [Writers -> Nat]

Init ==
    /\ cm = Absent
    /\ version = 0
    /\ pc = [w \in Writers |-> "idle"]
    /\ attempt = [w \in Writers |-> 0]
    /\ val = [w \in Writers |-> NoStatus]
    /\ snap = [w \in Writers |-> Absent]
    /\ outcome = [w \in Writers |-> "none"]
    /\ calls = 0
    /\ deletes = 0
    /\ committed = NoEntries
    /\ interfered = [w \in Writers |-> 0]

---------------------------------------------------------------------------
(* Steps of a call.                                                        *)

\* The agent has a status to report and calls WriteStatusConfigMap.
Call(w, v) ==
    /\ pc[w] = "idle"
    /\ calls < MaxCalls
    /\ pc' = [pc EXCEPT ![w] = "get"]
    /\ attempt' = [attempt EXCEPT ![w] = 1]
    /\ val' = [val EXCEPT ![w] = v]
    /\ calls' = calls + 1
    /\ interfered' = [interfered EXCEPT ![w] = 0]
    /\ outcome' = [outcome EXCEPT ![w] = "none"]
    /\ UNCHANGED <<cm, version, snap, deletes, committed>>

\* Get: the attempt's copy of the ConfigMap, or NotFound.
Get(w) ==
    /\ pc[w] = "get"
    /\ pc' = [pc EXCEPT ![w] = IF cm.present THEN "update" ELSE "create"]
    /\ snap' = [snap EXCEPT ![w] = cm]
    /\ UNCHANGED <<cm, version, attempt, val, outcome, calls, deletes,
                   committed, interfered>>

\* The call returns to its caller, and its local variables go out of scope.
Return(w, result) ==
    /\ pc' = [pc EXCEPT ![w] = "idle"]
    /\ outcome' = [outcome EXCEPT ![w] = result]
    /\ attempt' = [attempt EXCEPT ![w] = 0]
    /\ val' = [val EXCEPT ![w] = NoStatus]
    /\ snap' = [snap EXCEPT ![w] = Absent]

\* Get fails: Forbidden before the RoleBinding exists, or any other error.
GetFails(w) ==
    /\ pc[w] = "get"
    /\ Return(w, "error")
    /\ UNCHANGED <<cm, version, calls, deletes, committed,
                   interfered>>

\* The API server stores data as the ConfigMap, on behalf of writer w.
Store(w, data) ==
    /\ version' = version + 1
    /\ cm' = [present |-> TRUE, version |-> version + 1, data |-> data]
    /\ committed' = [committed EXCEPT ![KeyOf[w]] = val[w]]
    /\ interfered' = [x \in Writers |->
                        IF x # w /\ pc[x] # "idle"
                        THEN interfered[x] + 1 ELSE interfered[x]]

\* The data a writer sends: its own key in the copy it read.
NewData(w) == [snap[w].data EXCEPT ![KeyOf[w]] = val[w]]

CanCreate(w) == pc[w] = "create" /\ ~cm.present

\* Faulty variant of CanUpdate: the server ignores the resourceVersion.
CanUpdateUnchecked(w) == pc[w] = "update" /\ cm.present

CanUpdate(w) ==
    /\ pc[w] = "update"
    /\ cm.present
    /\ cm.version = snap[w].version

\* Create or Update succeeds.  A request whose answer is lost is stored all
\* the same, and the call returns the error.
WriteStored(w, result) ==
    /\ CanCreate(w) \/ CanUpdate(w)
    /\ Store(w, IF pc[w] = "create"
                THEN [NoEntries EXCEPT ![KeyOf[w]] = val[w]]
                ELSE NewData(w))
    /\ Return(w, result)
    /\ UNCHANGED <<calls, deletes>>

\* Faulty variant of Retry: an attempt that found the ConfigMap missing counts
\* as the last one.
RetryOnce(w) ==
    /\ \/ pc[w] = "create" /\ cm.present
       \/ pc[w] = "update" /\ cm.present /\ cm.version # snap[w].version
    /\ \/ /\ attempt[w] < MaxAttempts
          /\ pc[w] = "update"
          /\ attempt' = [attempt EXCEPT ![w] = @ + 1]
          /\ pc' = [pc EXCEPT ![w] = "get"]
          /\ UNCHANGED <<val, snap, outcome>>
       \/ /\ attempt[w] >= MaxAttempts \/ pc[w] = "create"
          /\ Return(w, "exhausted")
    /\ UNCHANGED <<cm, version, calls, deletes, committed,
                   interfered>>

\* AlreadyExists or Conflict: "continue" with the next attempt, or give up.
Retry(w) ==
    /\ \/ pc[w] = "create" /\ cm.present
       \/ pc[w] = "update" /\ cm.present /\ cm.version # snap[w].version
    /\ \/ /\ attempt[w] < MaxAttempts
          /\ attempt' = [attempt EXCEPT ![w] = @ + 1]
          /\ pc' = [pc EXCEPT ![w] = "get"]
          /\ UNCHANGED <<val, snap, outcome>>
       \/ /\ attempt[w] >= MaxAttempts
          /\ Return(w, "exhausted")
    /\ UNCHANGED <<cm, version, calls, deletes, committed,
                   interfered>>

\* Any other error of Create or Update ends the call: the request is refused
\* or never arrives, or the ConfigMap to update has been deleted.
WriteFails(w) ==
    /\ pc[w] \in {"create", "update"}
    /\ Return(w, "error")
    /\ UNCHANGED <<cm, version, calls, deletes, committed,
                   interfered>>

---------------------------------------------------------------------------
(* The controller's finalizer: cleanupOwnedResources deletes the ConfigMap *)
(* whatever its version.                                                   *)

CleanupDelete ==
    /\ cm.present
    /\ deletes < MaxDeletes
    /\ cm' = Absent
    /\ deletes' = deletes + 1
    /\ committed' = NoEntries
    /\ interfered' = [x \in Writers |->
                        IF pc[x] # "idle"
                        THEN interfered[x] + 1 ELSE interfered[x]]
    /\ UNCHANGED <<version, pc, attempt, val, snap, outcome, calls>>

---------------------------------------------------------------------------

Step(w) ==
    \/ Get(w)
    \/ GetFails(w)
    \/ WriteStored(w, "ok")
    \/ WriteStored(w, "error")
    \/ Retry(w)
    \/ WriteFails(w)

Next ==
    \/ \E w \in Writers, v \in Values : Call(w, v)
    \/ \E w \in Writers : Step(w)
    \/ CleanupDelete

Spec == Init /\ [][Next]_vars

---------------------------------------------------------------------------
(* Properties.                                                             *)

\* What the controller would read.
Board == IF cm.present THEN cm.data ELSE NoEntries

\* No write is lost: whatever the interleaving of read-modify-write calls,
\* the ConfigMap holds for every gateway the last status that was stored for
\* it since the ConfigMap was last deleted (configmap.go:94-142).
NoLostUpdate == Board = committed

\* A call that gives up after its three attempts has been overtaken by at
\* least as many changes of others: a gateway that writes alone never fails
\* that way (configmap.go:145).
GiveUpJustified ==
    \A w \in Writers :
        pc[w] = "idle" /\ outcome[w] = "exhausted"
            => interfered[w] >= MaxAttempts

\* The ConfigMap implements a board with one independent entry per gateway.
SB == INSTANCE StatusBoard WITH board <- Board
BoardSpec == SB!Spec

=============================================================================
