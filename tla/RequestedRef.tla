---------------------------- MODULE RequestedRef ----------------------------
(***************************************************************************)
(* The stoker.io/requested-ref annotation: a fast path by which a webhook  *)
(* overrides spec.git.ref until the GitOps tool has caught up.             *)
(*                                                                         *)
(*   - internal/webhook/receiver.go, handleWebhook: sets the annotation    *)
(*     with a read-modify-write of the whole object (Get, Update);         *)
(*   - internal/controller: resolveRef prefers the annotation, and         *)
(*     clearRequestedRefIfCaughtUp removes it with a merge patch, which    *)
(*     carries no resourceVersion;                                         *)
(*   - a user or ArgoCD edits spec.git.ref.                                *)
(*                                                                         *)
(* Receiver and controller read through the manager's cached client: what  *)
(* they see is the informer's copy, which may lag behind the API server.   *)
(* The rest of Reconcile (finalizer, pause, secrets, gateways) is module   *)
(* Controller; here a reconcile reads, resolves and clears.                *)
(***************************************************************************)
EXTENDS Naturals

CONSTANTS
    Refs,            \* git refs
    Requests,        \* webhook requests: refs of the payload, and proofs
    Configured,      \* ways to authenticate: a subset of {"hmac", "bearer"}
    Norm,            \* strings.TrimPrefix(ref, "v")
    NoRef,           \* no annotation
    Handlers,        \* concurrent webhook requests
    InitialRef,      \* spec.git.ref at the start
    MaxWebhooks,     \* bound: webhook requests
    MaxSpecEdits,    \* bound: edits of spec.git.ref
    MaxFaults        \* bound: failing git and API calls of the controller

\* Payload formats in the order in which they are tried: GitHub release, ArgoCD,
\* Kargo, generic.
Formats == 1..4

ASSUME RefAssumption ==
    /\ NoRef \notin Refs
    /\ InitialRef \in Refs
    /\ DOMAIN Norm = Refs
ASSUME RequestAssumption ==
    \A q \in Requests : q.refs \in [Formats -> Refs \cup {NoRef}]
ASSUME BoundAssumption ==
    /\ MaxWebhooks \in Nat
    /\ MaxSpecEdits \in Nat
    /\ MaxFaults \in Nat

VARIABLES
    cr,         \* the GatewaySync at the API server
    cache,      \* the informer's copy
    polling,    \* spec.polling.enabled, which nobody changes
    hpc,        \* where each webhook request is
    href,       \* the ref of its payload
    hsnap,      \* the object it read
    queued,     \* the CR is in the controller's work queue
    timer,      \* a RequeueAfter is pending
    rpc,        \* where the reconcile is
    rsnap,      \* the object it read
    rfresh,     \* the object clearRequestedRefIfCaughtUp re-read
    resolved,   \* the ref that was resolved last
    webhooks, edits, faults   \* counters for the bounds

vars == <<cr, cache, polling, hpc, href, hsnap, queued, timer, rpc, rsnap,
          rfresh, resolved, webhooks, edits, faults>>

Object == [rv : Nat, spec : Refs, ann : Refs \cup {NoRef}]

\* resolveRef: the annotation overrides spec.git.ref.
Effective(obj) == IF obj.ann # NoRef THEN obj.ann ELSE obj.spec

\* Faulty variant of CaughtUp: the refs are compared as they are.
CaughtUpExactly(obj) == obj.ann # NoRef /\ obj.ann = obj.spec

\* clearRequestedRefIfCaughtUp: the spec has reached the requested ref.
CaughtUp(obj) == obj.ann # NoRef /\ Norm[obj.ann] = Norm[obj.spec]

TypeOK ==
    /\ cr \in Object
    /\ cache \in Object
    /\ polling \in BOOLEAN
    /\ hpc \in [Handlers -> {"free", "get", "update"}]
    /\ href \in [Handlers -> Refs \cup {NoRef}]
    /\ hsnap \in [Handlers -> Object]
    /\ queued \in BOOLEAN
    /\ timer \in BOOLEAN
    /\ rpc \in {"idle", "resolve", "patch", "clearGet", "clearPatch"}
    /\ rsnap \in Object
    /\ rfresh \in Object
    /\ resolved \in Refs \cup {NoRef}
    /\ webhooks \in Nat
    /\ edits \in Nat
    /\ faults \in Nat

\* The object before anything happens: created, not yet reconciled.
FirstObject == [rv |-> 1, spec |-> InitialRef, ann |-> NoRef]

Init ==
    /\ cr = FirstObject
    /\ cache = FirstObject
    /\ polling \in BOOLEAN
    /\ hpc = [h \in Handlers |-> "free"]
    /\ href = [h \in Handlers |-> NoRef]
    /\ hsnap = [h \in Handlers |-> FirstObject]
    /\ queued = TRUE
    /\ timer = FALSE
    /\ rpc = "idle"
    /\ rsnap = FirstObject
    /\ rfresh = FirstObject
    /\ resolved = NoRef
    /\ webhooks = 0
    /\ edits = 0
    /\ faults = 0

\* The API server stores the object under the next resourceVersion.
Write(obj) == cr' = [obj EXCEPT !.rv = cr.rv + 1]

reconcilerVars == <<timer, rpc, rsnap, rfresh, resolved, faults>>
handlerVars == <<hpc, href, hsnap, webhooks>>

---------------------------------------------------------------------------
(* The webhook receiver.                                                   *)

\* authorize: any configured way will do.
Authorized(q) == Configured = {} \/ Configured \cap q.proofs # {}

\* parsePayload: the first format that finds a ref wins.  refs[k] is what format
\* k finds.
ParsePayload(q) ==
    LET found == {k \in Formats : q.refs[k] # NoRef}
    IN  IF found = {} THEN NoRef
        ELSE q.refs[CHOOSE k \in found : \A l \in found : k <= l]

\* Faulty variant of Webhook: a payload without a ref is let through.
WebhookUnchecked(h, q) ==
    /\ hpc[h] = "free"
    /\ webhooks < MaxWebhooks
    /\ webhooks' = webhooks + 1
    /\ hpc' = [hpc EXCEPT ![h] = "get"]
    /\ href' = [href EXCEPT ![h] = ""]
    /\ UNCHANGED <<polling, cr, cache, hsnap, queued, edits, reconcilerVars>>

\* A request arrives.  One that is not authorised (401) or has no ref (400) is
\* answered at once and changes nothing.
Webhook(h, q) ==
    /\ hpc[h] = "free"
    /\ Authorized(q)
    /\ ParsePayload(q) # NoRef
    /\ webhooks < MaxWebhooks
    /\ webhooks' = webhooks + 1
    /\ hpc' = [hpc EXCEPT ![h] = "get"]
    /\ href' = [href EXCEPT ![h] = ParsePayload(q)]
    /\ UNCHANGED <<polling, cr, cache, hsnap, queued, edits, reconcilerVars>>

\* Get, then either "ref already set" (202, nothing to write) or the update.
HandlerGet(h) ==
    /\ hpc[h] = "get"
    /\ \/ /\ cache.ann = href[h]
          /\ hpc' = [hpc EXCEPT ![h] = "free"]
          /\ href' = [href EXCEPT ![h] = NoRef]
          /\ UNCHANGED hsnap
       \/ /\ cache.ann # href[h]
          /\ hpc' = [hpc EXCEPT ![h] = "update"]
          /\ hsnap' = [hsnap EXCEPT ![h] = cache]
          /\ UNCHANGED href
    /\ UNCHANGED <<polling, cr, cache, queued, webhooks, edits,
                   reconcilerVars>>

HandlerDone(h) ==
    /\ hpc' = [hpc EXCEPT ![h] = "free"]
    /\ href' = [href EXCEPT ![h] = NoRef]
    /\ hsnap' = [hsnap EXCEPT ![h] = FirstObject]

\* Faulty variant of UpdateAccepted: the Update ignores the resourceVersion.
UpdateAcceptedAlways(h) == TRUE

\* The API server's check of an Update.
UpdateAccepted(h) == hsnap[h].rv = cr.rv

\* Update of the whole object read before: 202.
HandlerUpdate(h) ==
    /\ hpc[h] = "update"
    /\ UpdateAccepted(h)
    /\ Write([hsnap[h] EXCEPT !.ann = href[h]])
    /\ HandlerDone(h)
    /\ UNCHANGED <<polling, cache, queued, webhooks, edits, reconcilerVars>>

\* 404 or 500, and nothing written: a conflict, also with a patch of the status,
\* which only counts here as such a conflict; an error of the API server; a CR
\* that the cache does not have.
HandlerFails(h) ==
    /\ hpc[h] # "free"
    /\ HandlerDone(h)
    /\ UNCHANGED <<polling, cr, cache, queued, webhooks, edits, reconcilerVars>>

---------------------------------------------------------------------------
(* The user or the GitOps tool, and the informer.                          *)

SpecEdit(r) ==
    /\ edits < MaxSpecEdits
    /\ r # cr.spec
    /\ edits' = edits + 1
    /\ Write([cr EXCEPT !.spec = r])
    /\ UNCHANGED <<polling, cache, queued, handlerVars, reconcilerVars>>

\* Faulty variant of Enqueues: the plain generation predicate.
EnqueuesOnSpec(old, new) == new.spec # old.spec

\* annotationOrGenerationChanged.Update: the events that enqueue the CR.
Enqueues(old, new) == new.spec # old.spec \/ new.ann # old.ann

\* The informer delivers the current object.
InformerSync ==
    /\ cache # cr
    /\ cache' = cr
    /\ queued' = (queued \/ Enqueues(cache, cr))
    /\ UNCHANGED <<polling, cr, edits, handlerVars, reconcilerVars>>

---------------------------------------------------------------------------
(* The controller.                                                         *)

TimerFires ==
    /\ timer
    /\ timer' = FALSE
    /\ queued' = TRUE
    /\ UNCHANGED <<polling, cr, cache, rpc, rsnap, rfresh, resolved, edits,
                   faults, handlerVars>>

\* Reconcile takes the CR from the queue and reads it.
ReconcileBegin ==
    /\ rpc = "idle"
    /\ queued
    /\ queued' = FALSE
    /\ rsnap' = cache
    /\ rpc' = "resolve"
    /\ UNCHANGED <<polling, cr, cache, timer, rfresh, resolved, edits, faults,
                   handlerVars>>

\* Reconcile returns with RequeueAfter = the polling interval.
ReconcileEnd ==
    /\ rpc' = "idle"
    /\ timer' = (timer \/ polling)

\* The ref resolves.  How it reaches the agents is module Controller.
ReconcileResolve ==
    /\ rpc = "resolve"
    /\ resolved' = Effective(rsnap)
    /\ rpc' = "patch"
    /\ UNCHANGED <<polling, cr, cache, queued, timer, rsnap, rfresh, edits,
                   faults, handlerVars>>

\* The status patch.  The API server answers with the object as it is now,
\* and clearRequestedRefIfCaughtUp looks at that answer.
ReconcilePatch ==
    /\ rpc = "patch"
    /\ rsnap' = cr
    /\ \/ CaughtUp(cr) /\ rpc' = "clearGet" /\ UNCHANGED timer
       \/ ~CaughtUp(cr) /\ ReconcileEnd
    /\ UNCHANGED <<polling, cr, cache, queued, rfresh, resolved, edits,
                   faults, handlerVars>>

\* ls-remote or a secret check fails, or the status patch: requeue.
ReconcileFails ==
    /\ rpc \in {"resolve", "patch"}
    /\ faults < MaxFaults
    /\ faults' = faults + 1
    /\ rpc' = "idle"
    /\ timer' = TRUE
    /\ UNCHANGED <<polling, cr, cache, queued, rsnap, rfresh, resolved, edits,
                   handlerVars>>

\* clearRequestedRefIfCaughtUp re-reads the object and compares annotations.
ClearGet ==
    /\ rpc = "clearGet"
    /\ rfresh' = cache
    /\ \/ cache.ann # rsnap.ann /\ ReconcileEnd
       \/ cache.ann = rsnap.ann /\ rpc' = "clearPatch" /\ UNCHANGED timer
    /\ UNCHANGED <<polling, cr, cache, queued, rsnap, resolved, edits, faults,
                   handlerVars>>

\* The merge patch {annotations: {requested-ref: null}}: it removes whatever
\* value the annotation has by now.
ClearPatch ==
    /\ rpc = "clearPatch"
    /\ \/ cr.ann # NoRef /\ Write([cr EXCEPT !.ann = NoRef])
       \/ cr.ann = NoRef /\ UNCHANGED cr
    /\ ReconcileEnd
    /\ UNCHANGED <<polling, cache, queued, rsnap, rfresh, resolved, edits,
                   faults, handlerVars>>

\* The patch or the re-read fails: logged, and left to the next reconcile.
ClearFails ==
    /\ rpc \in {"clearGet", "clearPatch"}
    /\ faults < MaxFaults
    /\ faults' = faults + 1
    /\ ReconcileEnd
    /\ UNCHANGED <<polling, cr, cache, queued, rsnap, rfresh, resolved, edits,
                   handlerVars>>

---------------------------------------------------------------------------

Handle(h) == HandlerGet(h) \/ HandlerUpdate(h) \/ HandlerFails(h)

Reconcile ==
    \/ ReconcileBegin
    \/ ReconcileResolve
    \/ ReconcilePatch
    \/ ReconcileFails
    \/ ClearGet
    \/ ClearPatch
    \/ ClearFails

Next ==
    \/ \E h \in Handlers, q \in Requests : Webhook(h, q)
    \/ \E h \in Handlers : Handle(h)
    \/ \E r \in Refs : SpecEdit(r)
    \/ InformerSync
    \/ TimerFires
    \/ Reconcile

Spec == Init /\ [][Next]_vars

\* Requests are answered, the watch stays connected, timers fire, and the
\* work queue hands the CR to a worker.
Fairness ==
    /\ \A h \in Handlers : WF_vars(Handle(h))
    /\ WF_vars(InformerSync)
    /\ WF_vars(TimerFires)
    /\ WF_vars(Reconcile)

FairSpec == Spec /\ Fairness

---------------------------------------------------------------------------
(* Properties.                                                             *)

\* Only an edit of the spec changes spec.git.ref: the Update that a webhook
\* sends carries the whole object it read, and must never put back an older
\* spec.git.ref (receiver.go:99-134).
SpecNeverReverted ==
    [][cr'.spec = cr.spec \/ \E r \in Refs : SpecEdit(r)]_vars

\* When the webhooks and edits are over, the ref resolved last is the
\* requested one, or the spec's if none is pending; polling is not needed
\* for it (gatewaysync_controller.go:459-465, 904-913).
ResolvesEffectiveRef == <>[](resolved = Effective(cr))

\* With polling, a requested ref that the spec has reached does not stay in
\* the annotation and override the spec for ever, whatever failed on the way
\* (gatewaysync_controller.go:846-850).
NoStaleOverride ==
    <>[](polling /\ cr.ann # NoRef => Norm[cr.ann] # Norm[cr.spec])

\* The annotation is removed only when spec.git.ref has caught up to the
\* value it then holds (gatewaysync_controller.go:843-844).
ClearedOnlyWhenCaughtUp ==
    [][cr.ann # NoRef /\ cr'.ann = NoRef => CaughtUp(cr)]_vars

=============================================================================
