------------------------- MODULE RequestedRefProofs -------------------------
(***************************************************************************)
(* Proofs about module RequestedRef: types, and that no webhook's Update    *)
(* puts back an older spec.git.ref, for any refs, requests, concurrent      *)
(* handlers and edits and however far the cache lags.                       *)
(***************************************************************************)
EXTENDS RequestedRef, TLAPS

\* The parts of an object.
LEMMA ObjectParts ==
    ASSUME NEW o \in Object
    PROVE  o.rv \in Nat /\ o.spec \in Refs /\ o.ann \in Refs \cup {NoRef}
BY DEF Object

\* The first object is one.
LEMMA FirstIsObject == FirstObject \in Object
BY RefAssumption DEF FirstObject, Object

\* A write stores the given spec and annotation under the next version.
LEMMA WriteStores ==
    ASSUME NEW o \in Object, cr \in Object, Write(o)
    PROVE  /\ cr' \in Object
           /\ cr'.rv = cr.rv + 1
           /\ cr'.spec = o.spec
<1>1. PICK v \in Nat : v = cr.rv + 1
  BY DEF Object
<1>2. cr' = [o EXCEPT !.rv = v]
  BY <1>1 DEF Write
<1>3. cr' \in Object /\ cr'.rv = v /\ cr'.spec = o.spec
  BY <1>2 DEF Object
<1> QED BY <1>1, <1>3

\* Setting the annotation keeps the rest of an object.
LEMMA AnnotatedIsObject ==
    ASSUME NEW o \in Object, NEW r \in Refs \cup {NoRef}
    PROVE  /\ [o EXCEPT !.ann = r] \in Object
           /\ [o EXCEPT !.ann = r].spec = o.spec
BY DEF Object

\* What parsePayload finds is a ref or nothing.
LEMMA ParsedIsRef ==
    ASSUME NEW q \in Requests
    PROVE  ParsePayload(q) \in Refs \cup {NoRef}
<1> DEFINE found == {k \in Formats : q.refs[k] # NoRef}
<1>1. q.refs \in [Formats -> Refs \cup {NoRef}]
  BY RequestAssumption
<1>2. CASE found = {}
  BY <1>2 DEF ParsePayload
<1>3. CASE found # {}
  <2>1. \E k \in found : \A l \in found : k <= l
    BY <1>3 DEF Formats
  <2> DEFINE first == CHOOSE k \in found : \A l \in found : k <= l
  <2>2. first \in found
    BY <2>1
  <2>3. ParsePayload(q) = q.refs[first]
    BY <1>3 DEF ParsePayload
  <2> HIDE DEF first
  <2> QED BY <1>1, <2>2, <2>3
<1> QED BY <1>2, <1>3

---------------------------------------------------------------------------
(* The inductive invariant.                                                *)

\* A copy of the CR is not newer than the CR, and with its resourceVersion it is
\* the CR.
UpToDate(o) == o.rv <= cr.rv /\ (o.rv = cr.rv => o = cr)

\* The cache and the objects that handlers are about to write back are such
\* copies: that is what makes the check of an Update's resourceVersion enough.
IInv ==
    /\ TypeOK
    /\ UpToDate(cache)
    /\ \A h \in Handlers : hpc[h] = "update" => UpToDate(hsnap[h])

\* IInv holds to begin with.
LEMMA InitIInv == Init => IInv
<1> SUFFICES ASSUME Init PROVE IInv
  OBVIOUS
<1>1. TypeOK
  BY FirstIsObject DEF Init, TypeOK
<1>2. UpToDate(cache)
  BY FirstIsObject, ObjectParts DEF Init, UpToDate
<1> QED BY <1>1, <1>2 DEF IInv, Init

\* After a write every copy is older.
LEMMA WriteAges ==
    ASSUME NEW o \in Object, TypeOK, Write(o), NEW c \in Object, UpToDate(c)
    PROVE  c.rv <= cr'.rv /\ (c.rv = cr'.rv => c = cr')
BY WriteStores, ObjectParts DEF UpToDate, TypeOK

\* Steps that write the CR and leave the cache, and make no handler newly ready
\* to update.
LEMMA WriteKeepsCopies ==
    ASSUME IInv, NEW o \in Object, Write(o), UNCHANGED cache,
           \A h \in Handlers : hpc'[h] = "update" =>
               hpc[h] = "update" /\ hsnap'[h] = hsnap[h]
    PROVE  /\ UpToDate(cache)'
           /\ \A h \in Handlers : hpc'[h] = "update" => UpToDate(hsnap[h])'
<1>1. TypeOK /\ cache \in Object /\ \A h \in Handlers : hsnap[h] \in Object
  BY DEF IInv, TypeOK
<1>2. UpToDate(cache)'
  BY <1>1, WriteAges DEF IInv, UpToDate
<1>3. ASSUME NEW h \in Handlers, hpc'[h] = "update"
      PROVE  UpToDate(hsnap[h])'
  BY <1>1, <1>3, WriteAges DEF IInv, UpToDate
<1> QED BY <1>2, <1>3

---------------------------------------------------------------------------
(* Every step keeps IInv.                                                  *)

\* A step that leaves the CR and the objects of handlers ready to update.
LEMMA QuietStep ==
    ASSUME IInv, TypeOK', UNCHANGED <<cr, cache>>,
           \A h \in Handlers : hpc'[h] = "update" =>
               hpc[h] = "update" /\ hsnap'[h] = hsnap[h]
    PROVE  IInv'
BY DEF IInv, UpToDate

\* A request that arrives keeps IInv.
LEMMA WebhookIInv ==
    ASSUME IInv, NEW h \in Handlers, NEW q \in Requests, Webhook(h, q)
    PROVE  IInv'
<1>1. TypeOK'
  BY ParsedIsRef DEF IInv, TypeOK, Webhook, reconcilerVars
<1>2. \A g \in Handlers : hpc'[g] = "update" => hpc[g] = "update" /\ hsnap'[g] = hsnap[g]
  BY DEF IInv, TypeOK, Webhook
<1> QED BY <1>1, <1>2, QuietStep DEF Webhook

\* A handler's Get keeps IInv: what it reads is the cache.
LEMMA HandlerGetIInv ==
    ASSUME IInv, NEW h \in Handlers, HandlerGet(h)
    PROVE  IInv'
<1>1. TypeOK'
  BY DEF IInv, TypeOK, HandlerGet, reconcilerVars
<1>2. UpToDate(cache)'
  BY DEF IInv, HandlerGet, UpToDate
<1>3. ASSUME NEW g \in Handlers, hpc'[g] = "update"
      PROVE  UpToDate(hsnap[g])'
  <2>1. \/ hpc[g] = "update" /\ hsnap'[g] = hsnap[g]
        \/ hsnap'[g] = cache
    BY <1>3 DEF IInv, TypeOK, HandlerGet
  <2> QED BY <2>1 DEF IInv, HandlerGet, UpToDate
<1> QED BY <1>1, <1>2, <1>3 DEF IInv

\* A handler that is done keeps IInv, whether its Update was accepted or it failed.
LEMMA HandlerDoneIInv ==
    ASSUME IInv, NEW h \in Handlers, HandlerUpdate(h) \/ HandlerFails(h)
    PROVE  IInv'
<1>1. /\ hpc' = [hpc EXCEPT ![h] = "free"]
      /\ href' = [href EXCEPT ![h] = NoRef]
      /\ hsnap' = [hsnap EXCEPT ![h] = FirstObject]
      /\ UNCHANGED <<polling, cache, queued, webhooks, edits, reconcilerVars>>
  BY DEF HandlerUpdate, HandlerFails, HandlerDone
<1>2. \A g \in Handlers : hpc'[g] = "update" => hpc[g] = "update" /\ hsnap'[g] = hsnap[g]
  BY <1>1 DEF IInv, TypeOK
<1>3. cr' \in Object => TypeOK'
  BY <1>1, FirstIsObject DEF IInv, TypeOK, reconcilerVars
<1>4. CASE UNCHANGED cr
  <2>1. TypeOK'
    BY <1>3, <1>4 DEF IInv, TypeOK
  <2> QED BY <1>1, <1>2, <1>4, <2>1, QuietStep
<1>5. CASE Write([hsnap[h] EXCEPT !.ann = href[h]])
  <2>1. [hsnap[h] EXCEPT !.ann = href[h]] \in Object /\ cr \in Object
    BY AnnotatedIsObject DEF IInv, TypeOK
  <2>2. cr' \in Object
    BY <1>5, <2>1, WriteStores
  <2> QED BY <1>1, <1>2, <1>3, <1>5, <2>1, <2>2, WriteKeepsCopies DEF IInv
<1> QED BY <1>4, <1>5 DEF HandlerUpdate, HandlerFails

\* An edit of the spec keeps IInv: it makes every copy older.
LEMMA SpecEditIInv ==
    ASSUME IInv, NEW r \in Refs, SpecEdit(r)
    PROVE  IInv'
<1>1. [cr EXCEPT !.spec = r] \in Object /\ cr \in Object
  BY DEF IInv, TypeOK, Object
<1>2. Write([cr EXCEPT !.spec = r])
  BY DEF SpecEdit
<1>3. cr' \in Object
  BY <1>1, <1>2, WriteStores
<1>4. UNCHANGED <<polling, cache, queued, handlerVars, reconcilerVars>> /\ edits' = edits + 1
  BY DEF SpecEdit
<1>5. TypeOK'
  BY <1>3, <1>4 DEF IInv, TypeOK, handlerVars, reconcilerVars
<1> QED BY <1>1, <1>2, <1>4, <1>5, WriteKeepsCopies DEF IInv, handlerVars

\* The patch that clears the annotation keeps IInv.
LEMMA ClearPatchIInv ==
    ASSUME IInv, ClearPatch
    PROVE  IInv'
<1>1. /\ UNCHANGED <<polling, cache, queued, rsnap, rfresh, resolved, edits,
                     faults, handlerVars>>
      /\ rpc' = "idle" /\ timer' = (timer \/ polling)
  BY DEF ClearPatch, ReconcileEnd
<1>2. \A g \in Handlers : hpc'[g] = "update" => hpc[g] = "update" /\ hsnap'[g] = hsnap[g]
  BY <1>1 DEF handlerVars
<1>3. cr' \in Object => TypeOK'
  BY <1>1 DEF IInv, TypeOK, handlerVars
<1>4. CASE UNCHANGED cr
  <2>1. TypeOK'
    BY <1>3, <1>4 DEF IInv, TypeOK
  <2> QED BY <1>1, <1>2, <1>4, <2>1, QuietStep
<1>5. CASE Write([cr EXCEPT !.ann = NoRef])
  <2>1. [cr EXCEPT !.ann = NoRef] \in Object /\ cr \in Object
    BY AnnotatedIsObject DEF IInv, TypeOK
  <2>2. cr' \in Object
    BY <1>5, <2>1, WriteStores
  <2> QED BY <1>1, <1>2, <1>3, <1>5, <2>1, <2>2, WriteKeepsCopies DEF IInv
<1> QED BY <1>4, <1>5 DEF ClearPatch

\* The other steps of the controller write nothing.
LEMMA ReconcileIInv ==
    ASSUME IInv,
           \/ TimerFires \/ ReconcileBegin \/ ReconcileResolve \/ ReconcilePatch
           \/ ReconcileFails \/ ClearGet \/ ClearFails
    PROVE  IInv'
<1>1. UNCHANGED <<cr, cache, hpc, hsnap>>
  BY DEF TimerFires, ReconcileBegin, ReconcileResolve, ReconcilePatch,
         ReconcileFails, ClearGet, ClearFails, handlerVars
<1>2. TypeOK'
  <2>1. CASE TimerFires
    BY <2>1 DEF IInv, TypeOK, TimerFires, handlerVars
  <2>2. CASE ReconcileBegin
    BY <2>2 DEF IInv, TypeOK, ReconcileBegin, handlerVars
  <2>3. CASE ReconcileResolve
    <3>1. Effective(rsnap) \in Refs \cup {NoRef}
      BY ObjectParts DEF IInv, TypeOK, Effective
    <3> QED BY <2>3, <3>1 DEF IInv, TypeOK, ReconcileResolve, handlerVars
  <2>4. CASE ReconcilePatch
    BY <2>4 DEF IInv, TypeOK, ReconcilePatch, ReconcileEnd, handlerVars
  <2>5. CASE ReconcileFails
    BY <2>5 DEF IInv, TypeOK, ReconcileFails, handlerVars
  <2>6. CASE ClearGet
    BY <2>6 DEF IInv, TypeOK, ClearGet, ReconcileEnd, handlerVars
  <2>7. CASE ClearFails
    BY <2>7 DEF IInv, TypeOK, ClearFails, ReconcileEnd, handlerVars
  <2> QED BY <2>1, <2>2, <2>3, <2>4, <2>5, <2>6, <2>7
<1> QED BY <1>1, <1>2, QuietStep

\* A delivery into the cache keeps IInv.
LEMMA InformerSyncIInv ==
    ASSUME IInv, InformerSync
    PROVE  IInv'
<1>1. TypeOK'
  BY DEF IInv, TypeOK, InformerSync, handlerVars, reconcilerVars
<1>2. UpToDate(cache)'
  BY ObjectParts DEF IInv, TypeOK, InformerSync, UpToDate
<1> QED BY <1>1, <1>2 DEF IInv, InformerSync, UpToDate, handlerVars

\* IInv is kept by every step.
LEMMA NextIInv == IInv /\ [Next]_vars => IInv'
<1> SUFFICES ASSUME IInv, [Next]_vars PROVE IInv'
  OBVIOUS
<1>1. CASE UNCHANGED vars
  BY <1>1 DEF vars, IInv, TypeOK, UpToDate
<1>2. CASE Next
  BY <1>2, WebhookIInv, HandlerGetIInv, HandlerDoneIInv, SpecEditIInv,
     InformerSyncIInv, ReconcileIInv, ClearPatchIInv DEF Next, Handle, Reconcile
<1> QED BY <1>1, <1>2

---------------------------------------------------------------------------
(* The theorems.                                                           *)

\* The inductive invariant holds.
LEMMA Invariant == Spec => []IInv
BY InitIInv, NextIInv, PTL DEF Spec

\* Variables keep their types: only refs get into the annotation, and only what
\* a payload's formats find becomes a request (receiver.go:68-143, 169-210).
THEOREM TypeCorrect == Spec => []TypeOK
<1>1. IInv => TypeOK
  BY DEF IInv
<1> QED BY <1>1, Invariant, PTL

\* spec.git.ref changes only by an edit of the spec: an accepted Update carries
\* the spec that the CR has (receiver.go:99-134).
THEOREM SpecNeverRevertedHolds == Spec => SpecNeverReverted
<1> DEFINE A == cr'.spec = cr.spec \/ \E r \in Refs : SpecEdit(r)
<1>1. IInv /\ [Next]_vars => [A]_vars
  <2> SUFFICES ASSUME IInv, Next, ~(\E r \in Refs : SpecEdit(r))
               PROVE  cr'.spec = cr.spec
    OBVIOUS
  <2>1. ASSUME NEW h \in Handlers, HandlerUpdate(h), UpdateAccepted(h),
               Write([hsnap[h] EXCEPT !.ann = href[h]])
        PROVE  cr'.spec = cr.spec
    <3>1. hsnap[h] = cr
      BY <2>1 DEF IInv, UpToDate, HandlerUpdate, UpdateAccepted
    <3>2. /\ [hsnap[h] EXCEPT !.ann = href[h]] \in Object
          /\ [hsnap[h] EXCEPT !.ann = href[h]].spec = hsnap[h].spec
          /\ cr \in Object
      BY AnnotatedIsObject DEF IInv, TypeOK
    <3> QED BY <2>1, <3>1, <3>2, WriteStores
  <2>2. ASSUME Write([cr EXCEPT !.ann = NoRef])
        PROVE  cr'.spec = cr.spec
    <3>1. /\ [cr EXCEPT !.ann = NoRef] \in Object
          /\ [cr EXCEPT !.ann = NoRef].spec = cr.spec
          /\ cr \in Object
      BY AnnotatedIsObject DEF IInv, TypeOK
    <3> QED BY <2>2, <3>1, WriteStores
  <2>3. ASSUME NEW h \in Handlers, HandlerUpdate(h)
        PROVE  cr'.spec = cr.spec
    BY <2>1, <2>3 DEF HandlerUpdate
  <2>4. CASE ClearPatch
    BY <2>2, <2>4 DEF ClearPatch
  <2>5. CASE ~ClearPatch /\ \A h \in Handlers : ~HandlerUpdate(h)
    BY <2>5 DEF Next, Webhook, Handle, HandlerGet, HandlerFails, InformerSync,
                TimerFires, Reconcile, ReconcileBegin, ReconcileResolve, ReconcilePatch,
                ReconcileFails, ClearGet, ClearFails
  <2> QED BY <2>3, <2>4, <2>5
<1>2. Spec => [][A]_vars
  BY <1>1, Invariant, PTL DEF Spec
<1> QED BY <1>2 DEF SpecNeverReverted

=============================================================================
