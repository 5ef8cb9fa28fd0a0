-------------------------- MODULE ControllerProofs --------------------------
(***************************************************************************)
(* Proofs about module Controller: the metadata ConfigMap is written only  *)
(* for a CR that exists and has its finalizer.                             *)
(*                                                                         *)
(* A reconcile writes the ConfigMap many steps after it read, from a cache *)
(* that may be stale, that the CR has a finalizer.  What makes that safe   *)
(* is that the finalizer is taken away only by a reconcile that saw the    *)
(* deletion, that no two reconciles run at a time, and that a cache which  *)
(* has shown the deletion never shows the CR alive again.                  *)
(***************************************************************************)
EXTENDS Controller, TLAPS

\* The steps of a reconcile of a live CR, and those of the cleanup.
LiveSteps == {"pausedPatch", "resolve", "failPatch", "meta", "discover",
              "patch", "clear"}
CleanupSteps == {"cleanup", "cleanupStatus", "removeFinalizer"}

CRShape ==
    /\ cr \in CR
    /\ cache.cr \in CR
    /\ base.cr \in CR

\* A deletion that anybody has seen is not undone.
DeletionIsFinal == cache.cr.deleting \/ base.cr.deleting => cr.deleting

\* A cleanup runs only for a CR whose deletion the cache shows.
CleanupSawDeletion == pc \in CleanupSteps => cache.cr.deleting

\* A reconcile of a live CR runs under the finalizer, to its last step.
LiveIsGuarded == pc \in LiveSteps => cr.exists /\ cr.finalizer

\* A cache that shows a live CR with a finalizer is right about it.
CacheIsTruthful ==
    cache.cr.exists /\ cache.cr.finalizer /\ ~cache.cr.deleting
        => cr.exists /\ cr.finalizer

IInv ==
    /\ CRShape
    /\ DeletionIsFinal
    /\ CleanupSawDeletion
    /\ LiveIsGuarded
    /\ CacheIsTruthful

USE DEF CRShape, DeletionIsFinal, CleanupSawDeletion, LiveIsGuarded,
        CacheIsTruthful, LiveSteps, CleanupSteps

\* What the invariant speaks about.
coreVars == <<cr, cache, base, pc>>

---------------------------------------------------------------------------

\* The CR as created has the type of a CR and is not being deleted.
LEMMA FirstIsCR ==
    /\ FirstCR \in CR
    /\ First.cr = FirstCR
    /\ ~FirstCR.deleting
BY RefAssumption DEF FirstCR, First, CR

\* Two states of the CR agree on what the finalizer's protocol looks at.
SameLife(old, new) ==
    /\ new \in CR
    /\ new.finalizer = old.finalizer
    /\ new.deleting = old.deleting
    /\ new.exists = old.exists

\* Edits of the spec and of the annotation change nothing of that.
LEMMA EditKeepsLife ==
    ASSUME NEW c \in CR, c.gen + 1 \in Nat
    PROVE  /\ \A r \in Refs :
                 SameLife(c, [c EXCEPT !.ref = r, !.gen = @ + 1])
           /\ SameLife(c, [c EXCEPT !.paused = ~@, !.gen = @ + 1])
           /\ SameLife(c, [c EXCEPT !.valid = ~@, !.gen = @ + 1])
           /\ \A r \in Refs \cup {NoRef} :
                 SameLife(c, [c EXCEPT !.ann = r])
<1> DEFINE g == c.gen + 1
<1>1. g \in Nat
  OBVIOUS
<1> HIDE DEF g
<1>2. \A r \in Refs : SameLife(c, [c EXCEPT !.ref = r, !.gen = g])
  BY <1>1 DEF SameLife, CR
<1>3. SameLife(c, [c EXCEPT !.paused = ~@, !.gen = g])
  BY <1>1 DEF SameLife, CR
<1>4. SameLife(c, [c EXCEPT !.valid = ~@, !.gen = g])
  BY <1>1 DEF SameLife, CR
<1>5. \A r \in Refs \cup {NoRef} : SameLife(c, [c EXCEPT !.ann = r])
  BY DEF SameLife, CR
<1> QED BY <1>2, <1>3, <1>4, <1>5 DEF g

\* The invariant holds when the CR has been created and nothing has run.
LEMMA InitIInv == Init => IInv
BY FirstIsCR DEF Init, IInv, First

\* Edits of the CR keep its finalizer; a deletion removes the CR only if it
\* has none, and otherwise marks it.
LEMMA EditIInv ==
    ASSUME IInv, UserEdit \/ UserDelete
    PROVE  IInv'
<1>1. /\ UNCHANGED <<cache, base, pc>>
      /\ cr.exists
  BY DEF UserEdit, UserDelete, EditCR, recVars
<1>2. /\ cr' \in CR
      /\ cr'.finalizer = cr.finalizer
      /\ cr.deleting => cr'.deleting
      /\ cr.finalizer => cr'.exists
  <2>1. CASE UserEdit
    <3>1. cr \in CR
      BY DEF IInv
    <3>2. \/ \E r \in Refs : cr' = [cr EXCEPT !.ref = r, !.gen = @ + 1]
          \/ cr' = [cr EXCEPT !.paused = ~@, !.gen = @ + 1]
          \/ cr' = [cr EXCEPT !.valid = ~@, !.gen = @ + 1]
          \/ \E r \in Refs : cr' = [cr EXCEPT !.ann = r]
      BY <2>1 DEF UserEdit, EditCR
    <3>3. cr.gen \in Nat /\ cr.gen + 1 \in Nat
      BY <3>1 DEF CR
    <3>4. SameLife(cr, cr')
      BY <3>1, <3>2, <3>3, EditKeepsLife
    <3> QED BY <1>1, <3>4 DEF SameLife
  <2>2. CASE UserDelete
    <3>1. cr \in CR /\ cr.gen + 1 \in Nat
      BY DEF IInv, CR
    <3>2. CASE cr.finalizer
      <4>1. cr' = [cr EXCEPT !.deleting = TRUE, !.gen = cr.gen + 1]
        BY <2>2, <3>2 DEF UserDelete, EditCR
      <4> QED BY <1>1, <3>1, <4>1 DEF CR
    <3>3. CASE ~cr.finalizer
      <4>1. cr' = [cr EXCEPT !.exists = FALSE]
        BY <2>2, <3>3 DEF UserDelete, EditCR
      <4> QED BY <3>1, <3>3, <4>1 DEF CR
    <3> QED BY <3>2, <3>3
  <2> QED BY <2>1, <2>2
<1> QED BY <1>1, <1>2 DEF IInv

\* The informer and a restart bring the cache up to date.
LEMMA CacheIInv ==
    ASSUME IInv, InformerSync \/ Crash
    PROVE  IInv'
<1>1. UNCHANGED cr /\ cache'.cr = cr
  BY DEF InformerSync, Crash
<1>2. UNCHANGED <<base, pc>> \/ (base' = First /\ pc' = "idle")
  BY DEF InformerSync, Crash, recVars
<1> QED BY <1>1, <1>2, FirstIsCR DEF IInv

\* A reconcile begins with what the cache shows.
LEMMA BeginIInv ==
    ASSUME IInv, Begin
    PROVE  IInv'
<1>1. UNCHANGED <<cr, cache>> /\ pc = "idle"
  BY DEF Begin
<1>2. CASE NothingToDo(cache.cr)
  BY <1>1, <1>2 DEF Begin, IInv
<1>3. CASE ~NothingToDo(cache.cr)
  <2>1. base' = cache /\ pc' = Dispatch(cache).pc
    BY <1>3 DEF Begin
  <2>2. \/ pc' = "cleanup" /\ cache.cr.deleting
        \/ pc' = "addFinalizer"
        \/ /\ pc' \in {"pausedPatch", "failPatch", "resolve"}
           /\ ~cache.cr.deleting /\ cache.cr.finalizer
    BY <2>1 DEF Dispatch
  <2>3. cache.cr.exists
    BY <1>3 DEF NothingToDo
  <2> QED BY <1>1, <2>1, <2>2, <2>3 DEF IInv
<1> QED BY <1>2, <1>3

\* The finalizer is added to the CR that was read, if it is still that.
LEMMA AddFinalizerIInv ==
    ASSUME IInv, AddFinalizer
    PROVE  IInv'
<1>1. UNCHANGED cache /\ base' = First /\ pc' = "idle"
  BY DEF AddFinalizer, Return
<1>2. /\ cr' \in CR
      /\ cr'.exists = cr.exists
      /\ cr'.deleting = cr.deleting
      /\ cr.finalizer => cr'.finalizer
  <2>1. cr \in CR /\ cr.gen + 1 \in Nat
    BY DEF IInv, CR
  <2>2. CASE cr' = cr
    BY <2>1, <2>2
  <2>3. CASE UpdateAccepted
    <3>1. PICK g \in Nat : cr' = [cr EXCEPT !.finalizer = TRUE, !.gen = g]
      <4>1. cr.gen \in Nat
        BY <2>1 DEF CR
      <4> QED BY <2>1, <2>3, <4>1 DEF AddFinalizer
    <3> QED BY <2>1, <3>1 DEF CR
  <2> QED BY <2>2, <2>3 DEF AddFinalizer
<1> QED BY <1>1, <1>2, FirstIsCR DEF IInv

\* The finalizer is removed only if the deletion has been seen, so that no
\* cache shows the CR alive.
LEMMA RemoveFinalizerIInv ==
    ASSUME IInv, RemoveFinalizer
    PROVE  IInv'
<1>1. /\ UNCHANGED cache
      /\ base' = First /\ pc' = "idle" /\ pc = "removeFinalizer"
  BY DEF RemoveFinalizer, Return
<1>2. cr' \in CR /\ cr'.deleting = cr.deleting
  BY DEF RemoveFinalizer, IInv, CR
<1>3. cache.cr.deleting
  BY <1>1 DEF IInv
<1> QED BY <1>1, <1>2, <1>3, FirstIsCR DEF IInv

\* The cleanup deletes the ConfigMaps one by one.
LEMMA CleanupIInv ==
    ASSUME IInv, CleanupMetadata \/ CleanupStatus
    PROVE  IInv'
<1>1. /\ UNCHANGED <<cr, cache, base>>
      /\ pc \in CleanupSteps /\ pc' \in CleanupSteps
  BY DEF CleanupMetadata, CleanupStatus
<1> QED BY <1>1 DEF IInv

\* A reconcile of a live CR goes on to its next step.
LEMMA LiveStepIInv ==
    ASSUME IInv,
           \/ ResolveFromStatus \/ ResolveFromRemote \/ ResolveFails
           \/ WriteMetadata \/ WriteMetadataFails
           \/ Discover \/ DiscoverFails
    PROVE  IInv'
<1>1. /\ UNCHANGED <<cr, cache, base>>
      /\ pc \in LiveSteps /\ pc' \in LiveSteps
  BY DEF ResolveFromStatus, ResolveFromRemote, ResolvedTo, ResolveFails,
         WriteMetadata, WriteMetadataFails, Discover, DiscoverFails,
         DiscoverWith
<1> QED BY <1>1 DEF IInv

\* A reconcile ends, or goes on to clear the annotation of the CR as the API
\* server has it by now.
LEMMA LastStepIInv ==
    ASSUME IInv,
           StepFails \/ PausedPatch \/ FailPatch \/ Patch \/ Clear
    PROVE  IInv'
<1>1. UNCHANGED cache
  BY DEF StepFails, PausedPatch, FailPatch, Patch, Clear
<1>2. /\ cr' \in CR
      /\ cr'.exists = cr.exists
      /\ cr'.finalizer = cr.finalizer
      /\ cr'.deleting = cr.deleting
  <2>1. CASE Clear
    BY <2>1, RefAssumption DEF Clear, IInv, CR
  <2>2. CASE StepFails \/ PausedPatch \/ FailPatch \/ Patch
    BY <2>2 DEF StepFails, PausedPatch, FailPatch, Patch, IInv
  <2> QED BY <2>1, <2>2
<1>3. \/ base' = First /\ pc' = "idle"
      \/ base'.cr = cr /\ cr' = cr /\ pc = "patch" /\ pc' = "clear"
  BY DEF StepFails, PausedPatch, FailPatch, Patch, Clear, Return
<1> QED BY <1>1, <1>2, <1>3, FirstIsCR DEF IInv

\* A step that leaves the invariant's variables alone.
LEMMA StutterIInv ==
    ASSUME IInv, UNCHANGED coreVars
    PROVE  IInv'
BY DEF IInv, coreVars

\* Every step keeps the invariant.
LEMMA NextIInv ==
    ASSUME IInv, [Next]_vars
    PROVE  IInv'
<1>1. CASE UserEdit \/ UserDelete
  BY <1>1, EditIInv
<1>2. CASE SecretChange \/ RemoteMove \/ PodChange \/ AgentStart \/ AgentReport
           \/ TimerFires \/ MetaSync \/ GarbageCollect
  BY <1>2, StutterIInv DEF SecretChange, RemoteMove, PodChange, AgentStart,
         AgentReport, TimerFires, MetaSync, GarbageCollect, coreVars, recVars
<1>3. CASE InformerSync \/ Crash
  BY <1>3, CacheIInv
<1>4. CASE Reconcile
  BY <1>4, BeginIInv, AddFinalizerIInv, RemoveFinalizerIInv, CleanupIInv,
     LiveStepIInv, LastStepIInv DEF Reconcile
<1>5. CASE UNCHANGED vars
  BY <1>5, StutterIInv DEF vars, coreVars, recVars
<1> QED BY <1>1, <1>2, <1>3, <1>4, <1>5 DEF Next, Environment

---------------------------------------------------------------------------

\* The inductive invariant holds in every reachable state.
THEOREM Invariance == Spec => []IInv
<1>1. Init => IInv
  BY InitIInv
<1>2. IInv /\ [Next]_vars => IInv'
  BY NextIInv
<1> QED BY <1>1, <1>2, PTL DEF Spec

\* Only a reconcile of a live CR changes the ConfigMap to something else than
\* its absence.
LEMMA OnlyLiveReconcileWrites ==
    ASSUME [Next]_vars, meta' # meta, meta' # NoMeta
    PROVE  pc \in LiveSteps
<1>1. CASE Environment \/ InformerSync \/ MetaSync \/ GarbageCollect
           \/ TimerFires
  BY <1>1 DEF Environment, UserEdit, UserDelete, EditCR, SecretChange,
         RemoteMove, PodChange, AgentStart, AgentReport, Crash, InformerSync,
         MetaSync, GarbageCollect, TimerFires, metaVars
<1>2. CASE Reconcile
  BY <1>2 DEF Reconcile, Begin, AddFinalizer, CleanupMetadata, CleanupStatus,
         RemoveFinalizer, StepFails, ResolveFromStatus, ResolveFromRemote,
         ResolvedTo, ResolveFails, WriteMetadata, WriteMetadataFails,
         Discover, DiscoverFails, DiscoverWith, PausedPatch, FailPatch,
         Patch, Clear, metaVars
<1>3. CASE UNCHANGED vars
  BY <1>3 DEF vars, metaVars
<1> QED BY <1>1, <1>2, <1>3 DEF Next

\* The metadata ConfigMap is written only while the CR exists and carries the
\* finalizer, for any number of refs, pods, edits, faults and crashes
\* (gatewaysync_controller.go:115-131, 642-710).
THEOREM WrittenUnderFinalizerHolds == Spec => WrittenUnderFinalizer
<1>1. ASSUME IInv, [Next]_vars
      PROVE  [meta' # meta /\ meta' # NoMeta
                => cr.exists /\ cr.finalizer]_vars
  BY <1>1, OnlyLiveReconcileWrites DEF IInv
<1> QED BY <1>1, Invariance, PTL DEF Spec, WrittenUnderFinalizer

=============================================================================
