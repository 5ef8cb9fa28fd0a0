----------------------------- MODULE Controller -----------------------------
(***************************************************************************)
(* internal/controller: GatewaySyncReconciler.Reconcile for one GatewaySync *)
(* CR.  The work queue never runs two reconciles of one CR at a time; what  *)
(* interleaves with a reconcile are edits of the CR, webhooks, moves of the *)
(* remote's refs, pods, agents' reports, informer lag and crashes of the    *)
(* controller.  A reconcile works on the copy of the CR that it read from   *)
(* the informer's cache, and writes its status with a merge patch against   *)
(* that copy.                                                               *)
(*                                                                         *)
(* Time is left out: a RequeueAfter is a pending timer, and the window in   *)
(* which resolveRef may answer from the status is a choice.  Role bindings, *)
(* GitHub App tokens and the contents of profiles are left out too; the     *)
(* agent is module Agent, and the two steps in which the requested-ref      *)
(* annotation is cleared are told apart in module RequestedRef.             *)
(***************************************************************************)
EXTENDS Naturals

CONSTANTS
    Refs, Commits, Pods,
    NoRef,           \* no requested-ref annotation, or no ref resolved yet
    NoCommit,        \* no commit: unresolved, or the remote lacks the ref
    Norm,            \* strings.TrimPrefix(ref, "v")
    InitialRef,      \* spec.git.ref at creation
    InitialRemote,   \* the remote's refs at the start
    PollingEnabled,  \* spec.polling.enabled
    SpelledOut,      \* the manifest has every field the Go types serialise
    EditKinds,       \* which of the environment's changes a model allows
    MaxEdits,        \* bound: changes of the CR, its secrets and its pods
    MaxMoves,        \* bound: moves of a remote ref
    MaxReports,      \* bound: reports of agents
    MaxFaults,       \* bound: failing calls of the controller
    MaxCrashes,      \* bound: restarts of the controller
    MaxBackoff       \* bound: from here on failureCount is not told apart

ASSUME RefAssumption ==
    /\ InitialRef \in Refs
    /\ NoRef \notin Refs
    /\ NoCommit \notin Commits
    /\ InitialRemote \in [Refs -> Commits \cup {NoCommit}]
    /\ DOMAIN Norm = Refs
ASSUME FlagAssumption == {PollingEnabled, SpelledOut} \subseteq BOOLEAN
ASSUME BoundAssumption ==
    {MaxEdits, MaxMoves, MaxReports, MaxFaults, MaxCrashes, MaxBackoff}
        \subseteq Nat

VARIABLES
    cr,        \* metadata and spec of the GatewaySync at the API server
    status,    \* its status
    cache,     \* the informer's copy of both
    remote,    \* the commit of every ref of the git repository
    secrets,   \* which of the referenced Secrets exist
    pods,      \* the gateway pods
    running,   \* the commit that each pod's agent is syncing
    reports,   \* the status ConfigMap, as the informer shows it
    meta,      \* the metadata ConfigMap at the API server
    metaSeen,  \* the informer's copy of it
    queued,    \* the CR is in the work queue
    timer,     \* a RequeueAfter is pending
    backoff,   \* failureCount in the reconciler's backoff map
    pc,        \* where the current reconcile is
    base,      \* the copy of cr and status that it read
    work,      \* the status it is building
    bounds,    \* counters for the bounds
    pointed    \* history: every ref with the commits it has had

envVars == <<remote, pointed, secrets, pods, running, reports>>
recVars == <<pc, base, work>>
metaVars == <<meta, metaSeen>>
vars == <<cr, status, cache, envVars, metaVars, queued, timer, backoff,
          recVars, bounds>>

CondStatus == {"Unknown", "True", "False"}

CR == [gen : Nat, ref : Refs, ann : Refs \cup {NoRef}, paused : BOOLEAN,
       valid : BOOLEAN, deleting : BOOLEAN, finalizer : BOOLEAN,
       exists : BOOLEAN]

\* status.conditions, which a merge patch replaces as one list.  "Paused" is
\* Ready=False with reason Paused, commit is the message of RefResolved, and
\* gen the observedGeneration that setCondition last put into a condition.
Conditions == [ready : CondStatus \cup {"Paused"}, refResolved : CondStatus,
               profilesValid : CondStatus, allSynced : CondStatus,
               sidecar : CondStatus, gen : Nat,
               commit : Commits \cup {NoCommit}]

GatewayStates == {"Absent", "Pending", "MissingSidecar", "Synced", "Error"}

Gateway == [state : GatewayStates, commit : Commits \cup {NoCommit}]

Status == [refStatus : {"None", "Resolved", "Error"},
           commit : Commits \cup {NoCommit}, syncRef : Refs \cup {NoRef},
           observed : Nat, gateways : [Pods -> Gateway], conds : Conditions]

Metadata == [commit : Commits \cup {NoCommit}, ref : Refs \cup {NoRef},
             paused : BOOLEAN]

NoMeta == [commit |-> NoCommit, ref |-> NoRef, paused |-> FALSE]

NoGateway == [state |-> "Absent", commit |-> NoCommit]

Steps == {"idle", "addFinalizer", "cleanup", "cleanupStatus",
          "removeFinalizer", "pausedPatch", "resolve", "failPatch", "meta",
          "discover", "patch", "clear"}

Counters == {"edit", "move", "report", "fault", "crash"}

TypeOK ==
    /\ cr \in CR
    /\ status \in Status
    /\ cache \in [cr : CR, status : Status]
    /\ remote \in [Refs -> Commits \cup {NoCommit}]
    /\ secrets \in [{"git", "api"} -> BOOLEAN]
    /\ pods \in [Pods -> {"down", "up", "noSidecar"}]
    /\ running \in [Pods -> Commits \cup {NoCommit}]
    /\ reports \in [Pods -> Gateway]
    /\ {meta, metaSeen} \subseteq Metadata
    /\ queued \in BOOLEAN
    /\ timer \in BOOLEAN
    /\ backoff \in Nat
    /\ pc \in Steps
    /\ base \in [cr : CR, status : Status]
    /\ work \in Status
    /\ bounds \in [Counters -> Nat]
    /\ pointed \subseteq Refs \X Commits

FirstCR == [gen |-> 1, ref |-> InitialRef, ann |-> NoRef, paused |-> FALSE,
            valid |-> TRUE, deleting |-> FALSE, finalizer |-> FALSE,
            exists |-> TRUE]

FirstStatus ==
    [refStatus |-> "None", commit |-> NoCommit, syncRef |-> NoRef,
     observed |-> 0, gateways |-> [p \in Pods |-> NoGateway],
     conds |-> [ready |-> "Unknown", refResolved |-> "Unknown",
                profilesValid |-> "Unknown", allSynced |-> "Unknown",
                sidecar |-> "Unknown", gen |-> 0, commit |-> NoCommit]]

First == [cr |-> FirstCR, status |-> FirstStatus]

\* The CR has just been created; its pods are up.
Init ==
    /\ cr = FirstCR
    /\ status = FirstStatus
    /\ cache = First
    /\ remote = InitialRemote
    /\ secrets = [s \in {"git", "api"} |-> TRUE]
    /\ pods = [p \in Pods |-> "up"]
    /\ running = [p \in Pods |-> NoCommit]
    /\ reports = [p \in Pods |-> NoGateway]
    /\ meta = NoMeta
    /\ metaSeen = NoMeta
    /\ queued = TRUE
    /\ timer = FALSE
    /\ backoff = 0
    /\ pc = "idle"
    /\ base = First
    /\ work = FirstStatus
    /\ bounds = [c \in Counters |-> 0]
    /\ pointed = {<<r, InitialRemote[r]>> : r \in Refs} \ (Refs \X {NoCommit})

Count(c, max) ==
    /\ bounds[c] < max
    /\ bounds' = [bounds EXCEPT ![c] = @ + 1]

---------------------------------------------------------------------------
(* The environment.                                                        *)

EditCR(kind, new) ==
    /\ kind \in EditKinds
    /\ cr.exists
    /\ new # cr
    /\ Count("edit", MaxEdits)
    /\ cr' = new
    /\ UNCHANGED <<status, cache, envVars, metaVars, queued, timer, backoff,
                   recVars>>

\* Spec edits raise the generation, annotations do not.
UserEdit ==
    \/ \E r \in Refs :
          r # cr.ref /\ EditCR("ref", [cr EXCEPT !.ref = r, !.gen = @ + 1])
    \/ EditCR("pause", [cr EXCEPT !.paused = ~@, !.gen = @ + 1])
    \/ EditCR("profiles", [cr EXCEPT !.valid = ~@, !.gen = @ + 1])
    \/ \E r \in Refs : EditCR("annotation", [cr EXCEPT !.ann = r])

\* kubectl delete: an object with a finalizer is only marked.
UserDelete ==
    /\ ~cr.deleting
    /\ EditCR("delete", IF cr.finalizer
                        THEN [cr EXCEPT !.deleting = TRUE, !.gen = @ + 1]
                        ELSE [cr EXCEPT !.exists = FALSE])

SecretChange ==
    /\ "secret" \in EditKinds
    /\ Count("edit", MaxEdits)
    /\ \E s \in {"git", "api"} : secrets' = [secrets EXCEPT ![s] = ~@]
    /\ UNCHANGED <<cr, status, cache, remote, pointed, pods, running, reports,
                   metaVars, queued, timer, backoff, recVars>>

RemoteMove ==
    /\ Count("move", MaxMoves)
    /\ \E r \in Refs, c \in Commits :
          /\ remote[r] # c
          /\ remote' = [remote EXCEPT ![r] = c]
          /\ pointed' = pointed \cup {<<r, c>>}
    /\ UNCHANGED <<cr, status, cache, secrets, pods, running, reports,
                   metaVars, queued, timer, backoff, recVars>>

\* A pod of the CR starts, stops, or comes up without its sidecar; the pod
\* watch enqueues the CR (findGatewaySyncForPod).
PodChange ==
    /\ "pod" \in EditKinds
    /\ Count("edit", MaxEdits)
    /\ \E p \in Pods, s \in {"down", "up", "noSidecar"} :
          /\ s # pods[p]
          /\ pods[p] = "down" \/ s = "down"
          /\ pods' = [pods EXCEPT ![p] = s]
          /\ running' = [running EXCEPT ![p] = NoCommit]
    /\ queued' = TRUE
    /\ UNCHANGED <<cr, status, cache, remote, pointed, secrets, reports,
                   metaVars, timer, backoff, recVars>>

\* An agent sees the metadata ConfigMap and starts to sync its commit.
AgentStart ==
    /\ meta # NoMeta
    /\ \E p \in Pods :
          /\ pods[p] = "up"
          /\ running[p] = NoCommit
          /\ running' = [running EXCEPT ![p] = meta.commit]
    /\ Count("report", MaxReports)
    /\ UNCHANGED <<cr, status, cache, remote, pointed, secrets, pods, reports,
                   metaVars, queued, timer, backoff, recVars>>

\* It reports the outcome.  The status ConfigMap has no owner reference, so
\* nothing is enqueued.
AgentReport ==
    /\ \E p \in Pods, s \in {"Pending", "Synced", "Error"} :
          /\ running[p] # NoCommit
          /\ reports' = [reports EXCEPT
                            ![p] = [state |-> s, commit |-> running[p]]]
          /\ running' = [running EXCEPT ![p] = NoCommit]
    /\ UNCHANGED <<cr, status, cache, remote, pointed, secrets, pods,
                   metaVars, queued, timer, backoff, recVars, bounds>>

\* annotationOrGenerationChanged; creation and deletion always enqueue.
Enqueues(old, new) ==
    \/ new.gen # old.gen
    \/ new.ann # old.ann
    \/ new.exists # old.exists

InformerSync ==
    /\ cache # [cr |-> cr, status |-> status]
    /\ cache' = [cr |-> cr, status |-> status]
    /\ queued' = (queued \/ Enqueues(cache.cr, cr))
    /\ UNCHANGED <<cr, status, envVars, metaVars, timer, backoff, recVars,
                   bounds>>

\* The watch on the ConfigMaps that the CR owns.
MetaSync ==
    /\ metaSeen # meta
    /\ metaSeen' = meta
    /\ queued' = TRUE
    /\ UNCHANGED <<cr, status, cache, envVars, meta, timer, backoff, recVars,
                   bounds>>

\* Faulty variant of Owned: no owner reference is set.
OwnedNot == FALSE

\* The metadata ConfigMap is created with the CR as its controller.
Owned == TRUE

\* Kubernetes deletes what a deleted object owned.
GarbageCollect ==
    /\ ~cr.exists
    /\ meta # NoMeta
    /\ Owned
    /\ meta' = NoMeta
    /\ UNCHANGED <<cr, status, cache, envVars, metaSeen, queued, timer,
                   backoff, recVars, bounds>>

TimerFires ==
    /\ timer
    /\ timer' = FALSE
    /\ queued' = TRUE
    /\ UNCHANGED <<cr, status, cache, envVars, metaVars, backoff, recVars,
                   bounds>>

\* The controller restarts: the queue is refilled from the API server, and
\* the reconcile in flight and the backoff map are gone.
Crash ==
    /\ Count("crash", MaxCrashes)
    /\ pc' = "idle"
    /\ base' = First
    /\ work' = FirstStatus
    /\ backoff' = 0
    /\ timer' = FALSE
    /\ queued' = TRUE
    /\ cache' = [cr |-> cr, status |-> status]
    /\ metaSeen' = meta
    /\ UNCHANGED <<cr, status, envVars, meta>>

---------------------------------------------------------------------------
(* Reconcile.                                                              *)

\* The ref to sync: the requested one, or spec.git.ref.
Effective(obj) == IF obj.ann # NoRef THEN obj.ann ELSE obj.ref

CaughtUp(obj) == obj.ann # NoRef /\ Norm[obj.ann] = Norm[obj.ref]

\* Reconcile returns: with an error (again), with a RequeueAfter, or neither.
Return(again, after) ==
    /\ pc' = "idle"
    /\ base' = First
    /\ work' = FirstStatus
    /\ queued' = (queued \/ again)
    /\ timer' = (timer \/ after)

\* A call to the API server or to the git remote fails.
Fault == Count("fault", MaxFaults)

\* recordFailure.  The delay it leads to stops growing at five minutes, so
\* that the count need not be told apart beyond a bound.
Failed(n) == IF n < MaxBackoff THEN n + 1 ELSE n

\* validateProfiles, the first condition to be set.
Validated(copy) ==
    [copy.status EXCEPT
        !.conds.profilesValid = IF copy.cr.valid THEN "True" ELSE "False",
        !.conds.gen = copy.cr.gen]

\* Faulty variant of NotReady: status and reason are swapped.
NotReadySwapped(st) == [st EXCEPT !.conds.ready = "Reconciling"]

NotReady(st) == [st EXCEPT !.conds.ready = "False"]

\* Faulty variant of Dispatch: the finalizer is not waited for.
DispatchUnguarded(copy) ==
    IF copy.cr.deleting
    THEN [pc |-> "cleanup", work |-> copy.status]
    ELSE IF copy.cr.paused
    THEN [pc |-> "pausedPatch",
          work |-> [copy.status EXCEPT !.conds.ready = "Paused",
                                       !.conds.gen = copy.cr.gen]]
    ELSE IF ~secrets["git"]
    THEN [pc |-> "failPatch", work |-> NotReady(Validated(copy))]
    ELSE [pc |-> "resolve", work |-> Validated(copy)]

\* Where a reconcile of this copy goes first, and the status it starts from.
Dispatch(copy) ==
    IF copy.cr.deleting
    THEN [pc |-> "cleanup", work |-> copy.status]
    ELSE IF ~copy.cr.finalizer
    THEN [pc |-> "addFinalizer", work |-> copy.status]
    ELSE IF copy.cr.paused
    THEN [pc |-> "pausedPatch",
          work |-> [copy.status EXCEPT !.conds.ready = "Paused",
                                       !.conds.gen = copy.cr.gen]]
    ELSE IF ~secrets["git"]
    THEN [pc |-> "failPatch", work |-> NotReady(Validated(copy))]
    ELSE [pc |-> "resolve", work |-> Validated(copy)]

\* The CR is gone, or only waits for the finalizers of others.
NothingToDo(obj) == ~obj.exists \/ (obj.deleting /\ ~obj.finalizer)

\* Get, the reset of the backoff by a requested ref, and the checks up to the
\* git secrets.
Begin ==
    /\ pc = "idle"
    /\ queued
    /\ queued' = FALSE
    /\ \/ NothingToDo(cache.cr) /\ UNCHANGED <<pc, base, work>>
       \/ /\ ~NothingToDo(cache.cr)
          /\ base' = cache
          /\ pc' = Dispatch(cache).pc
          /\ work' = Dispatch(cache).work
    /\ LET count == IF cache.cr.exists /\ cache.cr.ann # NoRef
                    THEN 0 ELSE backoff
       IN  backoff' = IF pc' = "failPatch" THEN Failed(count) ELSE count
    /\ UNCHANGED <<cr, status, cache, envVars, metaVars, timer, bounds>>

\* The API server accepts an Update of the copy that was read: nothing has
\* changed since.
UpdateAccepted == cr.exists /\ base = [cr |-> cr, status |-> status]

\* Update with the finalizer.  The copy went through the Go types, which
\* serialise nested structs the manifest left out: that changes the spec.
AddFinalizer ==
    /\ pc = "addFinalizer"
    /\ \/ /\ UpdateAccepted
          /\ cr' = [cr EXCEPT !.finalizer = TRUE,
                              !.gen = IF SpelledOut THEN @ ELSE @ + 1]
          /\ Return(FALSE, FALSE)
       \/ ~UpdateAccepted /\ Return(TRUE, FALSE) /\ UNCHANGED cr
    /\ UNCHANGED <<status, cache, envVars, metaVars, backoff, bounds>>

\* cleanupOwnedResources: the ConfigMaps one after the other, each only if the
\* cache shows it.
CleanupMetadata ==
    /\ pc = "cleanup"
    /\ meta' = IF metaSeen = NoMeta THEN meta ELSE NoMeta
    /\ pc' = "cleanupStatus"
    /\ UNCHANGED <<cr, status, cache, envVars, metaSeen, queued, timer,
                   backoff, base, work, bounds>>

CleanupStatus ==
    /\ pc = "cleanupStatus"
    /\ reports' = [p \in Pods |-> NoGateway]
    /\ pc' = "removeFinalizer"
    /\ UNCHANGED <<cr, status, cache, remote, pointed, secrets, pods, running,
                   metaVars, queued, timer, backoff, base, work, bounds>>

RemoveFinalizer ==
    /\ pc = "removeFinalizer"
    /\ \/ /\ UpdateAccepted
          /\ cr' = [cr EXCEPT !.finalizer = FALSE, !.exists = FALSE]
          /\ Return(FALSE, FALSE)
       \/ ~UpdateAccepted /\ Return(TRUE, FALSE) /\ UNCHANGED cr
    /\ UNCHANGED <<status, cache, envVars, metaVars, backoff, bounds>>

\* Faulty variant of StepFails: the error is not returned.
StepFailsSwallowed ==
    /\ pc \in {"addFinalizer", "cleanup", "cleanupStatus", "removeFinalizer",
              "pausedPatch", "patch"}
    /\ Fault
    /\ Return(FALSE, FALSE)
    /\ UNCHANGED <<cr, status, cache, envVars, metaVars, backoff>>

\* An API call whose error Reconcile returns: the queue takes the CR again.
StepFails ==
    /\ pc \in {"addFinalizer", "cleanup", "cleanupStatus", "removeFinalizer",
              "pausedPatch", "patch"}
    /\ Fault
    /\ Return(TRUE, FALSE)
    /\ UNCHANGED <<cr, status, cache, envVars, metaVars, backoff>>

\* resolveRef may answer from the status it read.
CanReuse ==
    /\ PollingEnabled
    /\ base.status.refStatus = "Resolved"
    /\ base.status.syncRef = Effective(base.cr)
    /\ base.status.commit # NoCommit

\* Faulty variant of Resolved: commit and ref change with the ref.
ResolvedByRef(commit, ref) ==
    LET st == [work EXCEPT !.refStatus = "Resolved",
                           !.conds.refResolved = "True",
                           !.conds.commit = commit]
    IN  IF st.syncRef = ref THEN st
        ELSE [st EXCEPT !.commit = commit, !.syncRef = ref]

\* The status after the ref resolved to a commit: ref and time are kept with
\* the commit, and change only with it.
Resolved(commit, ref) ==
    LET st == [work EXCEPT !.refStatus = "Resolved",
                           !.conds.refResolved = "True",
                           !.conds.commit = commit]
    IN  IF st.commit = commit THEN st
        ELSE [st EXCEPT !.commit = commit, !.syncRef = ref]

\* The ref is resolved; then the API key secret is checked.
ResolvedTo(commit) ==
    /\ pc = "resolve"
    /\ \/ /\ secrets["api"]
          /\ backoff' = 0
          /\ work' = Resolved(commit, Effective(base.cr))
          /\ pc' = "meta"
       \/ /\ ~secrets["api"]
          /\ backoff' = Failed(0)
          /\ work' = NotReady(Resolved(commit, Effective(base.cr)))
          /\ pc' = "failPatch"
    /\ UNCHANGED <<cr, status, cache, envVars, metaVars, queued, timer, base,
                   bounds>>

ResolveFromStatus == CanReuse /\ ResolvedTo(base.status.commit)

ResolveFromRemote ==
    /\ remote[Effective(base.cr)] # NoCommit
    /\ ResolvedTo(remote[Effective(base.cr)])

\* The ref is missing at the remote, or the remote fails: Ready is left alone.
ResolveFails ==
    /\ pc = "resolve"
    /\ \/ remote[Effective(base.cr)] = NoCommit /\ UNCHANGED bounds
       \/ Fault
    /\ backoff' = Failed(backoff)
    /\ work' = [work EXCEPT !.refStatus = "Error",
                            !.conds.refResolved = "False",
                            !.conds.commit = NoCommit]
    /\ pc' = "failPatch"
    /\ UNCHANGED <<cr, status, cache, envVars, metaVars, queued, timer, base>>

\* The data of the metadata ConfigMap: the commit of this resolution.
NewMetadata == [commit |-> work.conds.commit, ref |-> Effective(base.cr),
                paused |-> base.cr.paused]

\* ensureMetadataConfigMap: nothing is written if the cache shows these data,
\* and nothing is stored if the cache lags (AlreadyExists or Conflict, which
\* is only logged).
WriteMetadata ==
    /\ pc = "meta"
    /\ meta' = IF metaSeen = meta THEN NewMetadata ELSE meta
    /\ pc' = "discover"
    /\ UNCHANGED <<cr, status, cache, envVars, metaSeen, queued, timer,
                   backoff, base, work, bounds>>

\* Any other error is only logged, too.
WriteMetadataFails ==
    /\ pc = "meta"
    /\ Fault
    /\ pc' = "discover"
    /\ UNCHANGED <<cr, status, cache, envVars, metaVars, queued, timer,
                   backoff, base, work>>

\* discoverGateways and collectGatewayStatus: a report, whatever its age,
\* overrides what the pod looks like.
Discovered(known) ==
    [p \in Pods |->
        IF pods[p] = "down" THEN NoGateway
        ELSE IF known[p] # NoGateway THEN known[p]
        ELSE [state |-> IF pods[p] = "noSidecar" THEN "MissingSidecar"
                        ELSE "Pending",
              commit |-> NoCommit]]

Cond(b) == IF b THEN "True" ELSE "False"

\* Faulty variant of Ready: a CR without gateways is ready.
ReadyVacuously(st, found, synced) ==
    /\ found = {} \/ synced
    /\ st.conds.refResolved = "True"
    /\ st.conds.profilesValid = "True"

\* The verdict of updateReadyCondition.
Ready(st, found, synced) ==
    /\ synced
    /\ st.conds.refResolved = "True"
    /\ st.conds.profilesValid = "True"

\* Faulty variant of ObservedGen: the generation at the time of the patch.
ObservedGenLive == cr.gen

\* The generation of the copy that was read.
ObservedGen == base.cr.gen

\* updateAllGatewaysSyncedCondition, updateReadyCondition and the observed
\* generation.  Without gateways SidecarInjected is left alone.
Summary(st) ==
    LET found == {p \in Pods : st.gateways[p] # NoGateway}
        synced == found # {} /\ \A p \in found :
                                    st.gateways[p].state = "Synced"
        missing == \E p \in found : st.gateways[p].state = "MissingSidecar"
    IN  [st EXCEPT
            !.conds.allSynced = Cond(synced),
            !.conds.sidecar = IF found = {} THEN @ ELSE Cond(~missing),
            !.conds.ready = Cond(Ready(st, found, synced)),
            !.observed = ObservedGen]

DiscoverWith(gateways) ==
    /\ pc = "discover"
    /\ work' = Summary([work EXCEPT !.gateways = gateways])
    /\ pc' = "patch"
    /\ UNCHANGED <<cr, status, cache, envVars, metaVars, queued, timer,
                   backoff, base>>

Discover == DiscoverWith(Discovered(reports)) /\ UNCHANGED bounds

\* The status ConfigMap cannot be read, or the pods cannot be listed: logged.
DiscoverFails ==
    /\ Fault
    /\ \/ DiscoverWith(Discovered([p \in Pods |-> NoGateway]))
       \/ DiscoverWith(work.gateways)

\* client.MergeFrom(base): only the fields that this reconcile changed in its
\* copy are sent, and they replace what the server has by now.
MergePatch(server, old, new) ==
    [f \in DOMAIN server |-> IF new[f] # old[f] THEN new[f] ELSE server[f]]

PatchedStatus == MergePatch(status, base.status, work)

\* patchStatus of a paused CR: no requeue.
PausedPatch ==
    /\ pc = "pausedPatch"
    /\ status' = PatchedStatus
    /\ Return(FALSE, FALSE)
    /\ UNCHANGED <<cr, cache, envVars, metaVars, backoff, bounds>>

\* Faulty variant of FailPatch: no retry is scheduled.
FailPatchNoRetry ==
    /\ pc = "failPatch"
    /\ status' = PatchedStatus
    /\ Return(FALSE, FALSE)
    /\ UNCHANGED <<cr, cache, envVars, metaVars, backoff, bounds>>

\* patchStatus after a failure: its error is ignored, the retry is timed.
FailPatch ==
    /\ pc = "failPatch"
    /\ \/ status' = PatchedStatus /\ UNCHANGED bounds
       \/ Fault /\ UNCHANGED status
    /\ Return(FALSE, TRUE)
    /\ UNCHANGED <<cr, cache, envVars, metaVars, backoff>>

\* Faulty variant of PollAgain: a reconcile that succeeded is not repeated.
PollAgainNever == FALSE

\* pollingInterval: a full reconcile ends with RequeueAfter.
PollAgain == PollingEnabled

\* patchStatus at the end of a full reconcile.  The API server answers with
\* the current object, and clearRequestedRefIfCaughtUp looks at that.
Patch ==
    /\ pc = "patch"
    /\ status' = PatchedStatus
    /\ \/ /\ CaughtUp(cr)
          /\ pc' = "clear"
          /\ base' = [cr |-> cr, status |-> status']
          /\ UNCHANGED <<work, queued, timer>>
       \/ ~CaughtUp(cr) /\ Return(FALSE, PollAgain)
    /\ UNCHANGED <<cr, cache, envVars, metaVars, backoff, bounds>>

\* The re-read (from the cache) and the patch that removes the annotation;
\* errors are logged.
Clear ==
    /\ pc = "clear"
    /\ \/ cache.cr.ann = base.cr.ann /\ cr' = [cr EXCEPT !.ann = NoRef]
          /\ UNCHANGED bounds
       \/ cache.cr.ann # base.cr.ann /\ UNCHANGED <<cr, bounds>>
       \/ Fault /\ UNCHANGED cr
    /\ Return(FALSE, PollAgain)
    /\ UNCHANGED <<status, cache, envVars, metaVars, backoff>>

---------------------------------------------------------------------------

Reconcile ==
    \/ Begin
    \/ AddFinalizer
    \/ CleanupMetadata
    \/ CleanupStatus
    \/ RemoveFinalizer
    \/ StepFails
    \/ ResolveFromStatus
    \/ ResolveFromRemote
    \/ ResolveFails
    \/ WriteMetadata
    \/ WriteMetadataFails
    \/ Discover
    \/ DiscoverFails
    \/ PausedPatch
    \/ FailPatch
    \/ Patch
    \/ Clear

Environment ==
    \/ UserEdit
    \/ UserDelete
    \/ SecretChange
    \/ RemoteMove
    \/ PodChange
    \/ AgentStart
    \/ AgentReport
    \/ Crash

Next ==
    \/ Environment
    \/ InformerSync
    \/ MetaSync
    \/ GarbageCollect
    \/ TimerFires
    \/ Reconcile

Spec == Init /\ [][Next]_vars

\* The watches stay connected, garbage is collected, timers fire, the work
\* queue hands the CR to a worker, and the reconcile goes on.  The time of the
\* last commit change recedes, so that resolveRef cannot answer from the
\* status for ever.
Fairness ==
    /\ WF_vars(InformerSync)
    /\ WF_vars(MetaSync)
    /\ WF_vars(GarbageCollect)
    /\ WF_vars(TimerFires)
    /\ WF_vars(Reconcile)
    /\ SF_vars(ResolveFromRemote)

FairSpec == Spec /\ Fairness

---------------------------------------------------------------------------
(* Properties.                                                             *)

\* The metadata ConfigMap, which tells agents what to sync, is written only
\* for a CR that exists and has its finalizer, although the reconcile that
\* writes looked many steps earlier, at a cache that may be stale
\* (gatewaysync_controller.go:115-131, 642-710).
WrittenUnderFinalizer ==
    [][meta' # meta /\ meta' # NoMeta => cr.exists /\ cr.finalizer]_vars

\* When the CR is gone, the metadata ConfigMap goes for good, also if the
\* cleanup missed it because its cache was behind
\* (gatewaysync_controller.go:545-571, 696-699).
MetadataGoes == <>[](~cr.exists => meta = NoMeta)

\* A status that claims to have observed the current generation judges the
\* current profiles, although the patch carries only the fields that differ
\* from a possibly stale copy (gatewaysync_controller.go:147-152, 260-263).
ObservedGenerationHonest ==
    status.observed = cr.gen
        => status.conds.profilesValid = Cond(cr.valid)

\* Ready=True is never reported together with AllGatewaysSynced other than
\* True (gateway_discovery.go:181-256).
ReadyMeansSynced ==
    status.conds.ready = "True" => status.conds.allSynced = "True"

\* The CR can be reconciled up to its metadata.
Healthy ==
    /\ cr.exists /\ ~cr.deleting /\ ~cr.paused
    /\ secrets["git"] /\ secrets["api"]
    /\ remote[Effective(cr)] # NoCommit

\* When the changes are over, agents are told the commit that the effective
\* ref has at the remote, whatever failed or crashed on the way
\* (gatewaysync_controller.go:183-246, 459-500, 826-841).
Converges ==
    <>[](Healthy => /\ meta.commit = remote[Effective(cr)]
                    /\ meta.ref = Effective(cr))

\* ... and the status says so too: a field left out of a merge patch against
\* a stale copy does not stay wrong (gatewaysync_controller.go:802-806).
StatusConverges == <>[](Healthy => status.commit = meta.commit)

\* What the agents reported last is what the CR shows in the end
\* (gateway_discovery.go:120-177).
ReportsSurface ==
    <>[](Healthy => status.gateways = Discovered(reports))

\* A CR marked for deletion goes, paused or not, whatever failed on the way
\* (gatewaysync_controller.go:115-125).
DeletionCompletes == [](cr.deleting => <>(~cr.exists))

\* "Ready=True only when all three are True" (gateway_discovery.go:225).
ReadyOnlyWhenAllThree ==
    status.conds.ready = "True"
        => /\ status.conds.refResolved = "True"
           /\ status.conds.profilesValid = "True"
           /\ status.conds.allSynced = "True"

\* resolveRef answers from the status if "the ref is already resolved at the
\* desired ref" (gatewaysync_controller.go:467-468): agents are never told a
\* commit that the ref has not had.
MetadataGenuine == meta # NoMeta => <<meta.ref, meta.commit>> \in pointed

\* "ConfigMaps are cleaned up on deletion"
\* (test/e2e/controller-core/02-finalizer-cleanup/chainsaw-test.yaml:6): when
\* the CR is gone, so is the status ConfigMap.
NothingLeftBehind == ~cr.exists => reports = [p \in Pods |-> NoGateway]

\* A paused CR: "The controller continues to reconcile and resolve refs"
\* (gatewaysync-cr.md:347).
PausedStillResolves ==
    <>[](cr.exists /\ ~cr.deleting /\ remote[Effective(cr)] # NoCommit
            => status.commit = remote[Effective(cr)])

=============================================================================
