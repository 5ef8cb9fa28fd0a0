------------------------------ MODULE Sidecar ------------------------------
(***************************************************************************)
(* Pods get their agent and its permissions: the pod injector (a mutating   *)
(* webhook) and the controller's role bindings, for the GatewaySync CRs and  *)
(* the pods of one namespace.  Injector and controller are one process and   *)
(* read the same informer cache, which lags behind the API server; deliveries *)
(* into the cache also put CRs into the controller's queue.                  *)
(***************************************************************************)
EXTENDS Naturals

CONSTANTS
    CRs,        \* names of GatewaySync CRs
    Pods,       \* names of pods
    Templates,  \* pods as they are submitted: inject, cr, profile, sa
    Profiles,   \* names in spec.sync.profiles
    Auths,      \* spec.git.auth: sets of "ssh", "knownHosts", "token", "app"
    Polling,    \* spec.polling.enabled: the values that CRs are created with
    Foreign,    \* role bindings that somebody else creates, see Bindings
    MaxChanges, \* bound on changes by users
    MaxFaults   \* bound on failures

NoCR == [uid |-> 0, paused |-> FALSE, poll |-> FALSE, auth |-> {}]
NoPod == [sa |-> "", cr |-> "", agent |-> {}]
NoBinding == [role |-> "", cluster |-> FALSE, owner |-> 0, ours |-> FALSE,
              subjects |-> {}, accounts |-> FALSE]
NoWork == {}

AgentRole == "stoker-agent"
Default == "default"

ServiceAccounts == {t.sa : t \in Templates} \cup {Default}
Agents == [cr: CRs, profile: Profiles \cup {""}, auth: Auths]

ASSUME TemplateAssumption ==
    Templates \subseteq [inject: BOOLEAN, cr: CRs \cup {""},
                         profile: STRING, sa: STRING \ {""}]
ASSUME AuthAssumption ==
    \A a \in Auths : a \subseteq {"ssh", "knownHosts", "token", "app"}
ASSUME NameAssumption == "" \notin CRs /\ Polling \subseteq BOOLEAN
ASSUME ForeignAssumption ==
    \A b \in Foreign :
        /\ b.role # "" /\ b.subjects \subseteq ServiceAccounts
        /\ {b.cluster, b.accounts} \subseteq BOOLEAN
ASSUME BoundAssumption == MaxChanges \in Nat /\ MaxFaults \in Nat

VARIABLES
    cr,         \* the CRs; uid 0 means that there is none
    pod,        \* the pods; sa "" means that there is none
    binding,    \* the role bindings: the name of the role, whether it is a
                \* ClusterRole, the names of the subjects, and whether they
                \* are service accounts of the namespace; role "" means that
                \* there is none, ours (history) that the controller created it
    seenCR, seenPod, seenBinding,  \* the same in the cache
    told,       \* CRs that a change of their binding will put into the queue
    queue,      \* CRs to reconcile
    work,       \* per CR, what its reconcile has collected
    unfinished, \* history: CRs whose last reconcile did not get its way
    named,      \* history: per CR, service accounts of pods that named it
    changes, faults

api == <<cr, pod, binding, told>>
cache == <<seenCR, seenPod, seenBinding>>
vars == <<cr, pod, binding, told, seenCR, seenPod, seenBinding, queue, work,
          unfinished, named, changes, faults>>

---------------------------------------------------------------------------
(* The sidecar that injectSidecar adds, and the agent that runs in it.     *)

\* buildEnvVars: the credential files the agent is told of, and their volumes.
Env(auth) ==
    IF "ssh" \in auth
    THEN {[var |-> "GIT_SSH_KEY_FILE", volume |-> "git-credentials"]}
           \cup {[var |-> "GIT_KNOWN_HOSTS_FILE", volume |-> "known-hosts"] :
                    k \in auth \cap {"knownHosts"}}
    ELSE IF "token" \in auth
    THEN {[var |-> "GIT_TOKEN_FILE", volume |-> "git-credentials"]}
    ELSE IF "app" \in auth
    THEN {[var |-> "GIT_TOKEN_FILE", volume |-> "github-token"]}
    ELSE {}

\* agentVolumes and agentVolumeMounts: which Secret is mounted where.
Volumes(name, auth) ==
    {[volume |-> "git-credentials", secret |-> "ssh key"] : k \in auth \cap {"ssh"}}
    \cup {[volume |-> "git-credentials", secret |-> "token"] :
             k \in IF "ssh" \in auth THEN {} ELSE auth \cap {"token"}}
    \cup {[volume |-> "github-token", secret |-> name] : k \in auth \cap {"app"}}
    \cup {[volume |-> "known-hosts", secret |-> "known hosts"] :
             k \in IF "ssh" \in auth THEN auth \cap {"knownHosts"} ELSE {}}

\* buildGitEnv: the files that git is run with.
FilesUsed(env) ==
    LET ssh == {e \in env : e.var = "GIT_SSH_KEY_FILE"}
    IN  IF ssh # {} THEN ssh \cup {e \in env : e.var = "GIT_KNOWN_HOSTS_FILE"}
        ELSE {e \in env : e.var = "GIT_TOKEN_FILE"}

\* resolveRef and ResolveAuth: the Secrets the controller itself goes by.
ControllerSecrets(name, auth) ==
    IF "app" \in auth THEN {name}
    ELSE IF "ssh" \in auth
    THEN {"ssh key"} \cup {"known hosts" : k \in auth \cap {"knownHosts"}}
    ELSE {"token" : k \in auth \cap {"token"}}

\* LoadConfig: the profile an agent runs; without PROFILE it exits at once.
ProfileRun(a) == {a.profile} \ {""}

---------------------------------------------------------------------------
(* Admission.                                                              *)

\* resolveCRName: the annotation, or else the only CR in the cache.
Named(t) ==
    LET known == {c \in CRs : seenCR[c].uid # 0}
    IN  IF t.cr # "" THEN {t.cr}
        ELSE IF \A c, d \in known : c = d THEN known
        ELSE {}

\* Handle gets as far as injectSidecar.
Accepts(c, t) ==
    /\ seenCR[c].uid # 0
    /\ ~seenCR[c].paused
    /\ t.profile \in Profiles \cup {""}

Init ==
    /\ cr = [c \in CRs |-> NoCR]
    /\ pod = [p \in Pods |-> NoPod]
    /\ binding = [c \in CRs |-> NoBinding]
    /\ seenCR = cr /\ seenPod = pod /\ seenBinding = binding
    /\ told = {} /\ queue = {}
    /\ work = [c \in CRs |-> NoWork]
    /\ unfinished = {}
    /\ named = [c \in CRs |-> {}]
    /\ changes = 0 /\ faults = 0

Admitted(p, obj) ==
    /\ pod' = [pod EXCEPT ![p] = obj]
    /\ named' = [c \in CRs |-> IF obj.cr = c THEN named[c] \cup {obj.sa} ELSE named[c]]
    /\ changes' = changes + 1
    /\ UNCHANGED <<cr, binding, told, cache, queue, work, unfinished>>

Submitted(p) == changes < MaxChanges /\ pod[p] = NoPod

\* The pod comes out with an agent and the name of its CR.  When it is denied
\* instead, nothing changes.
Inject(p, t) ==
    /\ Submitted(p)
    /\ t.inject
    /\ \E c \in Named(t) :
          /\ Accepts(c, t)
          /\ Admitted(p, [sa |-> t.sa, cr |-> c,
                          agent |-> {[cr |-> c, profile |-> t.profile,
                                      auth |-> seenCR[c].auth]}])
    /\ UNCHANGED faults

\* Injection was not asked for.
AdmitAsIs(p, t) ==
    /\ Submitted(p)
    /\ ~t.inject
    /\ Admitted(p, [sa |-> t.sa, cr |-> t.cr, agent |-> {}])
    /\ UNCHANGED faults

\* The webhook cannot be reached, and its failurePolicy is Ignore.
WebhookDown(p, t) ==
    /\ Submitted(p)
    /\ t.inject
    /\ faults < MaxFaults
    /\ Admitted(p, [sa |-> t.sa, cr |-> t.cr, agent |-> {}])
    /\ faults' = faults + 1

---------------------------------------------------------------------------
(* Users and the cluster.                                                  *)

\* Faulty variant of OwnerOf: role bindings are not watched.
OwnerOfNone(c, b) == {}

\* Owns: a controller reference names the CR to reconcile.
OwnerOf(c, b) == IF b.owner # 0 THEN {c} ELSE {}

\* A write of c's binding: the watch tells of what was there and of what is.
PutBinding(c, b) ==
    /\ binding' = [binding EXCEPT ![c] = b]
    /\ told' = told \cup OwnerOf(c, binding[c]) \cup OwnerOf(c, b)

ChangeCR(c, new) ==
    /\ changes < MaxChanges
    /\ cr' = [cr EXCEPT ![c] = new]
    /\ changes' = changes + 1
    /\ UNCHANGED <<pod, binding, told, cache, queue, work, unfinished, named, faults>>

CreateCR(c) ==
    /\ cr[c].uid = 0
    /\ \E a \in Auths, poll \in Polling :
          ChangeCR(c, [uid |-> changes + 1, paused |-> FALSE, poll |-> poll,
                       auth |-> a])

EditCR(c) ==
    /\ cr[c].uid # 0
    /\ \/ ChangeCR(c, [cr[c] EXCEPT !.paused = ~@])
       \/ \E a \in Auths \ {cr[c].auth} : ChangeCR(c, [cr[c] EXCEPT !.auth = a])

\* The finalizer has been removed by now.
DeleteCR(c) ==
    /\ cr[c].uid # 0
    /\ ChangeCR(c, NoCR)

DeletePod(p) ==
    /\ changes < MaxChanges
    /\ pod[p] # NoPod
    /\ pod' = [pod EXCEPT ![p] = NoPod]
    /\ changes' = changes + 1
    /\ UNCHANGED <<cr, binding, told, cache, queue, work, unfinished, named, faults>>

CreateForeign(c, b) ==
    /\ changes < MaxChanges
    /\ binding[c] = NoBinding
    /\ PutBinding(c, [role |-> b.role, cluster |-> b.cluster, owner |-> 0,
                      ours |-> FALSE, subjects |-> b.subjects,
                      accounts |-> b.accounts])
    /\ changes' = changes + 1
    /\ UNCHANGED <<cr, pod, cache, queue, work, unfinished, named, faults>>

\* The garbage collector removes what an owner that is gone has left.
Collect(c) ==
    /\ binding[c].owner # 0
    /\ binding[c].owner # cr[c].uid
    /\ PutBinding(c, NoBinding)
    /\ UNCHANGED <<cr, pod, cache, queue, work, unfinished, named, changes, faults>>

---------------------------------------------------------------------------
(* Deliveries into the cache, and what they put into the queue.            *)

DeliverCR(c) ==
    /\ seenCR[c] # cr[c]
    /\ seenCR' = [seenCR EXCEPT ![c] = cr[c]]
    /\ queue' = queue \cup {c}
    /\ UNCHANGED <<api, seenPod, seenBinding, work, unfinished, named, changes, faults>>

\* Faulty variant of DeliverPod: only the object as it is now is looked at.
DeliverPodNow(p) ==
    /\ seenPod[p] # pod[p]
    /\ seenPod' = [seenPod EXCEPT ![p] = pod[p]]
    /\ queue' = queue \cup ({pod[p].cr} \ {""})
    /\ UNCHANGED <<api, seenCR, seenBinding, work, unfinished, named, changes, faults>>

\* findGatewaySyncForPod, of the object before and after.
DeliverPod(p) ==
    /\ seenPod[p] # pod[p]
    /\ seenPod' = [seenPod EXCEPT ![p] = pod[p]]
    /\ queue' = queue \cup ({seenPod[p].cr, pod[p].cr} \ {""})
    /\ UNCHANGED <<api, seenCR, seenBinding, work, unfinished, named, changes, faults>>

DeliverBinding(c) ==
    /\ seenBinding[c] # binding[c] \/ c \in told
    /\ seenBinding' = [seenBinding EXCEPT ![c] = binding[c]]
    /\ told' = told \ {c}
    /\ queue' = queue \cup (told \cap {c})
    /\ UNCHANGED <<cr, pod, binding, seenCR, seenPod, work, unfinished, named, changes, faults>>

---------------------------------------------------------------------------
(* The reconciler.                                                         *)

\* Faulty variant of AccountsOf: pods of other CRs count too.
AccountsOfAll(c) == {seenPod[p].sa : p \in {q \in Pods : seenPod[q] # NoPod}}

\* collectServiceAccountsFromPods.
AccountsOf(c) == {seenPod[p].sa : p \in {q \in Pods : seenPod[q].cr = c}}

\* Faulty variant of OrDefault: a binding without subjects.
OrDefaultNone(accounts) == accounts

OrDefault(accounts) == IF accounts = {} THEN {Default} ELSE accounts

Collected(c, accounts) ==
    [owner |-> seenCR[c].uid, poll |-> seenCR[c].poll,
     subjects |-> OrDefault(accounts)]

CanReconcile(c) == c \in queue /\ work[c] = NoWork

\* Deleted or paused CRs are left alone.
ReconcileNothing(c) ==
    /\ CanReconcile(c)
    /\ seenCR[c].uid = 0 \/ seenCR[c].paused
    /\ queue' = queue \ {c}
    /\ UNCHANGED <<api, cache, work, unfinished, named, changes, faults>>

\* ensureAgentRoleBinding has listed the pods.
ReconcileList(c) ==
    /\ CanReconcile(c)
    /\ seenCR[c].uid # 0 /\ ~seenCR[c].paused
    /\ queue' = queue \ {c}
    /\ work' = [work EXCEPT ![c] = {Collected(c, AccountsOf(c))}]
    /\ UNCHANGED <<api, cache, unfinished, named, changes, faults>>

\* The list fails, and that counts as no pods.
ReconcileListFails(c) ==
    /\ CanReconcile(c)
    /\ seenCR[c].uid # 0 /\ ~seenCR[c].paused
    /\ faults < MaxFaults
    /\ queue' = queue \ {c}
    /\ work' = [work EXCEPT ![c] = {Collected(c, {})}]
    /\ faults' = faults + 1
    /\ unfinished' = unfinished \cup {c}
    /\ UNCHANGED <<api, cache, named, changes>>

\* The ref cannot be resolved: the reconcile ends before it comes to role
\* bindings, and is tried again after a delay.
ReconcileFailsEarly(c) ==
    /\ CanReconcile(c)
    /\ seenCR[c].uid # 0 /\ ~seenCR[c].paused
    /\ faults < MaxFaults
    /\ faults' = faults + 1
    /\ UNCHANGED <<api, cache, queue, work, unfinished, named, changes>>

\* The reconcile goes on to its end; with polling there is another one.
Finish(c) ==
    /\ work' = [work EXCEPT ![c] = NoWork]
    /\ queue' = queue \cup {c : w \in {v \in work[c] : v.poll}}
    /\ UNCHANGED <<cr, pod, cache, named, changes>>

\* Faulty variant of NewBinding: no controller reference.
NewBindingUnowned(w) ==
    [role |-> AgentRole, cluster |-> TRUE, owner |-> 0, ours |-> TRUE,
     subjects |-> w.subjects, accounts |-> TRUE]

NewBinding(w) ==
    [role |-> AgentRole, cluster |-> TRUE, owner |-> w.owner, ours |-> TRUE,
     subjects |-> w.subjects, accounts |-> TRUE]

\* What the write leaves, going by the cached binding.  The role and the
\* subjects are compared by name only.  A create fails on any binding, an
\* update on one that has changed, a delete never.
Written(c, w) ==
    IF seenBinding[c] = NoBinding
    THEN IF binding[c] = NoBinding THEN NewBinding(w) ELSE binding[c]
    ELSE IF seenBinding[c].role # AgentRole THEN NoBinding
    ELSE IF seenBinding[c].subjects # w.subjects /\ seenBinding[c] = binding[c]
    THEN [binding[c] EXCEPT !.subjects = w.subjects, !.accounts = TRUE]
    ELSE binding[c]

\* A binding that is not the controller's: nobody reconciles when it changes.
Unwatched(b) == b # NoBinding /\ b.owner = 0

\* By the names of its role and subjects b is the binding for the cached pods.
Fits(b, c) == b.role = AgentRole /\ b.subjects = OrDefault(AccountsOf(c))

\* ensureAgentRoleBinding reads the binding from the cache and writes it.
ReconcileBind(c) ==
    /\ \E w \in work[c] :
          LET new == Written(c, w)
          IN  /\ IF new = binding[c] THEN UNCHANGED <<binding, told>>
                 ELSE PutBinding(c, new)
              /\ unfinished' =
                   IF Fits(new, c)
                   THEN unfinished \ {c}
                   ELSE IF Unwatched(seenBinding[c]) \/ Unwatched(binding[c])
                   THEN unfinished \cup {c}
                   ELSE unfinished
    /\ Finish(c)
    /\ UNCHANGED faults

\* The API server refuses; the error is logged.
ReconcileBindFails(c) ==
    /\ work[c] # NoWork
    /\ faults < MaxFaults
    /\ faults' = faults + 1
    /\ unfinished' = unfinished \cup {c}
    /\ Finish(c)
    /\ UNCHANGED <<binding, told>>

---------------------------------------------------------------------------

Users ==
    \/ \E p \in Pods : DeletePod(p)
    \/ \E p \in Pods, t \in Templates :
          Inject(p, t) \/ AdmitAsIs(p, t) \/ WebhookDown(p, t)
    \/ \E c \in CRs : CreateCR(c) \/ EditCR(c) \/ DeleteCR(c)
    \/ \E c \in CRs, b \in Foreign : CreateForeign(c, b)

Reconcile(c) ==
    \/ ReconcileNothing(c) \/ ReconcileList(c) \/ ReconcileBind(c)

Failure(c) ==
    \/ ReconcileListFails(c) \/ ReconcileFailsEarly(c) \/ ReconcileBindFails(c)

Next ==
    \/ Users
    \/ \E p \in Pods : DeliverPod(p)
    \/ \E c \in CRs :
          \/ Collect(c) \/ DeliverCR(c) \/ DeliverBinding(c)
          \/ Reconcile(c) \/ Failure(c)

Spec == Init /\ [][Next]_vars

FairSpec ==
    /\ Spec
    /\ \A p \in Pods : WF_vars(DeliverPod(p))
    /\ \A c \in CRs :
          /\ WF_vars(DeliverCR(c)) /\ WF_vars(DeliverBinding(c))
          /\ WF_vars(Collect(c)) /\ WF_vars(Reconcile(c))

---------------------------------------------------------------------------
(* Properties.                                                             *)

Bindings == [role: {"", AgentRole} \cup {b.role : b \in Foreign},
             cluster: BOOLEAN, owner: 0..MaxChanges, ours: BOOLEAN,
             subjects: SUBSET ServiceAccounts, accounts: BOOLEAN]
CRSpecs == [uid: 0..MaxChanges, paused: BOOLEAN, poll: BOOLEAN,
            auth: Auths \cup {{}}]

PodObjects == [sa: ServiceAccounts \cup {""}, cr: CRs \cup {""},
               agent: SUBSET Agents]
Works == [owner: 1..MaxChanges, poll: BOOLEAN, subjects: SUBSET ServiceAccounts]

TypeOK ==
    /\ cr \in [CRs -> CRSpecs] /\ seenCR \in [CRs -> CRSpecs]
    /\ pod \in [Pods -> PodObjects] /\ seenPod \in [Pods -> PodObjects]
    /\ binding \in [CRs -> Bindings] /\ seenBinding \in [CRs -> Bindings]
    /\ queue \subseteq CRs /\ told \subseteq CRs /\ unfinished \subseteq CRs
    /\ work \in [CRs -> SUBSET Works]
    /\ \A c \in CRs : \A w \in work[c] : w.subjects # {}
    /\ named \in [CRs -> SUBSET ServiceAccounts]
    /\ changes \in 0..MaxChanges /\ faults \in 0..MaxFaults

\* No wake-up is lost: a CR that is in the cache, not paused, and about which
\* neither the queue nor a running reconcile nor a watch event has anything
\* left to do, is bound to the accounts of the pods in the cache, unless its
\* last reconcile did not get its way; a pod or binding may change between any
\* two steps of a reconcile (rbac.go:36-144, gateway_discovery.go:25-39,
\* gatewaysync_controller.go:915-926).
NothingForgotten ==
    \A c \in CRs :
        /\ seenCR[c].uid # 0 /\ ~seenCR[c].paused
        /\ c \notin queue \cup told \cup unfinished
        /\ work[c] = NoWork
        => Fits(binding[c], c)

\* The files an agent gives to git are in mounted Secrets, and they are those
\* that the controller resolves the ref with now.  False when a CR configures
\* two methods, and after an edit of the auth, which reaches no agent that
\* has been injected (inject.go:369-392, 437-548, client.go:263-336,
\* gatewaysync_controller.go:477-496).
AgentHasCredential ==
    \A p \in Pods : \A a \in pod[p].agent :
        LET volumes == Volumes(a.cr, a.auth)
            files == FilesUsed(Env(a.auth))
        IN  cr[a.cr].uid # 0
            => /\ \A f \in files : \E v \in volumes : v.volume = f.volume
               /\ {v.secret : v \in {u \in volumes :
                                       \E f \in files : f.volume = u.volume}}
                    = ControllerSecrets(a.cr, cr[a.cr].auth)

\* Only the service accounts of pods that have named the CR are bound, and the
\* default one; somebody else's subjects only until they are replaced
\* (rbac.go:36-144).
BoundOnlyWhenNamed ==
    \A c \in CRs :
        binding[c].ours => binding[c].subjects \subseteq named[c] \cup {Default}

\* The service accounts of the pods that name c are bound, and no others.
Bound(c) ==
    LET accounts == {pod[p].sa : p \in {q \in Pods : pod[q].cr = c}}
    IN  /\ binding[c].role = AgentRole /\ binding[c].cluster
        /\ binding[c].accounts
        /\ binding[c].subjects = IF accounts = {} THEN {Default} ELSE accounts

\* Somebody else's binding that the controller takes for its own: it has the
\* names that it looks for, on a Role or on subjects of another kind or
\* namespace (rbac.go:93, 146-173).
Lookalike(c) ==
    /\ Unwatched(binding[c])
    /\ ~binding[c].cluster \/ ~binding[c].accounts
    /\ Fits(binding[c], c)

\* The service accounts of the pods that name a CR are bound in the end, and no
\* others, whatever was stale, failed or deleted on the way, unless somebody
\* else's binding has the same names.  Without polling nothing repeats a
\* reconcile that did not get its way
\* (rbac.go:36-144, gateway_discovery.go:25-39, gatewaysync_controller.go:915-926).
BoundInTheEnd ==
    \A c \in CRs :
        <>[](\/ cr[c].uid = 0 \/ cr[c].paused
             \/ c \in unfinished /\ ~cr[c].poll
             \/ Lookalike(c)
             \/ Bound(c))

\* A binding with the wrong role is recreated by the next reconcile, polling or
\* not (rbac.go:93-101).
RecreatedInTheEnd ==
    \A c \in CRs : <>[](cr[c].uid = 0 \/ cr[c].paused \/ Bound(c))

\* No binding that the controller created outlives its CR for ever, one created
\* by a reconcile that overlapped the deletion included (rbac.go:77-83).
NoBindingLeft ==
    \A c \in CRs :
        <>[](cr[c].uid = 0 => ~binding[c].ours)

\* A pod without a profile runs the one called default (config.go:82-84,
\* inject.go:110-117).
RunsDefaultProfile ==
    \A p \in Pods : \A a \in pod[p].agent :
        a.profile = "" => ProfileRun(a) = {Default}

=============================================================================
