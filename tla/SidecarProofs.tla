--------------------------- MODULE SidecarProofs ---------------------------
(***************************************************************************)
(* Proofs about module Sidecar: types; that the controller binds only       *)
(* service accounts of pods that have named the CR; that no wake-up is      *)
(* lost; and that injector, agent and controller choose the same Secrets,   *)
(* if at most one method is configured.  For any CRs, pods, templates,       *)
(* foreign bindings, changes and failures.                                   *)
(***************************************************************************)
EXTENDS Sidecar, TLAPS

---------------------------------------------------------------------------
(* The inductive invariant.                                                *)

\* A CR that exists has one of the configured auths, in the cache, too.
ExistingAuth ==
    \A c \in CRs :
        /\ cr[c].uid # 0 => cr[c].auth \in Auths
        /\ seenCR[c].uid # 0 => seenCR[c].auth \in Auths

\* The service accounts of the pods that name c, and of those in the cache, and
\* what reconciles have collected from them, are among those that have named c.
NamedPods ==
    \A c \in CRs, p \in Pods :
        /\ pod[p].cr = c => pod[p].sa \in named[c]
        /\ seenPod[p].cr = c => seenPod[p].sa \in named[c]

NamedWork ==
    \A c \in CRs : \A w \in work[c] : w.subjects \subseteq named[c] \cup {Default}

IInv ==
    /\ TypeOK
    /\ ExistingAuth
    /\ NamedPods
    /\ NamedWork
    /\ BoundOnlyWhenNamed

\* Objects that do not exist have their types.
LEMMA NothingTyped ==
    NoCR \in CRSpecs /\ NoPod \in PodObjects /\ NoBinding \in Bindings
<1>1. MaxChanges \in Nat
  BY BoundAssumption
<1> QED BY <1>1 DEF NoCR, CRSpecs, NoPod, PodObjects, NoBinding, Bindings

\* IInv holds to begin with.
LEMMA InitIInv == Init => IInv
<1> SUFFICES ASSUME Init PROVE IInv
  OBVIOUS
<1> USE BoundAssumption
<1>1. TypeOK
  BY NothingTyped DEF Init, TypeOK, NoWork
<1>2. ExistingAuth
  BY DEF Init, ExistingAuth, NoCR
<1>3. NamedPods
  BY NameAssumption DEF Init, NamedPods, NoPod
<1>4. NamedWork /\ BoundOnlyWhenNamed
  BY DEF Init, NamedWork, NoWork, BoundOnlyWhenNamed, NoBinding
<1> QED BY <1>1, <1>2, <1>3, <1>4 DEF IInv

---------------------------------------------------------------------------
(* Admission.                                                              *)

\* An admitted pod keeps IInv.
LEMMA AdmittedIInv ==
    ASSUME IInv, NEW p \in Pods, NEW obj \in PodObjects, obj.sa \in ServiceAccounts,
           changes < MaxChanges, Admitted(p, obj), faults' \in 0..MaxFaults
    PROVE  IInv'
<1> USE BoundAssumption
<1>1. /\ pod' = [pod EXCEPT ![p] = obj]
      /\ named' = [c \in CRs |-> IF obj.cr = c THEN named[c] \cup {obj.sa}
                                 ELSE named[c]]
      /\ changes' = changes + 1
      /\ UNCHANGED <<cr, binding, told, seenCR, seenPod, seenBinding, queue, work,
                     unfinished>>
  BY DEF Admitted, cache
<1>2. named' \in [CRs -> SUBSET ServiceAccounts]
  BY <1>1 DEF IInv, TypeOK
<1>3. \A c \in CRs : named[c] \subseteq named'[c]
  BY <1>1
<1>4. TypeOK'
  BY <1>1, <1>2 DEF IInv, TypeOK
<1>5. ASSUME NEW c \in CRs, NEW q \in Pods
      PROVE  /\ pod'[q].cr = c => pod'[q].sa \in named'[c]
             /\ seenPod'[q].cr = c => seenPod'[q].sa \in named'[c]
  <2>1. CASE q = p
    BY <1>1, <1>3, <2>1 DEF IInv, TypeOK, NamedPods
  <2>2. CASE q # p
    BY <1>1, <1>3, <2>2 DEF IInv, TypeOK, NamedPods
  <2> QED BY <2>1, <2>2
<1>6. NamedPods'
  BY <1>5 DEF NamedPods
<1>7. NamedWork' /\ BoundOnlyWhenNamed'
  BY <1>1, <1>3 DEF IInv, NamedWork, BoundOnlyWhenNamed
<1>8. ExistingAuth'
  BY <1>1 DEF IInv, ExistingAuth
<1> QED BY <1>4, <1>6, <1>7, <1>8 DEF IInv

\* The fields of a template.
LEMMA TemplateFields ==
    ASSUME NEW t \in Templates
    PROVE  /\ t.cr \in CRs \cup {""}
           /\ t.sa \in ServiceAccounts
BY TemplateAssumption DEF ServiceAccounts

\* A pod that comes out with an agent keeps IInv: the agent's auth is that of a
\* CR in the cache.
LEMMA InjectIInv ==
    ASSUME IInv, NEW p \in Pods, NEW t \in Templates, Inject(p, t)
    PROVE  IInv'
<1>1. PICK c \in Named(t) :
         /\ Accepts(c, t)
         /\ Admitted(p, [sa |-> t.sa, cr |-> c,
                         agent |-> {[cr |-> c, profile |-> t.profile,
                                     auth |-> seenCR[c].auth]}])
  BY DEF Inject
<1>2. c \in CRs
  BY TemplateFields DEF Named
<1>3. [cr |-> c, profile |-> t.profile, auth |-> seenCR[c].auth] \in Agents
  BY <1>1, <1>2 DEF IInv, ExistingAuth, Accepts, Agents
<1> DEFINE obj == [sa |-> t.sa, cr |-> c,
                   agent |-> {[cr |-> c, profile |-> t.profile,
                               auth |-> seenCR[c].auth]}]
<1>4. obj \in PodObjects /\ obj.sa \in ServiceAccounts
  BY <1>2, <1>3, TemplateFields DEF PodObjects
<1>5. changes < MaxChanges /\ faults' \in 0..MaxFaults
  BY DEF IInv, TypeOK, Inject, Submitted
<1> QED BY <1>1, <1>4, <1>5, AdmittedIInv

\* A pod without an agent keeps IInv.
LEMMA PlainPodIInv ==
    ASSUME IInv, NEW p \in Pods, NEW t \in Templates,
           AdmitAsIs(p, t) \/ WebhookDown(p, t)
    PROVE  IInv'
<1> DEFINE obj == [sa |-> t.sa, cr |-> t.cr, agent |-> {}]
<1>1. obj \in PodObjects /\ obj.sa \in ServiceAccounts
  BY TemplateFields DEF PodObjects
<1>2. changes < MaxChanges /\ Admitted(p, obj)
  BY DEF AdmitAsIs, WebhookDown, Submitted
<1>3. faults' \in 0..MaxFaults
  BY BoundAssumption DEF IInv, TypeOK, AdmitAsIs, WebhookDown
<1> QED BY <1>1, <1>2, <1>3, AdmittedIInv

---------------------------------------------------------------------------
(* Users, the cluster, and deliveries.                                     *)

\* A changed CR keeps IInv.
LEMMA ChangeCRIInv ==
    ASSUME IInv, NEW c \in CRs, NEW new \in CRSpecs, ChangeCR(c, new),
           new.uid # 0 => new.auth \in Auths
    PROVE  IInv'
<1> USE BoundAssumption
<1>1. /\ cr' = [cr EXCEPT ![c] = new]
      /\ changes' \in 0..MaxChanges
      /\ UNCHANGED <<pod, binding, told, seenCR, seenPod, seenBinding, queue, work,
                     unfinished, named, faults>>
  BY DEF ChangeCR, cache, IInv, TypeOK
<1>2. TypeOK'
  BY <1>1 DEF IInv, TypeOK
<1>3. ExistingAuth'
  BY <1>1 DEF IInv, TypeOK, ExistingAuth
<1>4. NamedPods' /\ NamedWork' /\ BoundOnlyWhenNamed'
  BY <1>1 DEF IInv, NamedPods, NamedWork, BoundOnlyWhenNamed
<1> QED BY <1>2, <1>3, <1>4 DEF IInv

\* Creating, editing and deleting a CR keep IInv.
LEMMA UserCRIInv ==
    ASSUME IInv, NEW c \in CRs, CreateCR(c) \/ EditCR(c) \/ DeleteCR(c)
    PROVE  IInv'
<1> USE BoundAssumption
<1>1. cr[c] \in CRSpecs /\ changes \in 0..MaxChanges
  BY DEF IInv, TypeOK
<1>2. CASE CreateCR(c)
  <2>1. PICK a \in Auths, poll \in Polling :
           ChangeCR(c, [uid |-> changes + 1, paused |-> FALSE, poll |-> poll,
                        auth |-> a])
    BY <1>2 DEF CreateCR
  <2>2. changes < MaxChanges
    BY <2>1 DEF ChangeCR
  <2>3. PICK u \in 0..MaxChanges : u = changes + 1
    BY <1>1, <2>2
  <2>4. poll \in BOOLEAN
    BY NameAssumption
  <2>5. [uid |-> u, paused |-> FALSE, poll |-> poll, auth |-> a] \in CRSpecs
    BY <2>4 DEF CRSpecs
  <2> QED BY <2>1, <2>3, <2>5, ChangeCRIInv
<1>3. CASE EditCR(c)
  <2>1. cr[c].auth \in Auths
    BY <1>3 DEF EditCR, IInv, ExistingAuth
  <2>2. CASE ChangeCR(c, [cr[c] EXCEPT !.paused = ~@])
    <3>1. [cr[c] EXCEPT !.paused = ~@] \in CRSpecs
      BY <1>1 DEF CRSpecs
    <3>2. [cr[c] EXCEPT !.paused = ~@].auth = cr[c].auth
      BY <1>1 DEF CRSpecs
    <3> QED BY <2>1, <2>2, <3>1, <3>2, ChangeCRIInv
  <2>3. ASSUME NEW a \in Auths, ChangeCR(c, [cr[c] EXCEPT !.auth = a])
        PROVE  IInv'
    <3>1. [cr[c] EXCEPT !.auth = a] \in CRSpecs
      BY <1>1 DEF CRSpecs
    <3>2. [cr[c] EXCEPT !.auth = a].auth = a
      BY <1>1 DEF CRSpecs
    <3> QED BY <2>3, <3>1, <3>2, ChangeCRIInv
  <2> QED BY <1>3, <2>2, <2>3 DEF EditCR
<1>4. CASE DeleteCR(c)
  BY <1>4, NothingTyped, ChangeCRIInv DEF DeleteCR, NoCR
<1> QED BY <1>2, <1>3, <1>4

\* A deleted pod keeps IInv.
LEMMA DeletePodIInv ==
    ASSUME IInv, NEW p \in Pods, DeletePod(p)
    PROVE  IInv'
<1> USE BoundAssumption
<1>1. /\ pod' = [pod EXCEPT ![p] = NoPod]
      /\ changes' \in 0..MaxChanges
      /\ UNCHANGED <<cr, binding, told, seenCR, seenPod, seenBinding, queue, work,
                     unfinished, named, faults>>
  BY DEF DeletePod, cache, IInv, TypeOK
<1>2. TypeOK'
  BY <1>1, NothingTyped DEF IInv, TypeOK
<1>3. ASSUME NEW c \in CRs, NEW q \in Pods, pod'[q].cr = c
      PROVE  pod'[q].sa \in named'[c]
  <2>1. q # p
    BY <1>1, <1>3, NameAssumption DEF IInv, TypeOK, NoPod
  <2> QED BY <1>1, <1>3, <2>1 DEF IInv, TypeOK, NamedPods
<1>4. NamedPods'
  BY <1>1, <1>3 DEF IInv, NamedPods
<1>5. ExistingAuth' /\ NamedWork' /\ BoundOnlyWhenNamed'
  BY <1>1 DEF IInv, ExistingAuth, NamedWork, BoundOnlyWhenNamed
<1> QED BY <1>2, <1>4, <1>5 DEF IInv

\* A written binding keeps IInv, if its subjects are named when it is ours.
LEMMA PutBindingIInv ==
    ASSUME IInv, NEW c \in CRs, NEW b \in Bindings, PutBinding(c, b),
           b.ours => b.subjects \subseteq named[c] \cup {Default},
           UNCHANGED <<cr, pod, seenCR, seenPod, seenBinding, named>>,
           work' \in [CRs -> SUBSET Works],
           \A d \in CRs : work'[d] \subseteq work[d],
           queue' \subseteq CRs, unfinished' \subseteq CRs,
           changes' \in 0..MaxChanges, faults' \in 0..MaxFaults
    PROVE  IInv'
<1>1. binding' \in [CRs -> Bindings] /\ told' \subseteq CRs
  BY DEF PutBinding, OwnerOf, IInv, TypeOK
<1>2. TypeOK'
  BY <1>1 DEF IInv, TypeOK
<1>3. BoundOnlyWhenNamed'
  BY DEF IInv, TypeOK, PutBinding, BoundOnlyWhenNamed
<1>4. ExistingAuth' /\ NamedPods' /\ NamedWork'
  BY DEF IInv, ExistingAuth, NamedPods, NamedWork
<1> QED BY <1>2, <1>3, <1>4 DEF IInv

\* Somebody else's binding, and the garbage collector, keep IInv.
LEMMA ClusterIInv ==
    ASSUME IInv, NEW c \in CRs,
           Collect(c) \/ \E b \in Foreign : CreateForeign(c, b)
    PROVE  IInv'
<1> USE BoundAssumption
<1>1. work \in [CRs -> SUBSET Works] /\ queue \subseteq CRs /\ unfinished \subseteq CRs
  BY DEF IInv, TypeOK
<1>2. CASE Collect(c)
  <2>1. NoBinding.ours = FALSE
    BY DEF NoBinding
  <2>2. /\ PutBinding(c, NoBinding)
        /\ UNCHANGED <<cr, pod, seenCR, seenPod, seenBinding, queue, work,
                       unfinished, named, changes, faults>>
    BY <1>2 DEF Collect, cache
  <2>3. changes' \in 0..MaxChanges /\ faults' \in 0..MaxFaults
    BY <2>2 DEF IInv, TypeOK
  <2> QED BY <1>1, <2>1, <2>2, <2>3, NothingTyped, PutBindingIInv
<1>3. ASSUME NEW f \in Foreign, CreateForeign(c, f)
      PROVE  IInv'
  <2> DEFINE b == [role |-> f.role, cluster |-> f.cluster, owner |-> 0,
                   ours |-> FALSE, subjects |-> f.subjects,
                   accounts |-> f.accounts]
  <2>1. b \in Bindings /\ ~b.ours
    <3>1. f.role \in {"", AgentRole} \cup {g.role : g \in Foreign}
      OBVIOUS
    <3>2. /\ f.subjects \in SUBSET ServiceAccounts
          /\ f.cluster \in BOOLEAN /\ f.accounts \in BOOLEAN
      BY ForeignAssumption
    <3>3. 0 \in 0..MaxChanges
      OBVIOUS
    <3> QED BY <3>1, <3>2, <3>3 DEF Bindings
  <2>2. /\ PutBinding(c, b)
        /\ changes' \in 0..MaxChanges
        /\ UNCHANGED <<cr, pod, seenCR, seenPod, seenBinding, queue, work,
                       unfinished, named, faults>>
    BY <1>3 DEF CreateForeign, cache, IInv, TypeOK
  <2>3. faults' \in 0..MaxFaults
    BY <2>2 DEF IInv, TypeOK
  <2> HIDE DEF b
  <2> QED BY <1>1, <2>1, <2>2, <2>3, PutBindingIInv
<1> QED BY <1>2, <1>3

\* Deliveries keep IInv: what arrives in the cache is what the API server has.
LEMMA DeliverIInv ==
    ASSUME IInv,
           \/ \E p \in Pods : DeliverPod(p)
           \/ \E c \in CRs : DeliverCR(c) \/ DeliverBinding(c)
    PROVE  IInv'
<1>1. ASSUME NEW p \in Pods, DeliverPod(p)
      PROVE  IInv'
  <2>1. pod[p].cr \in CRs \cup {""} /\ seenPod[p].cr \in CRs \cup {""}
    BY DEF IInv, TypeOK, PodObjects
  <2>2. TypeOK'
    BY <1>1, <2>1 DEF IInv, TypeOK, DeliverPod, api
  <2>3. NamedPods'
    BY <1>1 DEF IInv, TypeOK, DeliverPod, api, NamedPods
  <2> QED BY <1>1, <2>2, <2>3
          DEF IInv, DeliverPod, api, ExistingAuth, NamedWork, BoundOnlyWhenNamed
<1>2. ASSUME NEW c \in CRs, DeliverCR(c)
      PROVE  IInv'
  <2>1. TypeOK'
    BY <1>2 DEF IInv, TypeOK, DeliverCR, api
  <2>2. ExistingAuth'
    BY <1>2 DEF IInv, TypeOK, DeliverCR, api, ExistingAuth
  <2> QED BY <1>2, <2>1, <2>2
          DEF IInv, DeliverCR, api, NamedPods, NamedWork, BoundOnlyWhenNamed
<1>3. ASSUME NEW c \in CRs, DeliverBinding(c)
      PROVE  IInv'
  <2>1. TypeOK'
    BY <1>3 DEF IInv, TypeOK, DeliverBinding
  <2> QED BY <1>3, <2>1
          DEF IInv, DeliverBinding, ExistingAuth, NamedPods, NamedWork,
              BoundOnlyWhenNamed
<1> QED BY <1>1, <1>2, <1>3

---------------------------------------------------------------------------
(* The reconciler.                                                         *)

\* What a reconcile collects from the cached pods has named the CR.
LEMMA CollectedNamed ==
    ASSUME IInv, NEW c \in CRs, seenCR[c].uid # 0,
           NEW accounts, accounts = {} \/ accounts = AccountsOf(c)
    PROVE  /\ Collected(c, accounts) \in Works
           /\ Collected(c, accounts).subjects # {}
           /\ Collected(c, accounts).subjects \subseteq named[c] \cup {Default}
<1>1. AccountsOf(c) \subseteq named[c]
  BY DEF IInv, NamedPods, AccountsOf
<1>2. named[c] \subseteq ServiceAccounts /\ Default \in ServiceAccounts
  BY DEF IInv, TypeOK, ServiceAccounts
<1> DEFINE s == OrDefault(accounts)
<1>3. s # {} /\ s \subseteq named[c] \cup {Default} /\ s \subseteq ServiceAccounts
  BY <1>1, <1>2 DEF OrDefault
<1>4. seenCR[c].uid \in 1..MaxChanges /\ seenCR[c].poll \in BOOLEAN
  <2>1. seenCR[c] \in CRSpecs
    BY DEF IInv, TypeOK
  <2>2. seenCR[c].uid \in 0..MaxChanges /\ seenCR[c].poll \in BOOLEAN
    BY <2>1 DEF CRSpecs
  <2> QED BY <2>2, BoundAssumption
<1>5. Collected(c, accounts) = [owner |-> seenCR[c].uid, poll |-> seenCR[c].poll,
                                subjects |-> s]
  BY DEF Collected
<1> HIDE DEF s
<1> QED BY <1>3, <1>4, <1>5 DEF Works

\* Listing pods keeps IInv, failed or not.
LEMMA ListIInv ==
    ASSUME IInv, NEW c \in CRs,
           ReconcileNothing(c) \/ ReconcileList(c) \/ ReconcileListFails(c)
             \/ ReconcileFailsEarly(c)
    PROVE  IInv'
<1> USE BoundAssumption
<1>1. CASE ReconcileNothing(c) \/ ReconcileFailsEarly(c)
  <2>1. /\ UNCHANGED <<cr, pod, binding, told, seenCR, seenPod, seenBinding, work,
                       unfinished, named, changes>>
        /\ queue' \subseteq queue /\ faults' \in 0..MaxFaults
    BY <1>1 DEF ReconcileNothing, ReconcileFailsEarly, api, cache, IInv, TypeOK
  <2>2. TypeOK'
    BY <2>1 DEF IInv, TypeOK
  <2> QED BY <2>1, <2>2 DEF IInv, ExistingAuth, NamedPods, NamedWork,
                            BoundOnlyWhenNamed
<1>2. CASE ReconcileList(c) \/ ReconcileListFails(c)
  <2>1. PICK accounts :
           /\ accounts = {} \/ accounts = AccountsOf(c)
           /\ work' = [work EXCEPT ![c] = {Collected(c, accounts)}]
    BY <1>2 DEF ReconcileList, ReconcileListFails
  <2>2. /\ UNCHANGED <<cr, pod, binding, told, seenCR, seenPod, seenBinding, named,
                       changes>>
        /\ seenCR[c].uid # 0
        /\ queue' \subseteq queue /\ faults' \in 0..MaxFaults
        /\ unfinished' \subseteq unfinished \cup {c}
    BY <1>2 DEF ReconcileList, ReconcileListFails, api, cache, IInv, TypeOK
  <2> DEFINE w == Collected(c, accounts)
  <2>3. w \in Works /\ w.subjects # {} /\ w.subjects \subseteq named[c] \cup {Default}
    BY <2>1, <2>2, CollectedNamed
  <2> HIDE DEF w
  <2>4. work' = [work EXCEPT ![c] = {w}]
    BY <2>1 DEF w
  <2>5. TypeOK'
    BY <2>2, <2>3, <2>4 DEF IInv, TypeOK
  <2>6. NamedWork'
    BY <2>2, <2>3, <2>4 DEF IInv, TypeOK, NamedWork
  <2> QED BY <2>2, <2>5, <2>6 DEF IInv, ExistingAuth, NamedPods, BoundOnlyWhenNamed
<1> QED BY <1>1, <1>2

\* What a reconcile writes has the subjects it collected, or is what was there.
LEMMA WrittenNamed ==
    ASSUME IInv, NEW c \in CRs, NEW w \in work[c]
    PROVE  /\ Written(c, w) \in Bindings
           /\ Written(c, w).ours =>
                 Written(c, w).subjects \subseteq named[c] \cup {Default}
<1> USE BoundAssumption
<1>1. w \in Works /\ w.subjects \subseteq named[c] \cup {Default}
  BY DEF IInv, TypeOK, NamedWork
<1>2. w.owner \in 0..MaxChanges /\ w.subjects \subseteq ServiceAccounts
  BY <1>1 DEF Works
<1>3. /\ binding[c] \in Bindings
      /\ binding[c].ours => binding[c].subjects \subseteq named[c] \cup {Default}
  BY DEF IInv, TypeOK, BoundOnlyWhenNamed
<1>4. /\ NewBinding(w) \in Bindings
      /\ NewBinding(w).subjects \subseteq named[c] \cup {Default}
  BY <1>1, <1>2 DEF NewBinding, Bindings
<1>5. /\ [binding[c] EXCEPT !.subjects = w.subjects, !.accounts = TRUE]
            \in Bindings
      /\ [binding[c] EXCEPT !.subjects = w.subjects,
                            !.accounts = TRUE].subjects = w.subjects
  BY <1>2, <1>3 DEF Bindings
<1>6. NoBinding \in Bindings /\ NoBinding.ours = FALSE
  BY NothingTyped DEF NoBinding
<1> QED BY <1>1, <1>3, <1>4, <1>5, <1>6 DEF Written

\* Writing the binding keeps IInv, failed or not.
LEMMA BindIInv ==
    ASSUME IInv, NEW c \in CRs, ReconcileBind(c) \/ ReconcileBindFails(c)
    PROVE  IInv'
<1> USE BoundAssumption
<1>1. Finish(c)
  BY DEF ReconcileBind, ReconcileBindFails
<1>2. /\ work' = [work EXCEPT ![c] = {}]
      /\ queue' \subseteq queue \cup {c}
      /\ UNCHANGED <<cr, pod, seenCR, seenPod, seenBinding, named, changes>>
  BY <1>1 DEF Finish, NoWork, cache
<1>3. /\ work' \in [CRs -> SUBSET Works] /\ \A d \in CRs : work'[d] \subseteq work[d]
      /\ queue' \subseteq CRs
      /\ changes' \in 0..MaxChanges
  BY <1>2 DEF IInv, TypeOK
<1>4. unfinished' \subseteq CRs /\ faults' \in 0..MaxFaults
  BY DEF ReconcileBind, ReconcileBindFails, IInv, TypeOK
<1>5. ASSUME NEW b \in Bindings, PutBinding(c, b),
             b.ours => b.subjects \subseteq named[c] \cup {Default}
      PROVE  IInv'
  BY <1>2, <1>3, <1>4, <1>5, PutBindingIInv
<1>6. CASE UNCHANGED <<binding, told>>
  <2>1. TypeOK'
    BY <1>2, <1>3, <1>4, <1>6 DEF IInv, TypeOK
  <2>2. NamedWork'
    BY <1>2, <1>3 DEF IInv, NamedWork
  <2> QED BY <1>2, <1>6, <2>1, <2>2
          DEF IInv, ExistingAuth, NamedPods, BoundOnlyWhenNamed
<1> QED BY <1>5, <1>6, WrittenNamed DEF ReconcileBind, ReconcileBindFails

\* IInv is kept by every step.
LEMMA NextIInv == IInv /\ [Next]_vars => IInv'
<1> SUFFICES ASSUME IInv, [Next]_vars PROVE IInv'
  OBVIOUS
<1>1. CASE UNCHANGED vars
  BY <1>1 DEF vars, IInv, TypeOK, ExistingAuth, NamedPods, NamedWork,
              BoundOnlyWhenNamed
<1>2. CASE Users
  BY <1>2, DeletePodIInv, InjectIInv, PlainPodIInv, UserCRIInv, ClusterIInv
     DEF Users
<1>3. CASE Next /\ ~Users
  BY <1>3, DeliverIInv, ClusterIInv, ListIInv, BindIInv DEF Next, Reconcile, Failure
<1> QED BY <1>1, <1>2, <1>3

---------------------------------------------------------------------------
(* The theorems.                                                           *)

\* The inductive invariant holds.
LEMMA Invariant == Spec => []IInv
BY InitIInv, NextIInv, PTL DEF Spec

\* Variables keep their types; no reconcile ever writes a binding without
\* subjects (rbac.go:36-144).
THEOREM TypeCorrect == Spec => []TypeOK
<1>1. IInv => TypeOK
  BY DEF IInv
<1> QED BY <1>1, Invariant, PTL

\* The controller binds only service accounts of pods that have named the CR, and
\* the default one, however stale its cache is and whatever lists and writes
\* fail (rbac.go:36-144).
THEOREM BoundOnlyWhenNamedHolds == Spec => []BoundOnlyWhenNamed
<1>1. IInv => BoundOnlyWhenNamed
  BY DEF IInv
<1> QED BY <1>1, Invariant, PTL

---------------------------------------------------------------------------
(* No wake-up is lost.                                                     *)

\* What a running reconcile has collected is what the cached pods say, or
\* another reconcile will follow.
FreshWork ==
    \A c \in CRs : \A w \in work[c] :
        c \in queue \cup unfinished \/ w.subjects = OrDefault(AccountsOf(c))

\* A cached binding that is out of date has an event on its way, unless it was
\* and is not the controller's.
Announced ==
    \A c \in CRs :
        seenBinding[c] # binding[c]
        => c \in told \/ (seenBinding[c].owner = 0 /\ binding[c].owner = 0)

\* Bindings with an owner have the agent's role.
OwnedRole ==
    \A c \in CRs :
        /\ binding[c].owner # 0 => binding[c].role = AgentRole
        /\ seenBinding[c].owner # 0 => seenBinding[c].role = AgentRole

Awake == FreshWork /\ Announced /\ OwnedRole /\ NothingForgotten

\* Awake holds to begin with.
LEMMA InitAwake == Init => Awake
<1> SUFFICES ASSUME Init PROVE Awake
  OBVIOUS
<1>1. NoBinding.owner = 0 /\ NoCR.uid = 0
  BY DEF NoBinding, NoCR
<1>2. FreshWork
  BY DEF Init, FreshWork, NoWork
<1>3. Announced /\ OwnedRole
  BY <1>1 DEF Init, Announced, OwnedRole
<1>4. NothingForgotten
  BY <1>1 DEF Init, NothingForgotten
<1> QED BY <1>2, <1>3, <1>4 DEF Awake

\* What Awake depends on.
watched == <<binding, told, seenCR, seenPod, seenBinding, queue, work, unfinished>>

\* Users change nothing that Awake depends on, except for somebody else's
\* binding, which they create where there is none.
LEMMA UsersAwake ==
    ASSUME IInv, Awake, Users
    PROVE  Awake'
<1>1. CASE UNCHANGED watched
  BY <1>1 DEF watched, Awake, FreshWork, Announced, OwnedRole,
              NothingForgotten, Fits, AccountsOf
<1>2. ASSUME NEW c \in CRs, NEW b \in Foreign, CreateForeign(c, b)
      PROVE  Awake'
  <2>1. /\ UNCHANGED <<seenCR, seenPod, seenBinding, queue, work, unfinished>>
        /\ binding[c] = NoBinding
        /\ \A d \in CRs \ {c} : binding'[d] = binding[d]
        /\ binding'[c].owner = 0
        /\ told' = told
    <3> DEFINE new == [role |-> b.role, cluster |-> b.cluster, owner |-> 0,
                       ours |-> FALSE, subjects |-> b.subjects,
                       accounts |-> b.accounts]
    <3>1. new.owner = 0 /\ NoBinding.owner = 0
      BY DEF NoBinding
    <3>2. /\ binding[c] = NoBinding /\ PutBinding(c, new)
          /\ UNCHANGED <<seenCR, seenPod, seenBinding, queue, work, unfinished>>
      BY <1>2 DEF CreateForeign, cache
    <3> HIDE DEF new
    <3> QED BY <3>1, <3>2 DEF PutBinding, OwnerOf, IInv, TypeOK
  <2>2. NoBinding.owner = 0 /\ NoBinding.role # AgentRole
    BY DEF NoBinding, AgentRole
  <2>3. Announced'
    BY <2>1, <2>2 DEF Awake, Announced
  <2>4. OwnedRole'
    BY <2>1 DEF Awake, OwnedRole
  <2>5. FreshWork'
    BY <2>1 DEF Awake, FreshWork, AccountsOf
  <2>6. NothingForgotten'
    <3>1. ~Fits(binding[c], c)
      BY <2>1, <2>2 DEF Fits
    <3>2. \A d \in CRs : AccountsOf(d)' = AccountsOf(d)
      BY <2>1 DEF AccountsOf
    <3> QED BY <2>1, <3>1, <3>2 DEF Awake, NothingForgotten, Fits
  <2> QED BY <2>3, <2>4, <2>5, <2>6 DEF Awake
<1>3. ASSUME NEW p \in Pods, NEW t \in Templates,
             Inject(p, t) \/ AdmitAsIs(p, t) \/ WebhookDown(p, t)
      PROVE  UNCHANGED watched
  BY <1>3 DEF Inject, AdmitAsIs, WebhookDown, Admitted, watched, cache
<1>4. ASSUME NEW c \in CRs, CreateCR(c) \/ EditCR(c) \/ DeleteCR(c)
      PROVE  UNCHANGED watched
  BY <1>4 DEF CreateCR, EditCR, DeleteCR, ChangeCR, watched, cache
<1>5. ASSUME NEW p \in Pods, DeletePod(p)
      PROVE  UNCHANGED watched
  BY <1>5 DEF DeletePod, watched, cache
<1> QED BY <1>1, <1>2, <1>3, <1>4, <1>5 DEF Users

\* The garbage collector is watched.
LEMMA CollectAwake ==
    ASSUME IInv, Awake, NEW c \in CRs, Collect(c)
    PROVE  Awake'
<1>1. /\ UNCHANGED <<seenCR, seenPod, seenBinding, queue, work, unfinished>>
      /\ \A d \in CRs \ {c} : binding'[d] = binding[d]
      /\ binding'[c] = NoBinding
      /\ told' = told \cup {c}
  BY DEF Collect, PutBinding, OwnerOf, NoBinding, cache, IInv, TypeOK
<1>2. Announced'
  BY <1>1 DEF Awake, Announced
<1>3. OwnedRole' /\ FreshWork'
  <2>1. NoBinding.owner = 0
    BY DEF NoBinding
  <2>2. OwnedRole'
    BY <1>1, <2>1 DEF Awake, OwnedRole
  <2>3. FreshWork'
    BY <1>1 DEF Awake, FreshWork, AccountsOf
  <2> QED BY <2>2, <2>3
<1>4. NothingForgotten'
  BY <1>1 DEF Awake, NothingForgotten, Fits, AccountsOf
<1> QED BY <1>2, <1>3, <1>4 DEF Awake

\* Deliveries put into the queue what they concern.
LEMMA DeliverAwake ==
    ASSUME IInv, Awake,
           \/ \E p \in Pods : DeliverPod(p)
           \/ \E c \in CRs : DeliverCR(c) \/ DeliverBinding(c)
    PROVE  Awake'
<1>1. ASSUME NEW p \in Pods, DeliverPod(p)
      PROVE  Awake'
  <2>1. /\ UNCHANGED <<binding, told, seenCR, seenBinding, work, unfinished>>
        /\ queue' = queue \cup ({seenPod[p].cr, pod[p].cr} \ {""})
    BY <1>1 DEF DeliverPod, api
  <2>2. ASSUME NEW c \in CRs, c \notin queue'
        PROVE  AccountsOf(c)' = AccountsOf(c)
    <3>1. seenPod[p].cr # c /\ seenPod'[p].cr # c
      BY <1>1, <2>1, <2>2, NameAssumption DEF DeliverPod, IInv, TypeOK
    <3>2. \A q \in Pods \ {p} : seenPod'[q] = seenPod[q]
      BY <1>1 DEF DeliverPod, IInv, TypeOK
    <3>3. {q \in Pods : seenPod'[q].cr = c} = {q \in Pods : seenPod[q].cr = c}
      BY <3>1, <3>2
    <3> QED BY <3>1, <3>2, <3>3 DEF AccountsOf
  <2>3. FreshWork'
    BY <2>1, <2>2 DEF Awake, FreshWork
  <2>4. NothingForgotten'
    BY <2>1, <2>2 DEF Awake, NothingForgotten, Fits
  <2>5. Announced' /\ OwnedRole'
    BY <2>1 DEF Awake, Announced, OwnedRole
  <2> QED BY <2>3, <2>4, <2>5 DEF Awake
<1>2. ASSUME NEW c \in CRs, DeliverCR(c)
      PROVE  Awake'
  <2>1. /\ UNCHANGED <<binding, told, seenPod, seenBinding, work, unfinished>>
        /\ queue' = queue \cup {c}
        /\ \A d \in CRs \ {c} : seenCR'[d] = seenCR[d]
    BY <1>2 DEF DeliverCR, api, IInv, TypeOK
  <2>2. FreshWork' /\ Announced' /\ OwnedRole'
    BY <2>1 DEF Awake, FreshWork, Announced, OwnedRole, AccountsOf
  <2>3. NothingForgotten'
    BY <2>1 DEF Awake, NothingForgotten, Fits, AccountsOf
  <2> QED BY <2>2, <2>3 DEF Awake
<1>3. ASSUME NEW c \in CRs, DeliverBinding(c)
      PROVE  Awake'
  <2>1. /\ UNCHANGED <<binding, seenCR, seenPod, work, unfinished>>
        /\ told' = told \ {c} /\ queue' = queue \cup (told \cap {c})
        /\ seenBinding'[c] = binding[c]
        /\ \A d \in CRs \ {c} : seenBinding'[d] = seenBinding[d]
    BY <1>3 DEF DeliverBinding, IInv, TypeOK
  <2>2. FreshWork' /\ Announced' /\ OwnedRole'
    BY <2>1 DEF Awake, FreshWork, Announced, OwnedRole, AccountsOf
  <2>3. NothingForgotten'
    BY <2>1 DEF Awake, NothingForgotten, Fits, AccountsOf
  <2> QED BY <2>2, <2>3 DEF Awake
<1> QED BY <1>1, <1>2, <1>3

\* Listing pods, failed or not.
LEMMA ListAwake ==
    ASSUME IInv, Awake, NEW c \in CRs,
           ReconcileNothing(c) \/ ReconcileList(c) \/ ReconcileListFails(c)
             \/ ReconcileFailsEarly(c)
    PROVE  Awake'
<1>1. /\ UNCHANGED <<binding, told, seenCR, seenPod, seenBinding>>
      /\ \A d \in CRs \ {c} : work'[d] = work[d]
                              /\ (d \in queue' <=> d \in queue)
                              /\ (d \in unfinished' <=> d \in unfinished)
  BY DEF ReconcileNothing, ReconcileList, ReconcileListFails,
         ReconcileFailsEarly, api, cache, IInv, TypeOK
<1>2. Announced' /\ OwnedRole'
  BY <1>1 DEF Awake, Announced, OwnedRole
<1>3. \A d \in CRs : AccountsOf(d)' = AccountsOf(d)
  BY <1>1 DEF AccountsOf
<1>4. CASE ReconcileNothing(c)
  <2>1. /\ UNCHANGED <<work, unfinished>> /\ work[c] = {}
        /\ seenCR[c].uid = 0 \/ seenCR[c].paused
    BY <1>4 DEF ReconcileNothing, CanReconcile, NoWork
  <2>2. FreshWork' /\ NothingForgotten'
    BY <1>1, <1>3, <2>1 DEF Awake, FreshWork, NothingForgotten, Fits
  <2> QED BY <1>2, <2>2 DEF Awake
<1>5. CASE ReconcileFailsEarly(c)
  <2>1. UNCHANGED <<queue, work, unfinished>>
    BY <1>5 DEF ReconcileFailsEarly
  <2>2. FreshWork' /\ NothingForgotten'
    BY <1>1, <1>3, <2>1 DEF Awake, FreshWork, NothingForgotten, Fits
  <2> QED BY <1>2, <2>2 DEF Awake
<1>6. CASE ReconcileList(c) \/ ReconcileListFails(c)
  <2>1. PICK accounts :
           /\ accounts = AccountsOf(c) \/ c \in unfinished'
           /\ work'[c] = {Collected(c, accounts)}
    BY <1>6 DEF ReconcileList, ReconcileListFails, IInv, TypeOK
  <2>2. Collected(c, accounts).subjects = OrDefault(accounts)
    BY DEF Collected
  <2>3. FreshWork'
    BY <1>1, <1>3, <2>1, <2>2 DEF Awake, FreshWork
  <2>4. NothingForgotten'
    BY <1>1, <1>3, <2>1 DEF Awake, NothingForgotten, Fits, NoWork
  <2> QED BY <1>2, <2>3, <2>4 DEF Awake
<1> QED BY <1>4, <1>5, <1>6

\* What a reconcile leaves fits, or an event of the binding is on its way, or
\* the CR is in the queue, or the reconcile counts as unfinished.
LEMMA BindFits ==
    ASSUME IInv, Awake, NEW c \in CRs, ReconcileBind(c)
    PROVE  Fits(binding'[c], c) \/ c \in queue' \cup told' \cup unfinished'
<1>1. PICK w \in work[c] :
         LET new == Written(c, w)
         IN  /\ IF new = binding[c] THEN UNCHANGED <<binding, told>>
                ELSE PutBinding(c, new)
             /\ unfinished' =
                  IF Fits(new, c)
                  THEN unfinished \ {c}
                  ELSE IF Unwatched(seenBinding[c]) \/ Unwatched(binding[c])
                  THEN unfinished \cup {c}
                  ELSE unfinished
  BY DEF ReconcileBind
<1> DEFINE new == Written(c, w)
<1>2. binding'[c] = new
  BY <1>1 DEF PutBinding, IInv, TypeOK
<1>3. queue \subseteq queue' /\ told \subseteq told'
  BY <1>1 DEF ReconcileBind, Finish, PutBinding
<1>4. w \in Works /\ w.owner # 0
  BY BoundAssumption DEF IInv, TypeOK, Works
<1> SUFFICES ASSUME ~Fits(new, c), ~Unwatched(seenBinding[c]),
                    ~Unwatched(binding[c]),
                    c \notin queue, c \notin told, c \notin unfinished
             PROVE  c \in told'
  BY <1>1, <1>2, <1>3
<1>5. w.subjects = OrDefault(AccountsOf(c))
  BY DEF Awake, FreshWork
<1>6. NewBinding(w).owner = w.owner
  BY DEF NewBinding
<1>7. NoBinding.owner = 0
  BY DEF NoBinding
<1>8. CASE seenBinding[c] # binding[c]
  <2>1. seenBinding[c].owner = 0 /\ binding[c].owner = 0
    BY <1>8 DEF Awake, Announced
  <2>2. seenBinding[c] = NoBinding /\ binding[c] = NoBinding
    BY <2>1 DEF Unwatched
  <2> QED BY <1>8, <2>2
<1>9. CASE seenBinding[c] = binding[c] /\ binding[c] = NoBinding
  <2>1. new = NewBinding(w) /\ new # binding[c]
    BY <1>4, <1>6, <1>7, <1>9 DEF Written
  <2> QED BY <1>1, <1>4, <1>6, <2>1 DEF PutBinding, OwnerOf
<1>10. CASE seenBinding[c] = binding[c] /\ binding[c] # NoBinding
  <2>1. binding[c].owner # 0
    BY <1>10 DEF Unwatched
  <2>2. binding[c].role = AgentRole
    BY <2>1 DEF Awake, OwnedRole
  <2>3. new.role = AgentRole /\ new.subjects = w.subjects
    <3>1. binding[c] \in Bindings
      BY DEF IInv, TypeOK
    <3>2. /\ [binding[c] EXCEPT !.subjects = w.subjects, !.accounts = TRUE].role
                 = binding[c].role
          /\ [binding[c] EXCEPT !.subjects = w.subjects,
                                !.accounts = TRUE].subjects = w.subjects
      BY <3>1 DEF Bindings
    <3> QED BY <1>10, <2>2, <3>2 DEF Written
  <2> QED BY <1>5, <2>3 DEF Fits
<1> QED BY <1>8, <1>9, <1>10

\* Writing the binding, failed or not.
LEMMA BindAwake ==
    ASSUME IInv, Awake, NEW c \in CRs, ReconcileBind(c) \/ ReconcileBindFails(c)
    PROVE  Awake'
<1>1. Finish(c)
  BY DEF ReconcileBind, ReconcileBindFails
<1>2. /\ work'[c] = NoWork /\ \A d \in CRs \ {c} : work'[d] = work[d]
      /\ queue \subseteq queue' /\ queue' \subseteq queue \cup {c}
      /\ UNCHANGED <<seenCR, seenPod, seenBinding>>
  BY <1>1 DEF Finish, cache, IInv, TypeOK
<1>3. /\ \A d \in CRs \ {c} : /\ binding'[d] = binding[d]
                              /\ d \in told' <=> d \in told
                              /\ d \in unfinished' <=> d \in unfinished
      /\ told \subseteq told'
  BY DEF ReconcileBind, ReconcileBindFails, PutBinding, OwnerOf, IInv, TypeOK
<1>4. \A d \in CRs : AccountsOf(d)' = AccountsOf(d)
  BY <1>2 DEF AccountsOf
<1>5. FreshWork'
  BY <1>2, <1>3, <1>4 DEF Awake, FreshWork, NoWork
<1>6. binding'[c] = binding[c] \/ \E w \in work[c] :
         binding'[c] = Written(c, w) /\ PutBinding(c, Written(c, w))
  BY DEF ReconcileBind, ReconcileBindFails, PutBinding, IInv, TypeOK
<1>7. Announced'
  BY <1>2, <1>3, <1>6 DEF Awake, Announced, PutBinding, OwnerOf
<1>8. OwnedRole'
  <2>1. ASSUME NEW w \in work[c], Written(c, w).owner # 0
        PROVE  Written(c, w).role = AgentRole
    <3>1. binding[c] \in Bindings
      BY DEF IInv, TypeOK
    <3>2. /\ [binding[c] EXCEPT !.subjects = w.subjects, !.accounts = TRUE].role
                 = binding[c].role
          /\ [binding[c] EXCEPT !.subjects = w.subjects,
                                !.accounts = TRUE].owner = binding[c].owner
      BY <3>1 DEF Bindings
    <3>3. NoBinding.owner = 0 /\ NewBinding(w).role = AgentRole
      BY DEF NoBinding, NewBinding
    <3> QED BY <2>1, <3>2, <3>3 DEF Written, Awake, OwnedRole
  <2> QED BY <1>2, <1>3, <1>6, <2>1 DEF Awake, OwnedRole
<1>9. CASE ReconcileBind(c)
  <2>1. Fits(binding'[c], c) \/ c \in queue' \cup told' \cup unfinished'
    BY <1>9, BindFits
  <2>2. NothingForgotten'
    BY <1>2, <1>3, <1>4, <2>1 DEF Awake, NothingForgotten, Fits
  <2> QED BY <1>5, <1>7, <1>8, <2>2 DEF Awake
<1>10. CASE ReconcileBindFails(c)
  <2>1. c \in unfinished'
    BY <1>10 DEF ReconcileBindFails
  <2>2. NothingForgotten'
    BY <1>2, <1>3, <1>4, <2>1 DEF Awake, NothingForgotten, Fits
  <2> QED BY <1>5, <1>7, <1>8, <2>2 DEF Awake
<1> QED BY <1>9, <1>10

\* Every change that a binding depends on, of a pod, of the binding itself or of
\* the CR, between whatever steps of a reconcile it falls, leads to another
\* reconcile, unless a list or write failed or the binding is somebody else's:
\* for any number of CRs, pods and foreign bindings (rbac.go:36-144,
\* gateway_discovery.go:25-39, gatewaysync_controller.go:915-926).
THEOREM NothingForgottenHolds == Spec => []NothingForgotten
<1>1. Init => IInv /\ Awake
  BY InitIInv, InitAwake
<1>2. IInv /\ Awake /\ [Next]_vars => (IInv /\ Awake)'
  <2> SUFFICES ASSUME IInv, Awake, [Next]_vars PROVE Awake'
    BY NextIInv
  <2>1. CASE UNCHANGED vars
    BY <2>1 DEF vars, Awake, FreshWork, Announced, OwnedRole,
                NothingForgotten, Fits, AccountsOf
  <2>2. CASE Users
    BY <2>2, UsersAwake
  <2>3. CASE Next /\ ~Users
    BY <2>3, DeliverAwake, CollectAwake, ListAwake, BindAwake
       DEF Next, Reconcile, Failure
  <2> QED BY <2>1, <2>2, <2>3
<1>3. Awake => NothingForgotten
  BY DEF Awake
<1> QED BY <1>1, <1>2, <1>3, PTL DEF Spec

---------------------------------------------------------------------------
(* Credentials.                                                            *)

\* At most one method of authentication.
OneMethod(auth) ==
    \A x, y \in auth \cap {"ssh", "token", "app"} : x = y

\* The files are mounted, and come from the given Secrets.
Agree(volumes, files, secrets) ==
    /\ \A f \in files : \E v \in volumes : v.volume = f.volume
    /\ {v.secret : v \in {u \in volumes : \E f \in files : f.volume = u.volume}}
         = secrets

\* When every volume is used, its Secrets are those of all volumes.
LEMMA AllUsed ==
    ASSUME NEW volumes, NEW files, NEW secrets,
           \A f \in files : \E v \in volumes : v.volume = f.volume,
           \A v \in volumes : \E f \in files : f.volume = v.volume,
           {v.secret : v \in volumes} = secrets
    PROVE  Agree(volumes, files, secrets)
<1>1. {u \in volumes : \E f \in files : f.volume = u.volume} = volumes
  OBVIOUS
<1> QED BY <1>1 DEF Agree

\* One volume, one file.
LEMMA OneUsed ==
    ASSUME NEW x, NEW y, NEW s
    PROVE  Agree({[volume |-> x, secret |-> s]}, {[var |-> y, volume |-> x]}, {s})
<1> DEFINE v == [volume |-> x, secret |-> s]
           f == [var |-> y, volume |-> x]
<1>1. v.volume = x /\ v.secret = s /\ f.volume = x
  OBVIOUS
<1> HIDE DEF v, f
<1>2. Agree({v}, {f}, {s})
  <2>1. {u.secret : u \in {v}} = {s}
    BY <1>1
  <2> QED BY <1>1, <2>1, AllUsed
<1> QED BY <1>2 DEF v, f

\* If a CR configures at most one method, then the environment that the
\* injector gives an agent, the files that the agent gives to git and the
\* volumes that are mounted lead to the Secrets by which the controller
\* resolves the ref of that same CR, although each goes by its own order of
\* cases.  With two methods they do not (inject.go:369-392, 437-548,
\* client.go:263-336, gatewaysync_controller.go:477-496).
THEOREM CredentialsAgree ==
    ASSUME NEW auth, OneMethod(auth), NEW name
    PROVE  Agree(Volumes(name, auth), FilesUsed(Env(auth)),
                 ControllerSecrets(name, auth))
<1>1. CASE "ssh" \in auth /\ "knownHosts" \in auth
  <2> DEFINE v == [volume |-> "git-credentials", secret |-> "ssh key"]
             w == [volume |-> "known-hosts", secret |-> "known hosts"]
             f == [var |-> "GIT_SSH_KEY_FILE", volume |-> "git-credentials"]
             g == [var |-> "GIT_KNOWN_HOSTS_FILE", volume |-> "known-hosts"]
  <2>1. "token" \notin auth /\ "app" \notin auth
    BY <1>1 DEF OneMethod
  <2>2. Volumes(name, auth) = {v, w}
    BY <1>1, <2>1 DEF Volumes
  <2>3. Env(auth) = {f, g}
    BY <1>1, <2>1 DEF Env
  <2>4. ControllerSecrets(name, auth) = {"ssh key", "known hosts"}
    BY <1>1, <2>1 DEF ControllerSecrets
  <2>5. /\ v.volume = "git-credentials" /\ v.secret = "ssh key"
        /\ w.volume = "known-hosts" /\ w.secret = "known hosts"
        /\ f.volume = "git-credentials" /\ f.var = "GIT_SSH_KEY_FILE"
        /\ g.volume = "known-hosts" /\ g.var = "GIT_KNOWN_HOSTS_FILE"
    OBVIOUS
  <2> HIDE DEF v, w, f, g
  <2>6. FilesUsed({f, g}) = {f, g}
    BY <2>5 DEF FilesUsed
  <2>7. {u.secret : u \in {v, w}} = {"ssh key", "known hosts"}
    BY <2>5
  <2>8. Agree({v, w}, {f, g}, {"ssh key", "known hosts"})
    BY <2>5, <2>7, AllUsed
  <2> QED BY <2>2, <2>3, <2>4, <2>6, <2>8
<1>2. CASE "ssh" \in auth /\ "knownHosts" \notin auth
  <2>1. "token" \notin auth /\ "app" \notin auth
    BY <1>2 DEF OneMethod
  <2>2. Volumes(name, auth) = {[volume |-> "git-credentials", secret |-> "ssh key"]}
    BY <1>2, <2>1 DEF Volumes
  <2>3. FilesUsed(Env(auth)) = {[var |-> "GIT_SSH_KEY_FILE", volume |-> "git-credentials"]}
    BY <1>2, <2>1 DEF FilesUsed, Env
  <2>4. ControllerSecrets(name, auth) = {"ssh key"}
    BY <1>2, <2>1 DEF ControllerSecrets
  <2>5. Agree({[volume |-> "git-credentials", secret |-> "ssh key"]},
              {[var |-> "GIT_SSH_KEY_FILE", volume |-> "git-credentials"]}, {"ssh key"})
    BY OneUsed
  <2> QED BY <2>2, <2>3, <2>4, <2>5, Zenon
<1>3. CASE "token" \in auth
  <2>1. "ssh" \notin auth /\ "app" \notin auth
    BY <1>3 DEF OneMethod
  <2>2. Volumes(name, auth) = {[volume |-> "git-credentials", secret |-> "token"]}
    BY <1>3, <2>1 DEF Volumes
  <2>3. FilesUsed(Env(auth)) = {[var |-> "GIT_TOKEN_FILE", volume |-> "git-credentials"]}
    BY <1>3, <2>1 DEF FilesUsed, Env
  <2>4. ControllerSecrets(name, auth) = {"token"}
    BY <1>3, <2>1 DEF ControllerSecrets
  <2>5. Agree({[volume |-> "git-credentials", secret |-> "token"]},
              {[var |-> "GIT_TOKEN_FILE", volume |-> "git-credentials"]}, {"token"})
    BY OneUsed
  <2> QED BY <2>2, <2>3, <2>4, <2>5, Zenon
<1>4. CASE "app" \in auth
  <2>1. "ssh" \notin auth /\ "token" \notin auth
    BY <1>4 DEF OneMethod
  <2>2. Volumes(name, auth) = {[volume |-> "github-token", secret |-> name]}
    BY <1>4, <2>1 DEF Volumes
  <2>3. FilesUsed(Env(auth)) = {[var |-> "GIT_TOKEN_FILE", volume |-> "github-token"]}
    BY <1>4, <2>1 DEF FilesUsed, Env
  <2>4. ControllerSecrets(name, auth) = {name}
    BY <1>4, <2>1 DEF ControllerSecrets
  <2>5. Agree({[volume |-> "github-token", secret |-> name]},
              {[var |-> "GIT_TOKEN_FILE", volume |-> "github-token"]}, {name})
    BY OneUsed
  <2> QED BY <2>2, <2>3, <2>4, <2>5, Zenon
<1>5. CASE "ssh" \notin auth /\ "token" \notin auth /\ "app" \notin auth
  <2>1. Volumes(name, auth) = {} /\ FilesUsed(Env(auth)) = {}
    BY <1>5 DEF Volumes, FilesUsed, Env
  <2>2. ControllerSecrets(name, auth) = {}
    BY <1>5 DEF ControllerSecrets
  <2> QED BY <2>1, <2>2 DEF Agree
<1> QED BY <1>1, <1>2, <1>3, <1>4, <1>5

=============================================================================
