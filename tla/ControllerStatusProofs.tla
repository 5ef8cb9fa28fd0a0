----------------------- MODULE ControllerStatusProofs -----------------------
(***************************************************************************)
(* Proofs about the status that module Controller's reconciles write: types, *)
(* that Ready=True is never without AllGatewaysSynced=True, and that an      *)
(* observed generation is not claimed with the verdict on other profiles,    *)
(* although a merge patch carries only what differs from a stale copy.       *)
(***************************************************************************)
EXTENDS Controller, TLAPS

---------------------------------------------------------------------------
(* What the reconciler does to the status it builds.                       *)

\* Ready=True stands beside AllGatewaysSynced=True.
ReadySynced(st) == st.conds.ready = "True" => st.conds.allSynced = "True"

\* A status that judges no other profiles than st, and claims no more.
Continues(st, new) ==
    /\ new \in Status
    /\ new.observed = st.observed
    /\ new.conds.gen = st.conds.gen
    /\ new.conds.profilesValid = st.conds.profilesValid
    /\ ReadySynced(st) => ReadySynced(new)

\* The fields of a status.
LEMMA StatusFields ==
    ASSUME NEW st \in Status
    PROVE  /\ st.conds \in Conditions /\ st.observed \in Nat
           /\ st.commit \in Commits \cup {NoCommit}
           /\ st.syncRef \in Refs \cup {NoRef}
           /\ st.gateways \in [Pods -> Gateway]
           /\ st.conds.gen \in Nat
           /\ st.conds.commit \in Commits \cup {NoCommit}
BY DEF Status, Conditions

\* A status with other conditions.
LEMMA WithConds ==
    ASSUME NEW st \in Status, NEW c \in Conditions
    PROVE  /\ [st EXCEPT !.conds = c] \in Status
           /\ [st EXCEPT !.conds = c].conds = c
           /\ [st EXCEPT !.conds = c].observed = st.observed
BY DEF Status

\* Ready=False continues a status.
LEMMA NotReadyContinues ==
    ASSUME NEW st \in Status
    PROVE  Continues(st, NotReady(st))
<1> DEFINE c == [st.conds EXCEPT !.ready = "False"]
<1>1. /\ c \in Conditions /\ c.ready = "False"
      /\ c.gen = st.conds.gen /\ c.profilesValid = st.conds.profilesValid
  BY StatusFields DEF Conditions, CondStatus
<1>2. NotReady(st) = [st EXCEPT !.conds = c]
  BY DEF NotReady
<1> HIDE DEF c
<1> QED BY <1>1, <1>2, WithConds DEF Continues, ReadySynced

\* validateProfiles judges the profiles of the copy.
LEMMA ValidatedParts ==
    ASSUME NEW copy, copy.cr \in CR, copy.status \in Status
    PROVE  /\ Validated(copy) \in Status
           /\ Validated(copy).observed = copy.status.observed
           /\ Validated(copy).conds.gen = copy.cr.gen
           /\ Validated(copy).conds.profilesValid = Cond(copy.cr.valid)
           /\ ReadySynced(copy.status) => ReadySynced(Validated(copy))
<1> DEFINE st == copy.status
           v == Cond(copy.cr.valid)
           g == copy.cr.gen
           c == [st.conds EXCEPT !.profilesValid = v, !.gen = g]
<1>1. v \in CondStatus /\ g \in Nat
  BY DEF CR, Cond, CondStatus
<1>2. Validated(copy) = [st EXCEPT !.conds = c]
  BY DEF Validated, Cond
<1> HIDE DEF v, g
<1>3. /\ c \in Conditions
      /\ c.gen = g /\ c.profilesValid = v
      /\ c.ready = st.conds.ready /\ c.allSynced = st.conds.allSynced
  BY <1>1, StatusFields DEF Conditions
<1> HIDE DEF c
<1>4. /\ Validated(copy) \in Status
      /\ Validated(copy).observed = st.observed
      /\ Validated(copy).conds = c
  BY <1>2, <1>3, WithConds
<1> QED BY <1>3, <1>4 DEF ReadySynced, g, v

\* A resolved ref continues a status.
LEMMA ResolvedContinues ==
    ASSUME work \in Status, NEW commit \in Commits \cup {NoCommit},
           NEW ref \in Refs \cup {NoRef}
    PROVE  Continues(work, Resolved(commit, ref))
<1> DEFINE c == [work.conds EXCEPT !.refResolved = "True", !.commit = commit]
           st == [work EXCEPT !.refStatus = "Resolved", !.conds = c]
<1>1. /\ c \in Conditions
      /\ c.gen = work.conds.gen /\ c.profilesValid = work.conds.profilesValid
      /\ c.ready = work.conds.ready /\ c.allSynced = work.conds.allSynced
  BY StatusFields DEF Conditions, CondStatus
<1>2. st = [work EXCEPT !.refStatus = "Resolved",
                        !.conds.refResolved = "True",
                        !.conds.commit = commit]
  OBVIOUS
<1> HIDE DEF c
<1>3. /\ st \in Status /\ st.conds = c /\ st.observed = work.observed
  BY <1>1 DEF Status
<1>4. /\ [st EXCEPT !.commit = commit, !.syncRef = ref] \in Status
      /\ [st EXCEPT !.commit = commit, !.syncRef = ref].conds = c
      /\ [st EXCEPT !.commit = commit, !.syncRef = ref].observed = work.observed
  <2> HIDE DEF st
  <2> QED BY <1>3 DEF Status
<1> HIDE DEF st
<1>5. \/ Resolved(commit, ref) = st
      \/ Resolved(commit, ref) = [st EXCEPT !.commit = commit, !.syncRef = ref]
  BY <1>2 DEF Resolved
<1> QED BY <1>1, <1>3, <1>4, <1>5 DEF Continues, ReadySynced

\* So does a ref that cannot be resolved.
LEMMA UnresolvedContinues ==
    ASSUME work \in Status
    PROVE  Continues(work, [work EXCEPT !.refStatus = "Error",
                                        !.conds.refResolved = "False",
                                        !.conds.commit = NoCommit])
<1> DEFINE c == [work.conds EXCEPT !.refResolved = "False", !.commit = NoCommit]
           st == [work EXCEPT !.refStatus = "Error", !.conds = c]
<1>1. /\ c \in Conditions
      /\ c.gen = work.conds.gen /\ c.profilesValid = work.conds.profilesValid
      /\ c.ready = work.conds.ready /\ c.allSynced = work.conds.allSynced
  BY StatusFields DEF Conditions, CondStatus
<1>2. st = [work EXCEPT !.refStatus = "Error",
                        !.conds.refResolved = "False",
                        !.conds.commit = NoCommit]
  OBVIOUS
<1> HIDE DEF c
<1>3. /\ st \in Status /\ st.conds = c /\ st.observed = work.observed
  BY <1>1 DEF Status
<1> QED BY <1>1, <1>2, <1>3 DEF Continues, ReadySynced

\* The status of a paused CR judges nothing.
LEMMA PausedParts ==
    ASSUME NEW st \in Status, NEW g \in Nat
    PROVE  LET new == [st EXCEPT !.conds.ready = "Paused", !.conds.gen = g]
           IN  /\ new \in Status
               /\ new.observed = st.observed
               /\ new.conds.gen = g
               /\ ReadySynced(new)
<1> DEFINE c == [st.conds EXCEPT !.ready = "Paused", !.gen = g]
<1>1. c \in Conditions /\ c.gen = g /\ c.ready = "Paused"
  BY StatusFields DEF Conditions
<1>2. [st EXCEPT !.conds.ready = "Paused", !.conds.gen = g] = [st EXCEPT !.conds = c]
  OBVIOUS
<1> HIDE DEF c
<1>3. /\ [st EXCEPT !.conds = c] \in Status
      /\ [st EXCEPT !.conds = c].conds = c
      /\ [st EXCEPT !.conds = c].observed = st.observed
  BY <1>1, WithConds
<1> QED BY <1>1, <1>2, <1>3 DEF ReadySynced

\* The end of a full reconcile: the conditions are summed up, and the generation
\* of the copy is observed.
LEMMA SummaryParts ==
    ASSUME NEW st \in Status, base.cr \in CR
    PROVE  /\ Summary(st) \in Status
           /\ Summary(st).observed = base.cr.gen
           /\ Summary(st).conds.gen = st.conds.gen
           /\ Summary(st).conds.profilesValid = st.conds.profilesValid
           /\ ReadySynced(Summary(st))
<1> DEFINE found == {p \in Pods : st.gateways[p] # NoGateway}
           synced == found # {} /\ \A p \in found :
                                       st.gateways[p].state = "Synced"
           missing == \E p \in found : st.gateways[p].state = "MissingSidecar"
           a == Cond(synced)
           r == Cond(Ready(st, found, synced))
           i == IF found = {} THEN st.conds.sidecar ELSE Cond(~missing)
           g == base.cr.gen
           c == [st.conds EXCEPT !.allSynced = a, !.sidecar = i, !.ready = r]
<1>1. /\ a \in CondStatus /\ r \in CondStatus
      /\ r = "True" => a = "True"
  BY DEF Cond, CondStatus, Ready
<1>2. i \in CondStatus
  BY StatusFields DEF Cond, CondStatus, Conditions
<1>3. g \in Nat
  BY DEF CR
<1>4. Summary(st) = [st EXCEPT !.conds.allSynced = a, !.conds.sidecar = i,
                               !.conds.ready = r, !.observed = g]
  BY DEF Summary, ObservedGen
<1> HIDE DEF a, r, i, g
<1>5. Summary(st) = [st EXCEPT !.conds = c, !.observed = g]
  BY <1>4
<1>6. /\ c \in Conditions
      /\ c.gen = st.conds.gen /\ c.profilesValid = st.conds.profilesValid
      /\ c.ready = r /\ c.allSynced = a
  BY <1>1, <1>2, StatusFields DEF Conditions
<1> HIDE DEF c
<1>7. Summary(st) \in Status /\ Summary(st).conds = c /\ Summary(st).observed = g
  BY <1>3, <1>5, <1>6 DEF Status
<1> QED BY <1>1, <1>6, <1>7 DEF ReadySynced, g

\* A merge patch takes each field from the new status or from the server's.
LEMMA MergeParts ==
    ASSUME NEW server \in Status, NEW old \in Status, NEW new \in Status
    PROVE  LET out == MergePatch(server, old, new)
           IN  /\ out \in Status
               /\ out.conds = IF new.conds # old.conds THEN new.conds
                              ELSE server.conds
               /\ out.observed = IF new.observed # old.observed THEN new.observed
                                 ELSE server.observed
BY DEF MergePatch, Status

---------------------------------------------------------------------------
(* The inductive invariant.                                                *)

\* A copy of the CR with its generation has its spec.
SameSpec(x) == x.gen = cr.gen => x.valid = cr.valid /\ x.paused = cr.paused

\* Reconciles that have read the CR, and those that get to judge its profiles.
Running == pc \notin {"idle", "clear"}
Judging == pc \in {"resolve", "failPatch", "meta", "discover", "patch"}

\* Generations only grow, from the status over the cache to the CR, and the
\* conditions of the current generation, if any, judge its profiles.
Generations ==
    /\ cache.cr.gen <= cr.gen /\ SameSpec(cache.cr)
    /\ status.observed <= cache.cr.gen
    /\ status.conds.gen <= cache.cr.gen
    /\ cache.status.conds.gen <= status.conds.gen
    /\ status.conds.gen = cr.gen /\ ~cr.paused =>
          status.conds.profilesValid = Cond(cr.valid)
    /\ status.observed = cr.gen =>
          ~cr.paused /\ status.conds.profilesValid = Cond(cr.valid)

\* The copy of a running reconcile lies between the status and the cache: no
\* other reconcile writes, and the cache does not go back.
BaseBetween ==
    Running =>
        /\ base.cr.gen <= cache.cr.gen /\ SameSpec(base.cr)
        /\ status.observed <= base.cr.gen
        /\ status.conds.gen <= base.cr.gen
        /\ base.status.conds.gen <= status.conds.gen

\* What the status in the making says of its copy.
WorkJudges ==
    /\ Judging => /\ work.conds.gen = base.cr.gen
                  /\ work.conds.profilesValid = Cond(base.cr.valid)
                  /\ ~base.cr.paused
    /\ pc = "pausedPatch" => work.conds.gen = base.cr.gen /\ base.cr.paused
    /\ (Judging /\ pc # "patch") \/ pc = "pausedPatch" =>
          work.observed = base.status.observed
    /\ pc = "patch" => work.observed = base.cr.gen

AllReadySynced ==
    /\ ReadySynced(status) /\ ReadySynced(cache.status)
    /\ ReadySynced(base.status) /\ ReadySynced(work)

IInv ==
    /\ TypeOK
    /\ Generations
    /\ BaseBetween
    /\ WorkJudges
    /\ AllReadySynced

\* The CR and the status as created have their types.
LEMMA FirstTyped ==
    /\ FirstCR \in CR /\ FirstStatus \in Status
    /\ First.cr = FirstCR /\ First.status = FirstStatus
    /\ First \in [cr : CR, status : Status]
    /\ ReadySynced(FirstStatus)
<1>1. FirstCR \in CR
  BY RefAssumption DEF FirstCR, CR
<1>2. NoGateway \in Gateway
  BY DEF NoGateway, Gateway, GatewayStates
<1>3. FirstStatus \in Status
  BY <1>2 DEF FirstStatus, Status, Conditions, CondStatus
<1>4. ReadySynced(FirstStatus)
  BY DEF ReadySynced, FirstStatus
<1> QED BY <1>1, <1>3, <1>4 DEF First

\* IInv holds to begin with.
LEMMA InitIInv == Init => IInv
<1> SUFFICES ASSUME Init PROVE IInv
  OBVIOUS
<1>1. NoGateway \in Gateway /\ NoMeta \in Metadata
  BY DEF NoGateway, Gateway, GatewayStates, NoMeta, Metadata
<1>2. pointed \subseteq Refs \X Commits
  <2>1. ASSUME NEW r \in Refs, <<r, InitialRemote[r]>> \notin Refs \X {NoCommit}
        PROVE  <<r, InitialRemote[r]>> \in Refs \X Commits
    BY <2>1, RefAssumption
  <2> QED BY <2>1 DEF Init
<1>3. TypeOK
  BY <1>1, <1>2, FirstTyped, RefAssumption DEF Init, TypeOK, Steps, Counters
<1>4. Generations
  BY FirstTyped DEF Init, Generations, SameSpec, FirstStatus, FirstCR, Cond
<1>5. BaseBetween /\ WorkJudges
  BY DEF Init, BaseBetween, WorkJudges, Running, Judging
<1>6. AllReadySynced
  BY FirstTyped DEF Init, AllReadySynced
<1> QED BY <1>3, <1>4, <1>5, <1>6 DEF IInv

---------------------------------------------------------------------------
(* Changes of the CR.                                                      *)

\* A later version of the CR: another spec has a higher generation.
Grows(new) ==
    /\ new \in CR
    /\ new.gen >= cr.gen
    /\ new.gen = cr.gen => new.valid = cr.valid /\ new.paused = cr.paused

\* A version of the CR with other values in some fields, and an old or a newer
\* generation.
LEMMA GrowsByFields ==
    ASSUME cr \in CR, NEW g \in Nat, g > cr.gen
    PROVE  /\ \A r \in Refs : Grows([cr EXCEPT !.ref = r, !.gen = g])
           /\ Grows([cr EXCEPT !.paused = ~@, !.gen = g])
           /\ Grows([cr EXCEPT !.valid = ~@, !.gen = g])
           /\ Grows([cr EXCEPT !.deleting = TRUE, !.gen = g])
           /\ \A r \in Refs \cup {NoRef} : Grows([cr EXCEPT !.ann = r])
           /\ Grows([cr EXCEPT !.exists = FALSE])
           /\ Grows([cr EXCEPT !.finalizer = FALSE, !.exists = FALSE])
           /\ \A h \in {cr.gen, g} :
                  Grows([cr EXCEPT !.finalizer = TRUE, !.gen = h])
<1>0. cr.gen \in Nat /\ cr.gen <= g /\ cr.gen # g
  BY DEF CR
<1>1. ASSUME NEW new \in CR, new.gen = g PROVE Grows(new)
  BY <1>0, <1>1 DEF Grows
<1>2. ASSUME NEW new \in CR, new.gen = cr.gen, new.valid = cr.valid,
             new.paused = cr.paused
      PROVE  Grows(new)
  BY <1>0, <1>2 DEF Grows
<1>3. ASSUME NEW r \in Refs PROVE Grows([cr EXCEPT !.ref = r, !.gen = g])
  BY <1>1, [cr EXCEPT !.ref = r, !.gen = g] \in CR DEF CR
<1>4. Grows([cr EXCEPT !.paused = ~@, !.gen = g])
  BY <1>1, [cr EXCEPT !.paused = ~@, !.gen = g] \in CR DEF CR
<1>5. Grows([cr EXCEPT !.valid = ~@, !.gen = g])
  BY <1>1, [cr EXCEPT !.valid = ~@, !.gen = g] \in CR DEF CR
<1>6. Grows([cr EXCEPT !.deleting = TRUE, !.gen = g])
  BY <1>1, [cr EXCEPT !.deleting = TRUE, !.gen = g] \in CR DEF CR
<1>7. ASSUME NEW r \in Refs \cup {NoRef} PROVE Grows([cr EXCEPT !.ann = r])
  BY <1>2, [cr EXCEPT !.ann = r] \in CR DEF CR
<1>8. Grows([cr EXCEPT !.exists = FALSE])
  BY <1>2, [cr EXCEPT !.exists = FALSE] \in CR DEF CR
<1>9. Grows([cr EXCEPT !.finalizer = FALSE, !.exists = FALSE])
  BY <1>2, [cr EXCEPT !.finalizer = FALSE, !.exists = FALSE] \in CR DEF CR
<1>10. Grows([cr EXCEPT !.finalizer = TRUE, !.gen = g])
  BY <1>1, [cr EXCEPT !.finalizer = TRUE, !.gen = g] \in CR DEF CR
<1>11. Grows([cr EXCEPT !.finalizer = TRUE, !.gen = cr.gen])
  BY <1>2, [cr EXCEPT !.finalizer = TRUE, !.gen = cr.gen] \in CR DEF CR
<1> QED BY <1>3, <1>4, <1>5, <1>6, <1>7, <1>8, <1>9, <1>10, <1>11

\* Every write of the CR makes a later version.
LEMMA EditsGrow ==
    ASSUME cr \in CR
    PROVE  /\ \A r \in Refs : Grows([cr EXCEPT !.ref = r, !.gen = @ + 1])
           /\ Grows([cr EXCEPT !.paused = ~@, !.gen = @ + 1])
           /\ Grows([cr EXCEPT !.valid = ~@, !.gen = @ + 1])
           /\ Grows([cr EXCEPT !.deleting = TRUE, !.gen = @ + 1])
           /\ \A r \in Refs \cup {NoRef} : Grows([cr EXCEPT !.ann = r])
           /\ Grows([cr EXCEPT !.exists = FALSE])
           /\ Grows([cr EXCEPT !.finalizer = FALSE, !.exists = FALSE])
           /\ Grows([cr EXCEPT !.finalizer = TRUE,
                               !.gen = IF SpelledOut THEN @ ELSE @ + 1])
<1> PICK g \in Nat : g = cr.gen + 1
  BY DEF CR
<1>0. g > cr.gen /\ cr.gen \in Nat
  BY DEF CR
<1>1. ASSUME NEW r \in Refs PROVE Grows([cr EXCEPT !.ref = r, !.gen = g])
  BY <1>0, GrowsByFields
<1>2. Grows([cr EXCEPT !.paused = ~@, !.gen = g])
  BY <1>0, GrowsByFields
<1>3. Grows([cr EXCEPT !.valid = ~@, !.gen = g])
  BY <1>0, GrowsByFields
<1>4. Grows([cr EXCEPT !.deleting = TRUE, !.gen = g])
  BY <1>0, GrowsByFields
<1>5. ASSUME NEW r \in Refs \cup {NoRef} PROVE Grows([cr EXCEPT !.ann = r])
  BY <1>0, GrowsByFields
<1>6. Grows([cr EXCEPT !.exists = FALSE])
  BY <1>0, GrowsByFields
<1>7. Grows([cr EXCEPT !.finalizer = FALSE, !.exists = FALSE])
  BY <1>0, GrowsByFields
<1>8. \A h \in {cr.gen, g} : Grows([cr EXCEPT !.finalizer = TRUE, !.gen = h])
  BY <1>0, GrowsByFields
<1> QED BY <1>1, <1>2, <1>3, <1>4, <1>5, <1>6, <1>7, <1>8

\* Reconcile has returned.
Ended == pc' = "idle" /\ base' = First /\ work' = FirstStatus

\* A later version of the CR does no harm to the statuses, whether a reconcile
\* goes on or ends with it.
LEMMA LaterVersion ==
    ASSUME IInv, Grows(cr'), UNCHANGED <<status, cache>>,
           UNCHANGED recVars \/ Ended
    PROVE  Generations' /\ BaseBetween' /\ WorkJudges' /\ AllReadySynced'
<1> USE DEF IInv
<1>1. /\ cr.gen \in Nat /\ cr'.gen \in Nat /\ cache.cr.gen \in Nat
      /\ base.cr.gen \in Nat
      /\ status.observed \in Nat /\ status.conds.gen \in Nat
  BY StatusFields DEF TypeOK, CR, Grows
<1>2. Generations'
  BY <1>1 DEF Generations, SameSpec, Grows
<1>3. CASE Ended
  <2>1. BaseBetween' /\ WorkJudges'
    BY <1>3 DEF Ended, BaseBetween, WorkJudges, Running, Judging
  <2>2. AllReadySynced'
    BY <1>3, FirstTyped DEF Ended, AllReadySynced, ReadySynced
  <2> QED BY <1>2, <2>1, <2>2
<1>4. CASE UNCHANGED recVars
  <2>1. BaseBetween'
    BY <1>1, <1>4 DEF recVars, BaseBetween, Running, SameSpec, Grows,
                    Generations
  <2>2. WorkJudges' /\ AllReadySynced'
    BY <1>4 DEF recVars, WorkJudges, Judging, AllReadySynced, ReadySynced
  <2> QED BY <1>2, <2>1, <2>2
<1> QED BY <1>3, <1>4

\* The steps that leave the CR alone keep it a later version.
LEMMA SameGrows ==
    ASSUME cr \in CR, UNCHANGED cr
    PROVE  Grows(cr')
BY DEF Grows, CR

---------------------------------------------------------------------------
(* Reading the CR, and working on the copy.                                *)

\* The informer catches up, alone or in a restart.
LEMMA CacheCatchesUp ==
    ASSUME IInv, cache' = [cr |-> cr, status |-> status],
           UNCHANGED <<cr, status>>, UNCHANGED recVars \/ Ended
    PROVE  Generations' /\ BaseBetween' /\ WorkJudges' /\ AllReadySynced'
<1> USE DEF IInv
<1>1. /\ cr.gen \in Nat /\ cache.cr.gen \in Nat /\ base.cr.gen \in Nat
      /\ status.observed \in Nat /\ status.conds.gen \in Nat
  BY StatusFields DEF TypeOK, CR
<1>2. cache'.cr = cr /\ cache'.status = status
  OBVIOUS
<1>3. Generations'
  BY <1>1, <1>2 DEF Generations, SameSpec
<1>4. CASE Ended
  <2>1. BaseBetween' /\ WorkJudges'
    BY <1>4 DEF Ended, BaseBetween, WorkJudges, Running, Judging
  <2>2. AllReadySynced'
    BY <1>2, <1>4, FirstTyped DEF Ended, AllReadySynced, ReadySynced
  <2> QED BY <1>3, <2>1, <2>2
<1>5. CASE UNCHANGED recVars
  <2>1. BaseBetween'
    BY <1>1, <1>2, <1>5 DEF recVars, BaseBetween, Running, SameSpec, Generations
  <2>2. WorkJudges' /\ AllReadySynced'
    BY <1>2, <1>5 DEF recVars, WorkJudges, Judging, AllReadySynced, ReadySynced
  <2> QED BY <1>3, <2>1, <2>2
<1> QED BY <1>4, <1>5

\* What Dispatch starts from.
LEMMA DispatchParts ==
    ASSUME NEW copy, copy.cr \in CR, copy.status \in Status,
           ReadySynced(copy.status)
    PROVE  LET d == Dispatch(copy)
           IN  /\ d.work \in Status /\ ReadySynced(d.work)
               /\ d.pc \in {"cleanup", "addFinalizer", "pausedPatch",
                            "failPatch", "resolve"}
               /\ d.pc \in {"pausedPatch", "failPatch", "resolve"} =>
                      /\ d.work.conds.gen = copy.cr.gen
                      /\ d.work.observed = copy.status.observed
               /\ d.pc = "pausedPatch" => copy.cr.paused
               /\ d.pc \in {"failPatch", "resolve"} =>
                      /\ ~copy.cr.paused
                      /\ d.work.conds.profilesValid = Cond(copy.cr.valid)
<1> DEFINE paused == [copy.status EXCEPT !.conds.ready = "Paused",
                                         !.conds.gen = copy.cr.gen]
           judged == Validated(copy)
           failing == NotReady(Validated(copy))
<1>1. /\ paused \in Status /\ paused.observed = copy.status.observed
      /\ paused.conds.gen = copy.cr.gen /\ ReadySynced(paused)
  BY PausedParts DEF CR
<1>2. /\ judged \in Status /\ judged.observed = copy.status.observed
      /\ judged.conds.gen = copy.cr.gen
      /\ judged.conds.profilesValid = Cond(copy.cr.valid)
      /\ ReadySynced(judged)
  BY ValidatedParts
<1>3. /\ failing \in Status /\ failing.observed = copy.status.observed
      /\ failing.conds.gen = copy.cr.gen
      /\ failing.conds.profilesValid = Cond(copy.cr.valid)
      /\ ReadySynced(failing)
  BY <1>2, NotReadyContinues DEF Continues
<1>4. Dispatch(copy) =
        IF copy.cr.deleting THEN [pc |-> "cleanup", work |-> copy.status]
        ELSE IF ~copy.cr.finalizer
        THEN [pc |-> "addFinalizer", work |-> copy.status]
        ELSE IF copy.cr.paused THEN [pc |-> "pausedPatch", work |-> paused]
        ELSE IF ~secrets["git"] THEN [pc |-> "failPatch", work |-> failing]
        ELSE [pc |-> "resolve", work |-> judged]
  BY DEF Dispatch
<1> HIDE DEF paused, judged, failing
<1> QED BY <1>1, <1>2, <1>3, <1>4

\* Begin takes the cached copy.
LEMMA BeginIInv ==
    ASSUME IInv, Begin
    PROVE  Generations' /\ BaseBetween' /\ WorkJudges' /\ AllReadySynced'
<1> USE DEF IInv
<1>1. Generations' /\ UNCHANGED <<cr, status, cache>>
  BY DEF Begin, Generations, SameSpec
<1>2. CASE UNCHANGED <<pc, base, work>>
  BY <1>1, <1>2 DEF BaseBetween, WorkJudges, Running, Judging, SameSpec,
                    AllReadySynced, ReadySynced
<1>3. CASE base' = cache /\ pc' = Dispatch(cache).pc
           /\ work' = Dispatch(cache).work
  <2>1. cache.cr \in CR /\ cache.status \in Status /\ ReadySynced(cache.status)
    BY DEF TypeOK, AllReadySynced
  <2> DEFINE d == Dispatch(cache)
  <2>2. /\ d.work \in Status /\ ReadySynced(d.work)
        /\ d.pc \in {"cleanup", "addFinalizer", "pausedPatch",
                     "failPatch", "resolve"}
        /\ d.pc \in {"pausedPatch", "failPatch", "resolve"} =>
               /\ d.work.conds.gen = cache.cr.gen
               /\ d.work.observed = cache.status.observed
        /\ d.pc = "pausedPatch" => cache.cr.paused
        /\ d.pc \in {"failPatch", "resolve"} =>
               /\ ~cache.cr.paused
               /\ d.work.conds.profilesValid = Cond(cache.cr.valid)
    BY <2>1, DispatchParts
  <2>3. pc' = d.pc /\ work' = d.work
    BY <1>3
  <2> HIDE DEF d
  <2>4. BaseBetween'
    <3>1. cache.cr.gen \in Nat
      BY <2>1 DEF CR
    <3> QED BY <1>1, <1>3, <3>1 DEF BaseBetween, SameSpec, Generations
  <2>5. WorkJudges'
    BY <1>3, <2>2, <2>3 DEF WorkJudges, Judging, Cond
  <2>6. AllReadySynced'
    BY <1>1, <1>3, <2>2, <2>3 DEF AllReadySynced, ReadySynced
  <2> QED BY <1>1, <2>4, <2>5, <2>6
<1> QED BY <1>2, <1>3 DEF Begin

\* A step within a reconcile that works on its copy.
LEMMA WorkGoesOn ==
    ASSUME IInv, UNCHANGED <<cr, status, cache, base>>, pc # "idle", pc # "clear",
           WorkJudges', ReadySynced(work')
    PROVE  Generations' /\ BaseBetween' /\ WorkJudges' /\ AllReadySynced'
<1> USE DEF IInv
<1>1. Generations'
  BY DEF Generations, SameSpec
<1>2. BaseBetween'
  BY DEF BaseBetween, SameSpec, Running
<1>3. AllReadySynced'
  BY DEF AllReadySynced, ReadySynced
<1> QED BY <1>1, <1>2, <1>3

\* A step that judges nothing anew.
LEMMA WorkContinues ==
    ASSUME IInv, UNCHANGED base, Continues(work, work'),
           Judging, pc # "patch", Judging', pc' # "patch"
    PROVE  WorkJudges' /\ ReadySynced(work') /\ work' \in Status
<1> USE DEF IInv
<1>1. ReadySynced(work') /\ work' \in Status
  BY DEF Continues, AllReadySynced
<1>2. WorkJudges'
  BY DEF Continues, WorkJudges, Judging, Cond
<1> QED BY <1>1, <1>2

---------------------------------------------------------------------------
(* The merge patch.                                                        *)

\* A patch sends the conditions whenever they differ from the copy's; if they do
\* not, then the copy, and so the server, already has those of its generation.
LEMMA PatchKeeps ==
    ASSUME IInv, pc \in {"pausedPatch", "failPatch", "patch"},
           status' = PatchedStatus, UNCHANGED <<cr, cache>>,
           \/ Ended
           \/ pc' = "clear" /\ base' = [cr |-> cr, status |-> status']
              /\ UNCHANGED work
    PROVE  /\ status' \in Status
           /\ Generations' /\ BaseBetween' /\ WorkJudges' /\ AllReadySynced'
<1> USE DEF IInv
<1>1. status \in Status /\ base.status \in Status /\ work \in Status
      /\ cr.gen \in Nat /\ cache.cr.gen \in Nat /\ base.cr.gen \in Nat
      /\ cache.status \in Status
  BY DEF TypeOK, CR
<1>2. /\ status' \in Status
      /\ status'.conds = IF work.conds # base.status.conds THEN work.conds
                         ELSE status.conds
      /\ status'.observed = IF work.observed # base.status.observed
                            THEN work.observed ELSE status.observed
  BY <1>1, MergeParts DEF PatchedStatus
<1>3. /\ status.observed \in Nat /\ status.conds.gen \in Nat
      /\ base.status.conds.gen \in Nat /\ cache.status.conds.gen \in Nat
      /\ work.conds.gen \in Nat
  BY <1>1, StatusFields
<1>4. /\ work.conds.gen = base.cr.gen
      /\ base.cr.gen <= cache.cr.gen /\ cache.cr.gen <= cr.gen
      /\ status.observed <= base.cr.gen /\ status.conds.gen <= base.cr.gen
      /\ base.status.conds.gen <= status.conds.gen
      /\ cache.status.conds.gen <= status.conds.gen
      /\ base.cr.gen = cr.gen =>
             base.cr.valid = cr.valid /\ base.cr.paused = cr.paused
  BY DEF WorkJudges, Judging, BaseBetween, Running, SameSpec, Generations
\* Sent or not, the new conditions are those of the copy's generation.
<1>5. status'.conds.gen = base.cr.gen
  BY <1>2, <1>3, <1>4
<1>6. \/ status'.observed = status.observed
      \/ pc = "patch" /\ status'.observed = base.cr.gen
  BY <1>2 DEF WorkJudges, Judging
<1>7. status'.conds.profilesValid = Cond(cr.valid)
         \/ base.cr.gen # cr.gen \/ cr.paused
  <2>1. CASE status'.conds = status.conds
    BY <1>5, <2>1 DEF Generations
  <2>2. CASE status'.conds = work.conds
    BY <1>4, <2>2 DEF WorkJudges, Judging, Cond
  <2> QED BY <1>2, <2>1, <2>2
<1>8. base.cr.gen = cr.gen /\ cr.paused => status'.observed # cr.gen
  <2> SUFFICES ASSUME base.cr.gen = cr.gen, cr.paused
               PROVE  status'.observed # cr.gen
    OBVIOUS
  <2>1. pc # "patch"
    BY <1>4 DEF WorkJudges, Judging
  <2> QED BY <1>6, <2>1 DEF Generations
<1>9. Generations'
  <2>1. cache'.cr.gen <= cr'.gen /\ SameSpec(cache.cr)'
    BY DEF Generations, SameSpec
  <2>2. /\ status'.observed <= cache'.cr.gen
        /\ status'.conds.gen <= cache'.cr.gen
        /\ cache'.status.conds.gen <= status'.conds.gen
    BY <1>1, <1>3, <1>4, <1>5, <1>6
  <2>3. status'.conds.gen = cr'.gen /\ ~cr'.paused =>
            status'.conds.profilesValid = Cond(cr'.valid)
    BY <1>5, <1>7
  <2>4. status'.observed = cr'.gen =>
            ~cr'.paused /\ status'.conds.profilesValid = Cond(cr'.valid)
    <3>1. status'.observed = cr.gen => base.cr.gen = cr.gen
      BY <1>1, <1>3, <1>4, <1>6
    <3> QED BY <1>7, <1>8, <3>1
  <2> QED BY <2>1, <2>2, <2>3, <2>4 DEF Generations, Cond
<1>10. BaseBetween' /\ WorkJudges'
  BY DEF Ended, BaseBetween, WorkJudges, Running, Judging
<1>11. ReadySynced(status')
  BY <1>2 DEF AllReadySynced, ReadySynced
<1>12. AllReadySynced'
  <2>1. CASE Ended
    BY <1>11, <2>1, FirstTyped DEF Ended, AllReadySynced, ReadySynced
  <2>2. CASE base' = [cr |-> cr, status |-> status'] /\ UNCHANGED work
    <3>1. base'.status = status'
      BY <2>2
    <3> QED BY <1>11, <2>2, <3>1 DEF AllReadySynced, ReadySynced
  <2> QED BY <2>1, <2>2
<1> QED BY <1>2, <1>9, <1>10, <1>12

---------------------------------------------------------------------------
(* The steps of a reconcile.                                               *)

\* The types of what only a reconcile changes.
Typed == status \in Status /\ base \in [cr : CR, status : Status]
         /\ work \in Status /\ pc \in Steps

\* The invariant without the types of the environment.
Judgement == Typed /\ Generations /\ BaseBetween /\ WorkJudges /\ AllReadySynced

\* A reconcile that has returned is well typed.
LEMMA EndedTyped ==
    ASSUME IInv, Ended, status' \in Status
    PROVE  Typed'
BY FirstTyped DEF Ended, Typed, Steps

\* The ref is resolved.
LEMMA ResolvedToKeeps ==
    ASSUME IInv, NEW commit \in Commits \cup {NoCommit}, ResolvedTo(commit)
    PROVE  Judgement'
<1>1. work \in Status /\ Effective(base.cr) \in Refs \cup {NoRef}
  BY DEF IInv, TypeOK, CR, Effective
<1> DEFINE st == Resolved(commit, Effective(base.cr))
<1>2. Continues(work, st)
  BY <1>1, ResolvedContinues
<1>3. Continues(st, NotReady(st))
  BY <1>2, NotReadyContinues DEF Continues
<1>4. pc = "resolve" /\ \/ work' = st /\ pc' = "meta"
                        \/ work' = NotReady(st) /\ pc' = "failPatch"
  BY DEF ResolvedTo
<1> HIDE DEF st
<1>5. Continues(work, work')
  BY <1>2, <1>3, <1>4 DEF Continues
<1>6. UNCHANGED <<cr, status, cache, base>>
  BY DEF ResolvedTo
<1>7. WorkJudges' /\ ReadySynced(work') /\ work' \in Status
  BY <1>4, <1>5, <1>6, WorkContinues DEF Judging
<1>8. Typed'
  BY <1>4, <1>6, <1>7 DEF Typed, Steps, IInv, TypeOK
<1> QED BY <1>4, <1>6, <1>7, <1>8, WorkGoesOn DEF Judgement

\* The ref cannot be resolved.
LEMMA ResolveFailsKeeps ==
    ASSUME IInv, ResolveFails
    PROVE  Judgement'
<1>1. work \in Status
  BY DEF IInv, TypeOK
<1>2. Continues(work, work')
  BY <1>1, UnresolvedContinues DEF ResolveFails
<1>3. /\ pc = "resolve" /\ pc' = "failPatch"
      /\ UNCHANGED <<cr, status, cache, base>>
  BY DEF ResolveFails
<1>4. WorkJudges' /\ ReadySynced(work') /\ work' \in Status
  BY <1>2, <1>3, WorkContinues DEF Judging
<1>5. Typed'
  BY <1>3, <1>4 DEF Typed, Steps, IInv, TypeOK
<1> QED BY <1>3, <1>4, <1>5, WorkGoesOn DEF Judgement

\* The gateways are counted and the conditions summed up.
LEMMA DiscoverKeeps ==
    ASSUME IInv, NEW gateways \in [Pods -> Gateway], DiscoverWith(gateways)
    PROVE  Judgement'
<1> DEFINE st == [work EXCEPT !.gateways = gateways]
<1>1. work \in Status /\ base.cr \in CR
  BY DEF IInv, TypeOK
<1>2. st \in Status /\ st.conds = work.conds
  BY <1>1 DEF Status
<1>3. /\ pc = "discover" /\ pc' = "patch" /\ work' = Summary(st)
      /\ UNCHANGED <<cr, status, cache, base>>
  BY DEF DiscoverWith
<1> HIDE DEF st
<1>4. /\ work' \in Status /\ work'.observed = base.cr.gen
      /\ work'.conds.gen = work.conds.gen
      /\ work'.conds.profilesValid = work.conds.profilesValid
      /\ ReadySynced(work')
  BY <1>1, <1>2, <1>3, SummaryParts
<1>5. WorkJudges'
  BY <1>3, <1>4 DEF IInv, WorkJudges, Judging, Cond
<1>6. Typed'
  BY <1>3, <1>4 DEF Typed, Steps, IInv, TypeOK
<1> QED BY <1>3, <1>4, <1>5, <1>6, WorkGoesOn DEF Judgement

\* Begin has its types.
LEMMA BeginKeeps ==
    ASSUME IInv, Begin
    PROVE  Judgement'
<1>1. Generations' /\ BaseBetween' /\ WorkJudges' /\ AllReadySynced'
  BY BeginIInv
<1>2. cache.cr \in CR /\ cache.status \in Status /\ ReadySynced(cache.status)
  BY DEF IInv, TypeOK, AllReadySynced
<1> DEFINE d == Dispatch(cache)
<1>3. d.work \in Status /\ d.pc \in {"cleanup", "addFinalizer", "pausedPatch",
                                     "failPatch", "resolve"}
  BY <1>2, DispatchParts
<1>4. \/ UNCHANGED <<pc, base, work>>
      \/ base' = cache /\ pc' = d.pc /\ work' = d.work
  BY DEF Begin
<1>5. UNCHANGED status
  BY DEF Begin
<1> HIDE DEF d
<1>6. Typed'
  BY <1>3, <1>4, <1>5 DEF Typed, Steps, IInv, TypeOK
<1> QED BY <1>1, <1>6 DEF Judgement

\* A step that leaves the statuses alone.
LEMMA OthersKeep ==
    ASSUME IInv, UNCHANGED <<cr, status, cache, recVars>>
    PROVE  Judgement'
<1>1. Grows(cr')
  BY SameGrows DEF IInv, TypeOK
<1>2. Generations' /\ BaseBetween' /\ WorkJudges' /\ AllReadySynced'
  BY <1>1, LaterVersion
<1>3. Typed'
  BY DEF IInv, TypeOK, Typed, recVars
<1> QED BY <1>2, <1>3 DEF Judgement

\* A step that only goes on to the next one.
LEMMA AdvanceKeeps ==
    ASSUME IInv, UNCHANGED <<cr, status, cache, base, work>>,
           \/ pc = "meta" /\ pc' = "discover"
           \/ pc = "cleanup" /\ pc' = "cleanupStatus"
           \/ pc = "cleanupStatus" /\ pc' = "removeFinalizer"
    PROVE  Judgement'
<1>1. WorkJudges'
  BY DEF IInv, WorkJudges, Judging
<1>2. ReadySynced(work')
  BY DEF IInv, AllReadySynced, ReadySynced
<1>3. Typed'
  BY DEF IInv, TypeOK, Typed, Steps
<1> QED BY <1>1, <1>2, <1>3, WorkGoesOn DEF Judgement

---------------------------------------------------------------------------
(* Types of the environment, and the steps put together.                   *)

\* The rest of the type invariant.
OtherTypes ==
    /\ cr \in CR
    /\ cache \in [cr : CR, status : Status]
    /\ remote \in [Refs -> Commits \cup {NoCommit}]
    /\ secrets \in [{"git", "api"} -> BOOLEAN]
    /\ pods \in [Pods -> {"down", "up", "noSidecar"}]
    /\ running \in [Pods -> Commits \cup {NoCommit}]
    /\ reports \in [Pods -> Gateway]
    /\ {meta, metaSeen} \subseteq Metadata
    /\ queued \in BOOLEAN
    /\ timer \in BOOLEAN
    /\ backoff \in Nat
    /\ bounds \in [Counters -> Nat]
    /\ pointed \subseteq Refs \X Commits

\* A bounded step.
LEMMA CountTyped ==
    ASSUME bounds \in [Counters -> Nat], NEW c \in Counters, NEW max,
           Count(c, max)
    PROVE  bounds' \in [Counters -> Nat]
BY DEF Count

\* recordFailure counts.
LEMMA FailedTyped ==
    ASSUME NEW n \in Nat
    PROVE  Failed(n) \in Nat
BY DEF Failed

\* Booleans of the queue after a return.
LEMMA ReturnTyped ==
    ASSUME queued \in BOOLEAN, timer \in BOOLEAN, NEW a \in BOOLEAN,
           NEW b \in BOOLEAN, Return(a, b)
    PROVE  queued' \in BOOLEAN /\ timer' \in BOOLEAN /\ Ended
BY DEF Return, Ended

\* The values written to the other components.
LEMMA WrittenTyped ==
    ASSUME TypeOK
    PROVE  /\ NoMeta \in Metadata /\ NewMetadata \in Metadata
           /\ [cr |-> cr, status |-> status] \in [cr : CR, status : Status]
           /\ [p \in Pods |-> NoGateway] \in [Pods -> Gateway]
           /\ \A known \in [Pods -> Gateway] :
                  Discovered(known) \in [Pods -> Gateway]
           /\ PollAgain \in BOOLEAN
           /\ Effective(base.cr) \in Refs
<1>1. NoMeta \in Metadata
  BY DEF NoMeta, Metadata
<1>2. base.cr \in CR /\ work.conds.commit \in Commits \cup {NoCommit}
  BY StatusFields DEF TypeOK
<1>3. Effective(base.cr) \in Refs
  BY <1>2 DEF Effective, CR
<1>4. NewMetadata \in Metadata
  BY <1>2, <1>3 DEF NewMetadata, Metadata, CR
<1>5. [cr |-> cr, status |-> status] \in [cr : CR, status : Status]
  BY DEF TypeOK
<1>6. NoGateway \in Gateway
  BY DEF NoGateway, Gateway, GatewayStates
<1>7. ASSUME NEW s \in {"MissingSidecar", "Pending"}
      PROVE  [state |-> s, commit |-> NoCommit] \in Gateway
  BY DEF Gateway, GatewayStates
<1>8. ASSUME NEW known \in [Pods -> Gateway]
      PROVE  Discovered(known) \in [Pods -> Gateway]
  BY <1>6, <1>7 DEF Discovered
<1>9. PollAgain \in BOOLEAN
  BY FlagAssumption DEF PollAgain
<1> QED BY <1>1, <1>3, <1>4, <1>5, <1>6, <1>8, <1>9

\* The environment's steps.
LEMMA EnvironmentIInv ==
    ASSUME IInv, Environment
    PROVE  IInv'
<1> USE DEF IInv
<1>0. TypeOK /\ cr \in CR
  BY DEF TypeOK
<1>1. CASE UserEdit \/ UserDelete
  <2>1. PICK kind, new : EditCR(kind, new) /\ Grows(new)
    BY <1>0, <1>1, EditsGrow DEF UserEdit, UserDelete
  <2>2. /\ Grows(cr')
        /\ UNCHANGED <<status, cache, envVars, metaVars, queued, timer,
                       backoff, recVars>>
        /\ bounds' \in [Counters -> Nat]
    BY <2>1, CountTyped DEF EditCR, TypeOK, Counters
  <2>3. Generations' /\ BaseBetween' /\ WorkJudges' /\ AllReadySynced'
    BY <2>2, LaterVersion
  <2>4. TypeOK'
    BY <2>2 DEF TypeOK, Grows, envVars, metaVars, recVars
  <2> QED BY <2>3, <2>4
<1>2. CASE SecretChange
  <2>1. Judgement'
    BY <1>2, OthersKeep DEF SecretChange, recVars
  <2>2. bounds' \in [Counters -> Nat]
    BY <1>2, CountTyped DEF SecretChange, TypeOK, Counters
  <2>3. secrets' \in [{"git", "api"} -> BOOLEAN]
    BY <1>2 DEF SecretChange, TypeOK
  <2>4. OtherTypes'
    BY <1>2, <2>2, <2>3 DEF SecretChange, TypeOK, OtherTypes, metaVars
  <2> QED BY <2>1, <2>4 DEF Judgement, Typed, OtherTypes, TypeOK
<1>3. CASE RemoteMove
  <2>1. Judgement'
    BY <1>3, OthersKeep DEF RemoteMove, recVars
  <2>2. bounds' \in [Counters -> Nat]
    BY <1>3, CountTyped DEF RemoteMove, TypeOK, Counters
  <2>3. PICK r \in Refs, c \in Commits :
           /\ remote' = [remote EXCEPT ![r] = c]
           /\ pointed' = pointed \cup {<<r, c>>}
    BY <1>3 DEF RemoteMove
  <2>4. /\ remote' \in [Refs -> Commits \cup {NoCommit}]
        /\ pointed' \subseteq Refs \X Commits
    BY <2>3 DEF TypeOK
  <2>5. OtherTypes'
    BY <1>3, <2>2, <2>4 DEF RemoteMove, TypeOK, OtherTypes, metaVars
  <2> QED BY <2>1, <2>5 DEF Judgement, Typed, OtherTypes, TypeOK
<1>4. CASE PodChange
  <2>1. Judgement'
    BY <1>4, OthersKeep DEF PodChange, recVars
  <2>2. bounds' \in [Counters -> Nat]
    BY <1>4, CountTyped DEF PodChange, TypeOK, Counters
  <2>3. /\ pods' \in [Pods -> {"down", "up", "noSidecar"}]
        /\ running' \in [Pods -> Commits \cup {NoCommit}]
    BY <1>4 DEF PodChange, TypeOK
  <2>4. OtherTypes'
    BY <1>4, <2>2, <2>3 DEF PodChange, TypeOK, OtherTypes, metaVars
  <2> QED BY <2>1, <2>4 DEF Judgement, Typed, OtherTypes, TypeOK
<1>5. CASE AgentStart
  <2>1. Judgement'
    BY <1>5, OthersKeep DEF AgentStart, recVars
  <2>2. bounds' \in [Counters -> Nat]
    BY <1>5, CountTyped DEF AgentStart, TypeOK, Counters
  <2>3. running' \in [Pods -> Commits \cup {NoCommit}]
    BY <1>5 DEF AgentStart, TypeOK, Metadata
  <2>4. OtherTypes'
    BY <1>5, <2>2, <2>3 DEF AgentStart, TypeOK, OtherTypes, metaVars
  <2> QED BY <2>1, <2>4 DEF Judgement, Typed, OtherTypes, TypeOK
<1>6. CASE AgentReport
  <2>1. Judgement'
    BY <1>6, OthersKeep DEF AgentReport, recVars
  <2>2. PICK p \in Pods, s \in {"Pending", "Synced", "Error"} :
           /\ reports' = [reports EXCEPT
                             ![p] = [state |-> s, commit |-> running[p]]]
           /\ running' = [running EXCEPT ![p] = NoCommit]
    BY <1>6 DEF AgentReport
  <2>3. [state |-> s, commit |-> running[p]] \in Gateway
    BY DEF TypeOK, Gateway, GatewayStates
  <2>4. /\ reports' \in [Pods -> Gateway]
        /\ running' \in [Pods -> Commits \cup {NoCommit}]
    BY <2>2, <2>3 DEF TypeOK
  <2>5. OtherTypes'
    BY <1>6, <2>4 DEF AgentReport, TypeOK, OtherTypes, metaVars
  <2> QED BY <2>1, <2>5 DEF Judgement, Typed, OtherTypes, TypeOK
<1>7. CASE Crash
  <2>1. /\ Ended /\ cache' = [cr |-> cr, status |-> status]
        /\ UNCHANGED <<cr, status>>
    BY <1>7 DEF Crash, Ended
  <2>2. Generations' /\ BaseBetween' /\ WorkJudges' /\ AllReadySynced'
    BY <2>1, CacheCatchesUp
  <2>3. bounds' \in [Counters -> Nat]
    BY <1>7, CountTyped DEF Crash, TypeOK, Counters
  <2>4. Typed'
    BY <2>1, EndedTyped DEF TypeOK
  <2>5. OtherTypes'
    BY <1>7, <2>1, <2>3, WrittenTyped
       DEF Crash, TypeOK, OtherTypes, envVars
  <2> QED BY <2>2, <2>4, <2>5 DEF Typed, OtherTypes, TypeOK
<1> QED BY <1>1, <1>2, <1>3, <1>4, <1>5, <1>6, <1>7 DEF Environment

\* The reconciler's steps.
LEMMA ReconcileIInv ==
    ASSUME IInv, Reconcile
    PROVE  IInv'
<1> USE DEF IInv
<1>0. /\ TypeOK /\ cr \in CR /\ queued \in BOOLEAN /\ timer \in BOOLEAN
      /\ bounds \in [Counters -> Nat] /\ backoff \in Nat
  BY DEF TypeOK
<1> SUFFICES Judgement' /\ OtherTypes'
  BY DEF Judgement, Typed, OtherTypes, TypeOK
<1>1. CASE Begin
  <2>1. Judgement'
    BY <1>1, BeginKeeps
  <2>2. backoff' \in Nat
    BY <1>0, <1>1, FailedTyped DEF Begin
  <2>3. OtherTypes'
    BY <1>1, <2>2 DEF Begin, TypeOK, OtherTypes, envVars, metaVars
  <2> QED BY <2>1, <2>3
<1>2. CASE AddFinalizer \/ RemoveFinalizer
  <2>1. PICK a \in BOOLEAN : Return(a, FALSE)
    BY <1>2 DEF AddFinalizer, RemoveFinalizer
  <2>2. Ended /\ queued' \in BOOLEAN /\ timer' \in BOOLEAN
    BY <1>0, <2>1, ReturnTyped
  <2>3. Grows(cr')
    BY <1>0, <1>2, EditsGrow, SameGrows DEF AddFinalizer, RemoveFinalizer
  <2>4. UNCHANGED <<status, cache, envVars, metaVars, backoff, bounds>>
    BY <1>2 DEF AddFinalizer, RemoveFinalizer
  <2>5. Generations' /\ BaseBetween' /\ WorkJudges' /\ AllReadySynced'
    BY <2>2, <2>3, <2>4, LaterVersion
  <2>6. Typed'
    BY <2>2, <2>4, EndedTyped DEF TypeOK
  <2>7. OtherTypes'
    BY <2>2, <2>3, <2>4 DEF TypeOK, OtherTypes, envVars, metaVars, Grows
  <2> QED BY <2>5, <2>6, <2>7 DEF Judgement
<1>3. CASE StepFails
  <2>1. Ended /\ queued' \in BOOLEAN /\ timer' \in BOOLEAN
    BY <1>0, <1>3, ReturnTyped DEF StepFails
  <2>2. bounds' \in [Counters -> Nat]
    BY <1>0, <1>3, CountTyped DEF StepFails, Fault, Counters
  <2>3. UNCHANGED <<cr, status, cache, envVars, metaVars, backoff>>
    BY <1>3 DEF StepFails
  <2>4. Generations' /\ BaseBetween' /\ WorkJudges' /\ AllReadySynced'
    BY <1>0, <2>1, <2>3, LaterVersion, SameGrows
  <2>5. Typed'
    BY <2>1, <2>3, EndedTyped DEF TypeOK
  <2>6. OtherTypes'
    BY <2>1, <2>2, <2>3 DEF TypeOK, OtherTypes, envVars, metaVars
  <2> QED BY <2>4, <2>5, <2>6 DEF Judgement
<1>4. CASE CleanupMetadata \/ WriteMetadata
  <2>1. Judgement'
    BY <1>4, AdvanceKeeps DEF CleanupMetadata, WriteMetadata
  <2>2. meta' \in Metadata
    BY <1>0, <1>4, WrittenTyped DEF CleanupMetadata, WriteMetadata, TypeOK
  <2>3. OtherTypes'
    BY <1>4, <2>2
       DEF CleanupMetadata, WriteMetadata, TypeOK, OtherTypes, envVars
  <2> QED BY <2>1, <2>3
<1>5. CASE CleanupStatus
  <2>1. Judgement'
    BY <1>5, AdvanceKeeps DEF CleanupStatus
  <2>2. OtherTypes'
    BY <1>0, <1>5, WrittenTyped DEF CleanupStatus, TypeOK, OtherTypes, metaVars
  <2> QED BY <2>1, <2>2
<1>6. CASE WriteMetadataFails
  <2>1. Judgement'
    BY <1>6, AdvanceKeeps DEF WriteMetadataFails
  <2>2. bounds' \in [Counters -> Nat]
    BY <1>0, <1>6, CountTyped DEF WriteMetadataFails, Fault, Counters
  <2>3. OtherTypes'
    BY <1>6, <2>2 DEF WriteMetadataFails, TypeOK, OtherTypes, envVars, metaVars
  <2> QED BY <2>1, <2>3
<1>7. CASE ResolveFromStatus \/ ResolveFromRemote
  <2>1. PICK commit \in Commits \cup {NoCommit} : ResolvedTo(commit)
    <3>1. base.status.commit \in Commits \cup {NoCommit}
      BY <1>0, StatusFields DEF TypeOK
    <3>2. remote[Effective(base.cr)] \in Commits \cup {NoCommit}
      BY <1>0, WrittenTyped DEF TypeOK
    <3> QED BY <1>7, <3>1, <3>2 DEF ResolveFromStatus, ResolveFromRemote
  <2>2. Judgement'
    BY <2>1, ResolvedToKeeps
  <2>3. backoff' \in Nat
    BY <2>1, FailedTyped DEF ResolvedTo
  <2>4. OtherTypes'
    BY <2>1, <2>3 DEF ResolvedTo, TypeOK, OtherTypes, envVars, metaVars
  <2> QED BY <2>2, <2>4
<1>8. CASE ResolveFails
  <2>1. Judgement'
    BY <1>8, ResolveFailsKeeps
  <2>2. bounds' \in [Counters -> Nat]
    BY <1>0, <1>8, CountTyped DEF ResolveFails, Fault, Counters
  <2>3. backoff' \in Nat
    BY <1>0, <1>8, FailedTyped DEF ResolveFails
  <2>4. OtherTypes'
    BY <1>8, <2>2, <2>3 DEF ResolveFails, TypeOK, OtherTypes, envVars, metaVars
  <2> QED BY <2>1, <2>4
<1>9. CASE Discover \/ DiscoverFails
  <2>1. PICK gateways \in [Pods -> Gateway] : DiscoverWith(gateways)
    <3>1. /\ Discovered(reports) \in [Pods -> Gateway]
          /\ Discovered([p \in Pods |-> NoGateway]) \in [Pods -> Gateway]
      BY <1>0, WrittenTyped DEF TypeOK
    <3>2. work.gateways \in [Pods -> Gateway]
      BY <1>0, StatusFields DEF TypeOK
    <3> QED BY <1>9, <3>1, <3>2 DEF Discover, DiscoverFails
  <2>2. Judgement'
    BY <2>1, DiscoverKeeps
  <2>3. bounds' \in [Counters -> Nat]
    BY <1>0, <1>9, CountTyped DEF Discover, DiscoverFails, Fault, Counters
  <2>4. OtherTypes'
    BY <2>1, <2>3 DEF DiscoverWith, TypeOK, OtherTypes, envVars, metaVars
  <2> QED BY <2>2, <2>4
<1>10. CASE PausedPatch
  <2>1. Ended /\ queued' \in BOOLEAN /\ timer' \in BOOLEAN
    BY <1>0, <1>10, ReturnTyped DEF PausedPatch
  <2>2. /\ pc = "pausedPatch" /\ status' = PatchedStatus
        /\ UNCHANGED <<cr, cache, envVars, metaVars, backoff, bounds>>
    BY <1>10 DEF PausedPatch
  <2>3. /\ status' \in Status
        /\ Generations' /\ BaseBetween' /\ WorkJudges' /\ AllReadySynced'
    BY <2>1, <2>2, PatchKeeps
  <2>4. Typed'
    BY <2>1, <2>3, EndedTyped
  <2>5. OtherTypes'
    BY <2>1, <2>2 DEF TypeOK, OtherTypes, envVars, metaVars
  <2> QED BY <2>3, <2>4, <2>5 DEF Judgement
<1>11. CASE FailPatch
  <2>1. Ended /\ queued' \in BOOLEAN /\ timer' \in BOOLEAN
    BY <1>0, <1>11, ReturnTyped DEF FailPatch
  <2>2. /\ pc = "failPatch"
        /\ UNCHANGED <<cr, cache, envVars, metaVars, backoff>>
    BY <1>11 DEF FailPatch
  <2>3. /\ status' \in Status
        /\ Generations' /\ BaseBetween' /\ WorkJudges' /\ AllReadySynced'
    <3>1. CASE status' = PatchedStatus
      BY <2>1, <2>2, <3>1, PatchKeeps
    <3>2. CASE UNCHANGED status
      BY <1>0, <2>1, <2>2, <3>2, LaterVersion, SameGrows DEF TypeOK
    <3> QED BY <1>11, <3>1, <3>2 DEF FailPatch
  <2>4. Typed'
    BY <2>1, <2>3, EndedTyped
  <2>5. bounds' \in [Counters -> Nat]
    BY <1>0, <1>11, CountTyped DEF FailPatch, Fault, Counters
  <2>6. OtherTypes'
    BY <2>1, <2>2, <2>5 DEF TypeOK, OtherTypes, envVars, metaVars
  <2> QED BY <2>3, <2>4, <2>6 DEF Judgement
<1>12. CASE Patch
  <2>1. /\ pc = "patch" /\ status' = PatchedStatus
        /\ UNCHANGED <<cr, cache, envVars, metaVars, backoff, bounds>>
    BY <1>12 DEF Patch
  <2>2. CASE Return(FALSE, PollAgain)
    <3>1. Ended /\ queued' \in BOOLEAN /\ timer' \in BOOLEAN
      BY <1>0, <2>2, ReturnTyped, WrittenTyped
    <3>2. /\ status' \in Status
          /\ Generations' /\ BaseBetween' /\ WorkJudges' /\ AllReadySynced'
      BY <2>1, <3>1, PatchKeeps
    <3>3. Typed'
      BY <3>1, <3>2, EndedTyped
    <3>4. OtherTypes'
      BY <2>1, <3>1 DEF TypeOK, OtherTypes, envVars, metaVars
    <3> QED BY <3>2, <3>3, <3>4 DEF Judgement
  <2>3. CASE /\ pc' = "clear" /\ base' = [cr |-> cr, status |-> status']
             /\ UNCHANGED <<work, queued, timer>>
    <3>1. /\ status' \in Status
          /\ Generations' /\ BaseBetween' /\ WorkJudges' /\ AllReadySynced'
      BY <2>1, <2>3, PatchKeeps
    <3>2. Typed'
      BY <1>0, <2>3, <3>1 DEF Typed, Steps, TypeOK
    <3>3. OtherTypes'
      BY <2>1, <2>3 DEF TypeOK, OtherTypes, envVars, metaVars
    <3> QED BY <3>1, <3>2, <3>3 DEF Judgement
  <2> QED BY <1>12, <2>2, <2>3 DEF Patch
<1>13. CASE Clear
  <2>1. Ended /\ queued' \in BOOLEAN /\ timer' \in BOOLEAN
    BY <1>0, <1>13, ReturnTyped, WrittenTyped DEF Clear
  <2>2. Grows(cr')
    BY <1>0, <1>13, EditsGrow, SameGrows DEF Clear
  <2>3. UNCHANGED <<status, cache, envVars, metaVars, backoff>>
    BY <1>13 DEF Clear
  <2>4. bounds' \in [Counters -> Nat]
    BY <1>0, <1>13, CountTyped DEF Clear, Fault, Counters
  <2>5. Generations' /\ BaseBetween' /\ WorkJudges' /\ AllReadySynced'
    BY <2>1, <2>2, <2>3, LaterVersion
  <2>6. Typed'
    BY <2>1, <2>3, EndedTyped DEF TypeOK
  <2>7. OtherTypes'
    BY <2>1, <2>2, <2>3, <2>4 DEF TypeOK, OtherTypes, envVars, metaVars, Grows
  <2> QED BY <2>5, <2>6, <2>7 DEF Judgement
<1> QED BY <1>1, <1>2, <1>3, <1>4, <1>5, <1>6, <1>7, <1>8, <1>9, <1>10, <1>11,
           <1>12, <1>13 DEF Reconcile

\* Every step keeps the invariant.
LEMMA NextIInv == IInv /\ [Next]_vars => IInv'
<1> SUFFICES ASSUME IInv, [Next]_vars PROVE IInv'
  OBVIOUS
<1>0. TypeOK
  BY DEF IInv
<1> DEFINE Keeps == Judgement' /\ OtherTypes'
<1>1. Keeps => IInv'
  BY DEF IInv, Judgement, Typed, OtherTypes, TypeOK
<1>2. CASE Environment
  BY <1>2, EnvironmentIInv
<1>3. CASE InformerSync
  <2>1. /\ cache' = [cr |-> cr, status |-> status]
        /\ UNCHANGED <<cr, status>> /\ UNCHANGED recVars
    BY <1>3 DEF InformerSync
  <2>2. Generations' /\ BaseBetween' /\ WorkJudges' /\ AllReadySynced'
    BY <2>1, CacheCatchesUp
  <2>3. Typed'
    BY <1>0, <2>1 DEF TypeOK, Typed, recVars
  <2>4. queued' \in BOOLEAN
    BY <1>3 DEF InformerSync
  <2>5. OtherTypes'
    BY <1>0, <1>3, <2>4, WrittenTyped
       DEF InformerSync, TypeOK, OtherTypes, envVars, metaVars
  <2> QED BY <1>1, <2>2, <2>3, <2>5 DEF Judgement
<1>4. CASE MetaSync \/ GarbageCollect \/ TimerFires
  <2>1. Judgement'
    BY <1>4, OthersKeep DEF MetaSync, GarbageCollect, TimerFires
  <2>2. OtherTypes'
    BY <1>0, <1>4, WrittenTyped
       DEF MetaSync, GarbageCollect, TimerFires, TypeOK, OtherTypes, envVars,
           metaVars
  <2> QED BY <1>1, <2>1, <2>2
<1>5. CASE Reconcile
  BY <1>5, ReconcileIInv
<1>6. CASE UNCHANGED vars
  <2>1. Judgement'
    BY <1>6, OthersKeep DEF vars
  <2>2. OtherTypes'
    BY <1>0, <1>6 DEF vars, TypeOK, OtherTypes, envVars, metaVars
  <2> QED BY <1>1, <2>1, <2>2
<1> QED BY <1>2, <1>3, <1>4, <1>5, <1>6 DEF Next

---------------------------------------------------------------------------

\* Every state of the controller has its types, the statuses that nested record
\* updates and merge patches build included.
THEOREM TypeCorrect == Spec => []TypeOK
<1>1. IInv => TypeOK
  BY DEF IInv
<1> QED BY <1>1, InitIInv, NextIInv, PTL DEF Spec

\* Ready=True is never reported beside AllGatewaysSynced other than True: the
\* failure paths lower Ready or leave both alone, and a patch sends the list of
\* conditions whole.
THEOREM ReadyMeansSyncedHolds == Spec => []ReadyMeansSynced
<1>1. IInv => ReadyMeansSynced
  BY DEF IInv, AllReadySynced, ReadySynced, ReadyMeansSynced
<1> QED BY <1>1, InitIInv, NextIInv, PTL DEF Spec

\* A status that has observed the current generation judges the current profiles,
\* whatever was edited while the reconcile ran on its stale copy.
THEOREM ObservedGenerationHonestHolds == Spec => []ObservedGenerationHonest
<1>1. IInv => ObservedGenerationHonest
  BY DEF IInv, Generations, ObservedGenerationHonest
<1> QED BY <1>1, InitIInv, NextIInv, PTL DEF Spec

=============================================================================
