----------------------------- MODULE AgentProofs -----------------------------
(***************************************************************************)
(* Proofs about module Agent: types, and that the agent rightly does        *)
(* nothing when it finds the commit and the profiles unchanged, wherever    *)
(* its syncs failed, were killed or met newer metadata on the way.          *)
(***************************************************************************)
EXTENDS Agent, FiniteSetTheorems, TLAPS

---------------------------------------------------------------------------
(* Typing of what the actions write.                                       *)

AllFaults == {"metadata", "git", "engine", "write", "designer", "scan"}

Steps == MainSteps \cup PostSteps \cup SyncSteps

\* Sets of fault kinds are finite.
LEMMA FaultsFinite ==
    ASSUME NEW kinds \in SUBSET AllFaults
    PROVE  Cardinality(kinds) \in Nat
<1>1. IsFiniteSet(AllFaults)
  <2>1. IsFiniteSet({})
    BY FS_EmptySet
  <2>2. IsFiniteSet({} \cup {"metadata"})
    BY <2>1, FS_AddElement
  <2>3. IsFiniteSet(({} \cup {"metadata"}) \cup {"git"})
    BY <2>2, FS_AddElement
  <2>4. IsFiniteSet((({} \cup {"metadata"}) \cup {"git"}) \cup {"engine"})
    BY <2>3, FS_AddElement
  <2>5. IsFiniteSet(((({} \cup {"metadata"}) \cup {"git"}) \cup {"engine"})
                        \cup {"write"})
    BY <2>4, FS_AddElement
  <2>6. IsFiniteSet((((({} \cup {"metadata"}) \cup {"git"}) \cup {"engine"})
                        \cup {"write"}) \cup {"designer"})
    BY <2>5, FS_AddElement
  <2>7. IsFiniteSet(((((({} \cup {"metadata"}) \cup {"git"}) \cup {"engine"})
                        \cup {"write"}) \cup {"designer"}) \cup {"scan"})
    BY <2>6, FS_AddElement
  <2>8. AllFaults = ((((({} \cup {"metadata"}) \cup {"git"}) \cup {"engine"})
                        \cup {"write"}) \cup {"designer"}) \cup {"scan"}
    BY DEF AllFaults
  <2> QED BY <2>7, <2>8
<1>2. IsFiniteSet(kinds)
  BY <1>1, FS_Subset
<1> QED BY <1>2, FS_CardinalityType

\* Counters stay numbers.
LEMMA CountTyped ==
    ASSUME count \in [Counters -> Nat], NEW c \in Counters, NEW n \in Nat,
           NEW max, Count(c, n, max)
    PROVE  count' \in [Counters -> Nat]
BY DEF Count

\* So do they when calls fail.
LEMMA FailingTyped ==
    ASSUME count \in [Counters -> Nat], NEW kinds \in SUBSET AllFaults,
           Failing(kinds)
    PROVE  count' \in [Counters -> Nat]
<1>1. PICK n \in Nat : n = Cardinality(kinds)
  BY FaultsFinite
<1>2. Count("fault", n, MaxFaults)
  BY <1>1 DEF Failing
<1> QED BY <1>2, CountTyped DEF Counters

\* The constant contents, reports and jobs.
LEMMA ConstantsTyped ==
    /\ Nothing \in Content
    /\ \A k \in {"torn", "wiped", "defaults"} : Damaged(k) \in Content
    /\ \A c \in Commits \cup {0}, d \in DocIds \cup {0} : Tree(c, d) \in Content
    /\ \A c \in Content : Torn(c) \in Content
    /\ \A c \in Commits \cup {0} : ErrorReport(c) \in Report
    /\ NoJob \in Job
    /\ \A c \in Commits \cup {0} : [NoJob EXCEPT !.commit = c] \in Job
BY DEF Nothing, Content, Damaged, Tree, Torn, ErrorReport, Report, NoJob, Job

\* A goroutine moves on.
LEMMA GotoTyped ==
    ASSUME pc \in [Threads -> Steps], NEW t \in Threads, NEW s \in Steps,
           Goto(t, s)
    PROVE  pc' \in [Threads -> Steps]
BY DEF Goto

\* A goroutine's job is replaced.
LEMMA JobTyped ==
    ASSUME job \in [Threads -> Job], NEW t \in Threads, NEW j \in Job
    PROVE  [job EXCEPT ![t] = j] \in [Threads -> Job]
OBVIOUS

\* A field of a job changes.
LEMMA FieldsTyped ==
    ASSUME NEW j \in Job, NEW c \in Commits \cup {0}, NEW d \in DocIds \cup {0}
    PROVE  /\ [j EXCEPT !.doc = d] \in Job
           /\ [j EXCEPT !.use = d] \in Job
           /\ [j EXCEPT !.commit = c] \in Job
           /\ [j EXCEPT !.commit = c, !.initial = TRUE] \in Job
BY DEF Job

\* A report that is written, or not.
LEMMA WriteTyped ==
    ASSUME report \in Report, NEW r \in Report, NEW failed, NEW done,
           Write(r, failed, done)
    PROVE  report' \in Report
BY DEF Write

\* What follows a sync.
LEMMA AfterSyncTyped ==
    ASSUME TypeOK, NEW t \in Threads, AfterSync(t)
    PROVE  pc' \in [Threads -> Steps] /\ job' \in [Threads -> Job]
<1> DEFINE j == IF job["main"].initial
                THEN [NoJob EXCEPT !.commit = job["main"].commit]
                ELSE job["post"]
           s == IF job["main"].initial THEN "await" ELSE pc["post"]
<1>0. pc \in [Threads -> Steps] /\ job \in [Threads -> Job]
  BY DEF TypeOK, Steps
<1>1. j \in Job /\ s \in Steps /\ "await" \in Steps /\ "loop" \in Steps
      /\ "none" \in Steps
  <2>1. job["main"].commit \in Commits \cup {0} /\ job["post"] \in Job
        /\ pc["post"] \in Steps
    BY <1>0 DEF Threads, Job
  <2> QED BY <2>1, ConstantsTyped DEF Steps, MainSteps, PostSteps
<1>2. CASE t = "post"
  BY <1>0, <1>1, <1>2, ConstantsTyped DEF AfterSync
<1>3. CASE t # "post"
  <2>1. /\ pc' = [pc EXCEPT !["main"] = "loop", !["post"] = s]
        /\ job' = [job EXCEPT !["main"] = NoJob, !["post"] = j]
    BY <1>0, <1>3 DEF AfterSync, Threads
  <2> HIDE DEF j, s
  <2> QED BY <1>0, <1>1, <2>1, ConstantsTyped
<1> QED BY <1>2, <1>3

\* A restart.
LEMMA RestartTyped ==
    ASSUME Restart
    PROVE  /\ pc' \in [Threads -> Steps] /\ job' \in [Threads -> Job]
           /\ mem' \in [commit : Commits \cup {0}, doc : DocIds \cup {0}]
           /\ backoff' \in BOOLEAN /\ polled' \in Nat /\ pending' \in BOOLEAN
BY ConstantsTyped DEF Restart, Steps, MainSteps, PostSteps, Unsynced

---------------------------------------------------------------------------
(* Type correctness.                                                       *)

\* The variables of a sync step, typed one by one.
Typed ==
    /\ head \in Commits
    /\ meta \in [commit : Commits, doc : DocIds, version : Nat]
    /\ polled \in Nat /\ pending \in BOOLEAN
    /\ repo \in Commits \cup {0}
    /\ staging \in Content /\ live \in Content
    /\ report \in Report
    /\ gateway \in BOOLEAN /\ sessions \in BOOLEAN
    /\ pc \in [Threads -> Steps]
    /\ job \in [Threads -> Job]
    /\ mem \in [commit : Commits \cup {0}, doc : DocIds \cup {0}]
    /\ backoff \in BOOLEAN /\ term \in BOOLEAN
    /\ count \in [Counters -> Nat]

LEMMA TypedIsTypeOK == TypeOK <=> Typed
BY DEF TypeOK, Typed, Steps

\* The fields that the actions read.
LEMMA FieldsOf ==
    ASSUME Typed, NEW t \in Threads
    PROVE  /\ job[t] \in Job /\ pc[t] \in Steps
           /\ job[t].commit \in Commits \cup {0}
           /\ job[t].doc \in DocIds \cup {0} /\ job[t].use \in DocIds \cup {0}
           /\ meta.commit \in Commits /\ meta.doc \in DocIds
           /\ meta.version \in Nat
           /\ mem.commit \in Commits \cup {0} /\ mem.doc \in DocIds \cup {0}
BY DEF Typed, Job

\* The first metadata is there, and the agent's container starts.
LEMMA InitTyped == Init => Typed
<1> SUFFICES ASSUME Init PROVE Typed
  OBVIOUS
<1>1. 1 \in Commits /\ 1 \in DocIds
  <2>1. Len(Docs) \in Nat
    BY DocAssumption
  <2> QED BY <2>1, DocAssumption, BoundAssumption DEF Commits, DocIds
<1> QED BY <1>1, ConstantsTyped
        DEF Init, Typed, Report, Steps, MainSteps, PostSteps, Unsynced, Counters

\* The environment.
LEMMA EnvironmentTyped ==
    ASSUME Typed, Environment \/ BackoffElapses \/ PollTick \/ FallbackTick
    PROVE  Typed'
<1>0. "main" \in Threads /\ "post" \in Threads
  BY DEF Threads
<1>1. CASE RefMoves
  <2>1. count' \in [Counters -> Nat]
    BY <1>1, CountTyped DEF RefMoves, Typed, Counters
  <2> QED BY <1>1, <2>1 DEF RefMoves, Typed, diskVars
<1>2. CASE ControllerWrites \/ ProfileChanges
  <2>1. PICK v \in Nat : v = meta.version + 1
    BY <1>0, FieldsOf
  <2>2. PICK c \in Commits, d \in DocIds :
           meta' = [meta EXCEPT !.commit = c, !.doc = d, !.version = v]
    <3>1. CASE ControllerWrites
      <4>1. [meta EXCEPT !.commit = head, !.version = v]
               = [meta EXCEPT !.commit = head, !.doc = meta.doc, !.version = v]
        BY DEF Typed
      <4> QED BY <1>0, <2>1, <3>1, <4>1, FieldsOf DEF ControllerWrites, Typed
    <3>2. CASE ProfileChanges
      <4>1. PICK d \in DocIds : meta' = [meta EXCEPT !.doc = d, !.version = v]
        BY <2>1, <3>2 DEF ProfileChanges
      <4>2. [meta EXCEPT !.doc = d, !.version = v]
               = [meta EXCEPT !.commit = meta.commit, !.doc = d, !.version = v]
        BY DEF Typed
      <4> QED BY <1>0, <4>1, <4>2, FieldsOf
    <3> QED BY <1>2, <3>1, <3>2
  <2>3. meta' \in [commit : Commits, doc : DocIds, version : Nat]
    BY <2>2 DEF Typed
  <2>4. count' \in [Counters -> Nat]
    BY <1>2, CountTyped DEF ControllerWrites, ProfileChanges, Typed, Counters
  <2> QED BY <1>2, <2>3, <2>4
          DEF ControllerWrites, ProfileChanges, Typed, diskVars
<1>3. CASE GatewayUp
  BY <1>3, ConstantsTyped DEF GatewayUp, Typed
<1>4. CASE SessionsOpen \/ SessionsClose
  <2>1. count' \in [Counters -> Nat]
    BY <1>4, CountTyped DEF SessionsOpen, SessionsClose, Typed, Counters
  <2> QED BY <1>4, <2>1 DEF SessionsOpen, SessionsClose, Typed, diskVars
<1>5. CASE Crash
  <2>1. count' \in [Counters -> Nat]
    BY <1>5, CountTyped DEF Crash, Typed, Counters
  <2> QED BY <1>5, <2>1, RestartTyped DEF Crash, Typed, envVars, diskVars
<1>6. CASE Terminate \/ BackoffElapses \/ PollTick \/ FallbackTick
  <2>1. pending' \in BOOLEAN /\ polled' \in Nat
    BY <1>0, <1>6, FieldsOf
       DEF Terminate, BackoffElapses, PollTick, FallbackTick, Typed
  <2> QED BY <1>6, <2>1
          DEF Terminate, BackoffElapses, PollTick, FallbackTick, Typed,
              envVars, diskVars
<1> QED BY <1>1, <1>2, <1>3, <1>4, <1>5, <1>6 DEF Environment

\* Run and handleSyncTrigger.
LEMMA RunTyped ==
    ASSUME Typed,
           \/ ReadFirstMetadata \/ Clone \/ CloneFails \/ SkipTrigger
           \/ HandleTrigger \/ Fetch \/ FetchFails \/ DesignerProceed
           \/ DesignerFail \/ DesignerWait \/ WaitEnds \/ WaitTimesOut
           \/ WaitCancelled \/ Stop
    PROVE  Typed'
<1>0. /\ "main" \in Threads /\ "post" \in Threads
      /\ \A s \in {"start", "clone", "loop", "fetch", "designer", "waiting",
                   "stopped", "none", "read"} : s \in Steps
  BY DEF Threads, Steps, MainSteps, PostSteps, SyncSteps
<1> DEFINE main == job["main"]
<1>j. /\ main \in Job
      /\ main.commit \in Commits \cup {0} /\ meta.doc \in DocIds
      /\ meta.commit \in Commits /\ head \in Commits
      /\ job \in [Threads -> Job] /\ pc \in [Threads -> Steps]
      /\ count \in [Counters -> Nat] /\ report \in Report
      /\ mem.commit \in Commits \cup {0}
  BY <1>0, FieldsOf DEF Typed
<1>b. \A b \in BOOLEAN : BlockedReport(b) \in Report
  BY <1>j DEF BlockedReport, Report
<1>e. ErrorReport(main.commit) \in Report /\ ErrorReport(head) \in Report
  BY <1>j, ConstantsTyped
<1>n. [job EXCEPT !["main"] = NoJob] \in [Threads -> Job]
  BY <1>0, <1>j, ConstantsTyped, JobTyped
<1>f. \A failed \in SUBSET {"write"} :
         failed \in SUBSET AllFaults
  BY DEF AllFaults
<1> HIDE DEF main
<1>1. CASE ReadFirstMetadata
  <2>1. job' = [job EXCEPT !["main"] = [main EXCEPT !.doc = meta.doc]]
    BY <1>1 DEF ReadFirstMetadata, main
  <2>2. job' \in [Threads -> Job]
    BY <1>0, <1>j, <2>1, FieldsTyped, JobTyped
  <2>3. pc' \in [Threads -> Steps]
    BY <1>0, <1>1, <1>j, GotoTyped DEF ReadFirstMetadata
  <2> QED BY <1>1, <2>2, <2>3 DEF ReadFirstMetadata, Typed, envVars, diskVars
<1>2. CASE Clone
  <2>1. job' = [job EXCEPT !["main"] = [main EXCEPT !.commit = head,
                                                    !.initial = TRUE]]
    BY <1>0, <1>2, <1>j DEF Clone, main
  <2>2. job' \in [Threads -> Job]
    BY <1>0, <1>j, <2>1, FieldsTyped, JobTyped
  <2>3. pc' \in [Threads -> Steps]
    BY <1>0, <1>2, <1>j, GotoTyped DEF Clone
  <2> QED BY <1>2, <1>j, <2>2, <2>3 DEF Clone, Typed, envVars
<1>3. CASE CloneFails
  <2>1. count' \in [Counters -> Nat]
    BY <1>3, <1>j, FailingTyped DEF CloneFails, AllFaults
  <2> QED BY <1>3, <2>1, RestartTyped DEF CloneFails, Typed, envVars, diskVars
<1>4. CASE SkipTrigger
  <2>1. count' \in [Counters -> Nat]
    BY <1>4, <1>j, FailingTyped DEF SkipTrigger, AllFaults
  <2> QED BY <1>4, <2>1 DEF SkipTrigger, Typed, envVars, diskVars
<1>5. CASE HandleTrigger
  <2>1. [commit |-> meta.commit, doc |-> meta.doc, use |-> 0,
         initial |-> FALSE] \in Job
    BY <1>j DEF Job
  <2>2. job' \in [Threads -> Job]
    BY <1>0, <1>5, <1>j, <2>1, JobTyped DEF HandleTrigger
  <2>3. pc' \in [Threads -> Steps]
    BY <1>0, <1>5, <1>j, GotoTyped DEF HandleTrigger
  <2> QED BY <1>5, <2>2, <2>3 DEF HandleTrigger, Typed, envVars, diskVars
<1>6. CASE Fetch
  <2>1. \/ /\ pc' \in [Threads -> Steps]
           /\ job' = [job EXCEPT !["main"] = [main EXCEPT !.commit = head]]
           /\ UNCHANGED <<report, count>>
        \/ /\ \E failed \in SUBSET {"write"} :
                 Failing(failed) /\ Write(ErrorReport(head), failed, term)
           /\ Goto("main", "loop")
           /\ job' = [job EXCEPT !["main"] = NoJob]
    BY <1>0, <1>6, <1>j DEF Fetch, Goto, main
  <2>2. pc' \in [Threads -> Steps]
    BY <1>0, <1>j, <2>1, GotoTyped
  <2>4. [main EXCEPT !.commit = head] \in Job
    BY <1>j, 0 \in DocIds \cup {0}, FieldsTyped
  <2>5. job' \in [Threads -> Job]
    BY <1>0, <1>j, <1>n, <2>1, <2>4, JobTyped
  <2>3. report' \in Report /\ count' \in [Counters -> Nat]
    BY <1>e, <1>f, <1>j, <2>1, FailingTyped, WriteTyped
  <2> QED BY <1>6, <1>j, <2>2, <2>3, <2>5 DEF Fetch, Typed, envVars
<1>7. CASE FetchFails
  <2>1. PICK failed \in {{"git"}, {"git", "write"}} :
           /\ Failing(failed)
           /\ Write(ErrorReport(main.commit), failed, term)
    BY <1>7 DEF FetchFails, main
  <2>2. failed \in SUBSET AllFaults
    BY DEF AllFaults
  <2>3. report' \in Report /\ count' \in [Counters -> Nat]
    BY <1>e, <1>j, <2>1, <2>2, FailingTyped, WriteTyped
  <2>4. pc' \in [Threads -> Steps] /\ job' \in [Threads -> Job]
    BY <1>0, <1>7, <1>j, <1>n, GotoTyped DEF FetchFails
  <2> QED BY <1>7, <2>3, <2>4 DEF FetchFails, Typed, envVars, diskVars
<1>8. CASE DesignerProceed
  <2>1. count' \in [Counters -> Nat]
    BY <1>8, <1>j, FailingTyped DEF DesignerProceed, AllFaults
  <2>2. pc' \in [Threads -> Steps]
    BY <1>0, <1>8, <1>j, GotoTyped DEF DesignerProceed
  <2> QED BY <1>8, <2>1, <2>2 DEF DesignerProceed, Typed, envVars, diskVars
<1>9. CASE DesignerFail
  <2>1. PICK failed \in SUBSET {"write"} :
           Failing(failed) /\ Write(ErrorReport(main.commit), failed, FALSE)
    BY <1>9 DEF DesignerFail, main
  <2>2. report' \in Report /\ count' \in [Counters -> Nat]
    BY <1>e, <1>f, <1>j, <2>1, FailingTyped, WriteTyped
  <2>3. pc' \in [Threads -> Steps] /\ job' \in [Threads -> Job]
    BY <1>0, <1>9, <1>j, <1>n, GotoTyped DEF DesignerFail
  <2> QED BY <1>9, <2>2, <2>3 DEF DesignerFail, Typed, envVars, diskVars
<1>10. CASE DesignerWait
  <2>1. PICK failed \in SUBSET {"write"} :
           Failing(failed) /\ Write(BlockedReport(TRUE), failed, FALSE)
    BY <1>10 DEF DesignerWait
  <2>2. report' \in Report /\ count' \in [Counters -> Nat]
    BY <1>b, <1>f, <1>j, <2>1, FailingTyped, WriteTyped
  <2>3. pc' \in [Threads -> Steps]
    BY <1>0, <1>10, <1>j, GotoTyped DEF DesignerWait
  <2> QED BY <1>10, <2>2, <2>3 DEF DesignerWait, Typed, envVars, diskVars
<1>11. CASE WaitEnds
  <2>1. PICK failed \in SUBSET {"designer", "write"} :
           Failing(failed) /\ Write(BlockedReport(FALSE), failed, term)
    BY <1>11 DEF WaitEnds
  <2>2. failed \in SUBSET AllFaults
    BY DEF AllFaults
  <2>3. report' \in Report /\ count' \in [Counters -> Nat]
    BY <1>b, <1>j, <2>1, <2>2, FailingTyped, WriteTyped
  <2>4. pc' \in [Threads -> Steps]
    BY <1>0, <1>11, <1>j, GotoTyped DEF WaitEnds
  <2> QED BY <1>11, <2>3, <2>4 DEF WaitEnds, Typed, envVars, diskVars
<1>12. CASE WaitTimesOut
  <2>1. PICK failed \in SUBSET {"write"} : Failing(failed)
    BY <1>12 DEF WaitTimesOut
  <2>2. count' \in [Counters -> Nat]
    BY <1>f, <1>j, <2>1, FailingTyped
  <2>3. report' \in Report
    BY <1>12, <1>b, <1>e, <1>j DEF WaitTimesOut, main
  <2>4. pc' \in [Threads -> Steps] /\ job' \in [Threads -> Job]
    BY <1>0, <1>12, <1>j, <1>n, GotoTyped DEF WaitTimesOut
  <2> QED BY <1>12, <2>2, <2>3, <2>4 DEF WaitTimesOut, Typed, envVars, diskVars
<1>13. CASE WaitCancelled
  <2>1. pc' \in [Threads -> Steps] /\ job' \in [Threads -> Job]
    BY <1>0, <1>13, <1>j, <1>n, GotoTyped DEF WaitCancelled
  <2> QED BY <1>13, <2>1 DEF WaitCancelled, Typed, envVars, diskVars
<1>14. CASE Stop
  <2>1. pc' \in [Threads -> Steps] /\ job' \in [Threads -> Job]
    BY <1>0, <1>14, ConstantsTyped DEF Stop
  <2> QED BY <1>14, <2>1 DEF Stop, Typed, envVars, diskVars
<1> QED BY <1>1, <1>2, <1>3, <1>4, <1>5, <1>6, <1>7, <1>8, <1>9, <1>10, <1>11,
           <1>12, <1>13, <1>14

\* postCommissionSync up to its sync.
LEMMA PostTyped ==
    ASSUME Typed, PostBegins \/ PostGivesUp
    PROVE  Typed'
<1>0. /\ "post" \in Threads /\ "read" \in Steps /\ "none" \in Steps
  BY DEF Threads, Steps, PostSteps, SyncSteps
<1>1. /\ job["post"] \in Job /\ mem.doc \in DocIds \cup {0}
      /\ job \in [Threads -> Job] /\ pc \in [Threads -> Steps]
  BY <1>0, FieldsOf DEF Typed
<1>2. CASE PostBegins
  <2>1. [job["post"] EXCEPT !.doc = mem.doc] \in Job
    BY <1>1, 0 \in Commits \cup {0}, FieldsTyped
  <2>2. job' = [job EXCEPT !["post"] = [job["post"] EXCEPT !.doc = mem.doc]]
    BY <1>2 DEF PostBegins
  <2>3. job' \in [Threads -> Job]
    BY <1>0, <1>1, <2>1, <2>2, JobTyped
  <2>4. pc' \in [Threads -> Steps]
    BY <1>0, <1>1, <1>2, GotoTyped DEF PostBegins
  <2> QED BY <1>2, <2>3, <2>4 DEF PostBegins, Typed, envVars, diskVars
<1>3. CASE PostGivesUp
  <2>1. pc' \in [Threads -> Steps]
    BY <1>0, <1>1, <1>3, GotoTyped DEF PostGivesUp
  <2> QED BY <1>3, <2>1 DEF PostGivesUp, Typed, envVars, diskVars
<1> QED BY <1>2, <1>3

\* A sync that ends with an error.
LEMMA SyncFailsTyped ==
    ASSUME Typed, NEW t \in Threads, NEW failed \in SUBSET AllFaults,
           SyncFails(t, failed), staging' \in Content, live' \in Content
    PROVE  Typed'
<1>1. job[t].commit \in Commits \cup {0}
  BY FieldsOf
<1>2. count' \in [Counters -> Nat]
  BY FailingTyped DEF SyncFails, Typed
<1>3. report' \in Report
  BY <1>1, ConstantsTyped, WriteTyped DEF SyncFails, Typed
<1>4. pc' \in [Threads -> Steps] /\ job' \in [Threads -> Job]
  BY AfterSyncTyped, TypedIsTypeOK DEF SyncFails
<1>5. backoff' \in BOOLEAN
  BY DEF SyncFails
<1> QED BY <1>2, <1>3, <1>4, <1>5 DEF SyncFails, Typed, envVars

\* syncOnce of either goroutine.
LEMMA SyncTyped ==
    ASSUME Typed, NEW t \in Threads, Sync(t)
    PROVE  Typed'
<1>0. \A s \in {"stage", "merge", "clean", "scan", "record"} : s \in Steps
  BY DEF Steps, SyncSteps
<1>j. /\ job[t] \in Job /\ job[t].commit \in Commits \cup {0}
      /\ job[t].doc \in DocIds \cup {0} /\ job[t].use \in DocIds \cup {0}
      /\ meta.doc \in DocIds
      /\ job \in [Threads -> Job] /\ pc \in [Threads -> Steps]
      /\ staging \in Content /\ live \in Content /\ repo \in Commits \cup {0}
  BY FieldsOf DEF Typed
<1>1. CASE ReadProfile(t)
  <2>1. [job[t] EXCEPT !.use = meta.doc] \in Job
    BY <1>j, FieldsTyped
  <2>2. job' = [job EXCEPT ![t] = [job[t] EXCEPT !.use = meta.doc]]
    BY <1>1 DEF ReadProfile
  <2>3. job' \in [Threads -> Job]
    BY <1>j, <2>1, <2>2, JobTyped
  <2>4. pc' \in [Threads -> Steps]
    BY <1>0, <1>1, <1>j, GotoTyped DEF ReadProfile
  <2> QED BY <1>1, <2>3, <2>4 DEF ReadProfile, Typed, envVars, diskVars
<1>2. CASE ReadProfileFails(t)
  <2>1. PICK failed \in SUBSET {"metadata", "write"} : SyncFails(t, failed)
    BY <1>2 DEF ReadProfileFails
  <2>2. failed \in SUBSET AllFaults
    BY DEF AllFaults
  <2> QED BY <1>2, <1>j, <2>1, <2>2, SyncFailsTyped DEF ReadProfileFails
<1>3. CASE Stage(t)
  <2>1. pc' \in [Threads -> Steps]
    BY <1>0, <1>3, <1>j, GotoTyped DEF Stage
  <2>2. staging' \in Content
    BY <1>3, <1>j, ConstantsTyped DEF Stage
  <2> QED BY <1>3, <2>1, <2>2 DEF Stage, Typed, envVars
<1>4. CASE EngineFails(t)
  <2>1. PICK failed \in {{"engine"}, {"engine", "write"}} : SyncFails(t, failed)
    BY <1>4 DEF EngineFails
  <2>2. failed \in SUBSET AllFaults
    BY DEF AllFaults
  <2>3. staging' \in Content /\ live' \in Content
    BY <1>4, <1>j, ConstantsTyped DEF EngineFails, Merging
  <2> QED BY <2>1, <2>2, <2>3, SyncFailsTyped
<1>5. CASE StagingGone(t)
  <2>1. {} \in SUBSET AllFaults
    OBVIOUS
  <2> QED BY <1>5, <1>j, <2>1, SyncFailsTyped DEF StagingGone
<1>6. CASE Merge(t)
  <2>1. pc' \in [Threads -> Steps]
    BY <1>0, <1>6, <1>j, GotoTyped DEF Merge
  <2>2. live' \in Content
    BY <1>6, <1>j, ConstantsTyped DEF Merge, Merging
  <2> QED BY <1>6, <2>1, <2>2 DEF Merge, Typed, envVars
<1>7. CASE Clean(t)
  <2>1. pc' \in [Threads -> Steps]
    BY <1>0, <1>7, <1>j, GotoTyped DEF Clean
  <2>2. live' \in Content /\ staging' \in Content
    BY <1>7, <1>j, ConstantsTyped DEF Clean
  <2> QED BY <1>7, <2>1, <2>2 DEF Clean, Typed, envVars
<1>8. CASE ScanAndReport(t)
  <2>1. PICK failed \in SUBSET {"scan", "write"},
             s \in {"Pending", "Synced", "Error"} :
           /\ Failing(failed)
           /\ Write([state |-> s, commit |-> job[t].commit, blocked |-> FALSE],
                    failed, Cancelled(t))
    BY <1>8 DEF ScanAndReport
  <2>2. failed \in SUBSET AllFaults
    BY DEF AllFaults
  <2>3. [state |-> s, commit |-> job[t].commit, blocked |-> FALSE] \in Report
    BY <1>j DEF Report
  <2>4. report' \in Report /\ count' \in [Counters -> Nat]
    BY <2>1, <2>2, <2>3, FailingTyped, WriteTyped DEF Typed
  <2>5. pc' \in [Threads -> Steps]
    BY <1>0, <1>8, <1>j, GotoTyped DEF ScanAndReport
  <2> QED BY <1>8, <2>4, <2>5 DEF ScanAndReport, Typed, envVars, diskVars
<1>9. CASE Record(t)
  <2>1. pc' \in [Threads -> Steps] /\ job' \in [Threads -> Job]
    BY <1>9, AfterSyncTyped, TypedIsTypeOK DEF Record
  <2>2. mem' \in [commit : Commits \cup {0}, doc : DocIds \cup {0}]
    BY <1>9, <1>j DEF Record
  <2>3. backoff' \in BOOLEAN
    BY <1>9 DEF Record, Typed
  <2> QED BY <1>9, <2>1, <2>2, <2>3 DEF Record, Typed, envVars, diskVars
<1> QED BY <1>1, <1>2, <1>3, <1>4, <1>5, <1>6, <1>7, <1>8, <1>9 DEF Sync

\* Every step keeps the types.
LEMMA NextTyped == Typed /\ [Next]_vars => Typed'
<1> SUFFICES ASSUME Typed, [Next]_vars PROVE Typed'
  OBVIOUS
<1>1. CASE Environment \/ BackoffElapses \/ PollTick \/ FallbackTick
  BY <1>1, EnvironmentTyped
<1>2. CASE Run
  <2>1. CASE Sync("main")
    BY <2>1, SyncTyped DEF Threads
  <2> QED BY <1>2, <2>1, RunTyped DEF Run
<1>3. CASE PostCommission
  <2>1. CASE Sync("post")
    BY <2>1, SyncTyped DEF Threads
  <2> QED BY <1>3, <2>1, PostTyped DEF PostCommission
<1>4. CASE UNCHANGED vars
  BY <1>4 DEF vars, Typed, envVars, diskVars
<1> QED BY <1>1, <1>2, <1>3, <1>4 DEF Next

\* Every state of the agent has its types: no sync ever stages, reports or
\* records a commit or a document that does not exist (agent.go:271-705).
THEOREM TypeCorrect == Spec => []TypeOK
<1>1. Spec => []Typed
  BY InitTyped, NextTyped, PTL DEF Spec
<1> QED BY <1>1, TypedIsTypeOK, PTL

---------------------------------------------------------------------------
(* A skipped trigger: the metadata read before a sync, the commit fetched    *)
(* and the metadata read in the sync are ordered, and so a sync that goes    *)
(* back to what was recorded last finds its files in place.                  *)

\* Commits and documents as numbers.
LEMMA Numbers ==
    /\ Commits \subseteq Nat /\ DocIds \subseteq Nat
    /\ 0 \notin Commits /\ 0 \notin DocIds
<1>1. Len(Docs) \in Nat
  BY DocAssumption
<1> QED BY <1>1, BoundAssumption DEF Commits, DocIds

LEMMA StateNumbers ==
    ASSUME Typed
    PROVE  /\ head \in Nat /\ repo \in Nat
           /\ meta.doc \in DocIds /\ meta.doc \in Nat /\ meta.doc # 0
           /\ mem.commit \in Nat /\ mem.doc \in Nat
           /\ job["main"] \in Job
           /\ job["main"].doc \in Nat /\ job["main"].use \in Nat
<1>1. head \in Commits /\ repo \in Commits \cup {0}
  BY DEF Typed
<1>2. "main" \in Threads
  BY DEF Threads
<1>3. /\ job["main"] \in Job
      /\ job["main"].doc \in DocIds \cup {0} /\ job["main"].use \in DocIds \cup {0}
      /\ meta.doc \in DocIds
      /\ mem.commit \in Commits \cup {0} /\ mem.doc \in DocIds \cup {0}
  BY <1>2, FieldsOf
<1>4. /\ \A c \in Commits \cup {0} : c \in Nat
      /\ \A d \in DocIds \cup {0} : d \in Nat
      /\ \A d \in DocIds : d # 0
  BY Numbers
<1> QED BY <1>1, <1>3, <1>4

AfterFetch == {"designer", "waiting"} \cup SyncSteps
AfterRead == {"stage", "merge", "clean", "scan", "record"}

\* What was recorded is no newer than what is checked out, and that no newer
\* than the ref.  The same for documents: recorded, read before the fetch,
\* read again after it, and now.
Ordered ==
    /\ mem.commit <= repo /\ repo <= head /\ mem.doc <= meta.doc
    /\ pc["main"] \in {"clone", "fetch"} \cup AfterFetch
       => /\ mem.doc <= job["main"].doc
          /\ job["main"].doc <= meta.doc
    /\ pc["main"] \in AfterFetch => job["main"].commit = repo
    /\ pc["main"] \in AfterRead
       => /\ job["main"].use \in DocIds
          /\ job["main"].doc <= job["main"].use
          /\ job["main"].use <= meta.doc

\* The profile that the main goroutine uses lets it write.
Writes == ~Docs[job["main"].use].paused /\ ~Docs[job["main"].use].dryRun

\* Where the main goroutine's sync is.
Progress ==
    /\ pc["main"] \in {"stage", "merge", "clean"}
       => ~Docs[job["main"].use].paused
    /\ pc["main"] \in {"merge", "clean"}
       => Writes /\ staging = Tree(repo, job["main"].use)
    /\ pc["main"] = "clean"
       => live \in {staging, Torn(staging)}
    /\ pc["main"] \in {"scan", "record"} /\ Writes
       => live = Tree(repo, job["main"].use)

\* The memory is right.
Remembered ==
    mem = [commit |-> head, doc |-> meta.doc] /\ Active
    => live = Tree(head, meta.doc)

\* Before the gateway has come up only the main goroutine syncs.
Early ==
    /\ pc["post"] \in {"none", "await"}
    /\ Ordered
    /\ Progress
    /\ Remembered

IInv == Typed /\ (~gateway => Early)

\* The property follows.
LEMMA EarlyImplies == IInv => UnchangedIsSynced
<1> SUFFICES ASSUME IInv, ~gateway, Unchanged, meta.commit = head, Active
             PROVE  live = Tree(head, meta.doc)
  BY DEF UnchangedIsSynced
<1>1. mem = [commit |-> head, doc |-> meta.doc]
  BY DEF IInv, Typed, Unchanged
<1> QED BY <1>1 DEF IInv, Early, Remembered

\* Where a sync of the main goroutine leaves both.
LEMMA AfterMainSync ==
    ASSUME Typed, Early, AfterSync("main")
    PROVE  pc'["main"] = "loop" /\ pc'["post"] \in {"none", "await"}
BY DEF Typed, Early, AfterSync, Threads

\* A step after which the main goroutine is in its loop, with the memory, the
\* metadata and the files as they were.
LEMMA BackToLoop ==
    ASSUME Early, UNCHANGED <<head, meta, repo, mem, live>>,
           pc'["post"] \in {"none", "await"},
           pc'["main"] \in {"start", "loop", "stopped"}
    PROVE  Early'
BY DEF Early, Ordered, Progress, Remembered, Active, AfterFetch, AfterRead,
       SyncSteps

\* A restart.
LEMMA RestartEarly ==
    ASSUME Typed, Early, Restart, UNCHANGED <<head, meta, repo, live>>
    PROVE  Early'
<1>1. /\ pc'["post"] = "none" /\ pc'["main"] = "start"
      /\ mem'.commit = 0 /\ mem'.doc = 0
  BY DEF Restart, Unsynced, Threads
<1>2. repo \in Nat /\ meta.doc \in Nat /\ meta.doc # 0
  BY StateNumbers
<1>3. Ordered' /\ Progress'
  BY <1>1, <1>2 DEF Early, Ordered, Progress, AfterFetch, AfterRead, SyncSteps
<1>4. Remembered'
  BY <1>1, <1>2 DEF Remembered
<1> QED BY <1>1, <1>3, <1>4 DEF Early

\* The environment: the ref and the profiles only move on.
LEMMA EnvironmentEarly ==
    ASSUME ~MayReturn, Typed, Early, ~gateway, gateway' = gateway,
           Environment \/ BackoffElapses \/ PollTick \/ FallbackTick
    PROVE  Early'
<1>n. /\ head \in Nat /\ repo \in Nat /\ meta.doc \in Nat /\ mem.doc \in Nat
      /\ mem.commit \in Nat /\ job["main"].use \in Nat
      /\ job["main"].doc \in Nat
  BY StateNumbers
<1>1. CASE RefMoves
  <2>1. head' \in Nat /\ head < head'
    BY <1>1, <1>n, Numbers DEF RefMoves
  <2>2. UNCHANGED <<meta, repo, staging, live, pc, job, mem>>
    BY <1>1 DEF RefMoves, diskVars
  <2>3. Ordered' /\ Progress'
    BY <1>n, <2>1, <2>2 DEF Early, Ordered, Progress, Writes
  <2>4. mem'.commit # head'
    BY <1>n, <2>1, <2>2 DEF Early, Ordered
  <2> QED BY <2>2, <2>3, <2>4 DEF Early, Remembered
<1>2. CASE ControllerWrites
  <2>1. /\ UNCHANGED <<head, repo, staging, live, pc, job, mem>>
        /\ meta'.doc = meta.doc
    BY <1>2 DEF ControllerWrites, diskVars, Typed
  <2> QED BY <2>1 DEF Early, Ordered, Progress, Writes, Remembered, Active
<1>3. CASE ProfileChanges
  <2>1. /\ UNCHANGED <<head, repo, staging, live, pc, job, mem>>
        /\ meta'.doc \in Nat /\ meta.doc < meta'.doc
    <3>1. PICK d \in DocIds \ {meta.doc} :
             d > meta.doc /\ meta' = [meta EXCEPT !.doc = d, !.version = @ + 1]
      BY <1>3 DEF ProfileChanges
    <3>2. meta'.doc = d
      BY <3>1 DEF Typed
    <3> QED BY <1>3, <1>n, <3>1, <3>2, Numbers DEF ProfileChanges, diskVars
  <2>2. Ordered' /\ Progress'
    BY <1>n, <2>1 DEF Early, Ordered, Progress, Writes
  <2>3. mem'.doc # meta'.doc
    BY <1>n, <2>1 DEF Early, Ordered
  <2> QED BY <2>1, <2>2, <2>3 DEF Early, Remembered
<1>4. CASE Crash
  BY <1>4, RestartEarly DEF Crash, envVars, diskVars
<1>5. CASE UNCHANGED <<head, meta, repo, staging, live, pc, job, mem>>
  BY <1>5 DEF Early, Ordered, Progress, Writes, Remembered, Active
<1> QED BY <1>1, <1>2, <1>3, <1>4, <1>5
        DEF Environment, GatewayUp, SessionsOpen, SessionsClose, Terminate,
            BackoffElapses, PollTick, FallbackTick, envVars, diskVars

\* Run and handleSyncTrigger, outside syncs.
LEMMA RunEarly ==
    ASSUME Typed, Early,
           \/ ReadFirstMetadata \/ Clone \/ CloneFails \/ SkipTrigger
           \/ HandleTrigger \/ Fetch \/ FetchFails \/ DesignerProceed
           \/ DesignerFail \/ DesignerWait \/ WaitEnds \/ WaitTimesOut
           \/ WaitCancelled \/ Stop
    PROVE  Early'
<1>0. /\ pc \in [Threads -> Steps] /\ job \in [Threads -> Job]
      /\ "main" \in Threads /\ "post" \in Threads
  BY DEF Typed, Threads
<1>n. /\ head \in Nat /\ repo \in Nat /\ meta.doc \in Nat /\ mem.doc \in Nat
      /\ mem.commit \in Nat /\ job["main"].doc \in Nat
      /\ job["main"] \in Job
  BY StateNumbers
<1>1. CASE CloneFails
  BY <1>1, RestartEarly DEF CloneFails, envVars, diskVars
<1>2. CASE SkipTrigger
  BY <1>2 DEF SkipTrigger, Early, Ordered, Progress, Writes, Remembered, Active,
              envVars, diskVars
<1>3. CASE FetchFails \/ DesignerFail \/ WaitTimesOut \/ WaitCancelled \/ Stop
  <2>1. /\ UNCHANGED <<head, meta, repo, mem, live>>
        /\ pc'["post"] \in {"none", "await"}
        /\ pc'["main"] \in {"loop", "stopped"}
    BY <1>0, <1>3 DEF FetchFails, DesignerFail, WaitTimesOut, WaitCancelled,
                      Stop, Goto, Early, envVars, diskVars
  <2> QED BY <2>1, BackToLoop
<1>4. CASE ReadFirstMetadata
  <2>1. /\ UNCHANGED <<head, meta, repo, mem, live>>
        /\ pc'["post"] = pc["post"] /\ pc'["main"] = "clone"
        /\ job'["main"].doc = meta.doc
    BY <1>0, <1>4, <1>n DEF ReadFirstMetadata, Goto, Job, envVars, diskVars
  <2> QED BY <1>n, <2>1 DEF Early, Ordered, Progress, Remembered, Active,
                            AfterFetch, AfterRead, SyncSteps
<1>5. CASE Clone
  <2>1. /\ UNCHANGED <<head, meta, mem, live>> /\ repo' = head
        /\ pc["main"] = "clone"
        /\ pc'["post"] = pc["post"] /\ pc'["main"] = "read"
        /\ job'["main"].doc = job["main"].doc /\ job'["main"].commit = head
    BY <1>0, <1>5, <1>n DEF Clone, Goto, Job, envVars
  <2>2. mem.commit <= head
    BY <1>n DEF Early, Ordered
  <2>3. Ordered'
    BY <1>n, <2>1, <2>2
       DEF Early, Ordered, AfterFetch, AfterRead, SyncSteps
  <2> QED BY <2>1, <2>3 DEF Early, Progress, Remembered, Active
<1>6. CASE HandleTrigger
  <2>1. /\ UNCHANGED <<head, meta, repo, mem, live>>
        /\ pc'["post"] = pc["post"] /\ pc'["main"] = "fetch"
        /\ job'["main"].doc = meta.doc
    BY <1>0, <1>6, <1>n DEF HandleTrigger, Goto, Job, envVars, diskVars
  <2> QED BY <1>n, <2>1 DEF Early, Ordered, Progress, Remembered, Active,
                            AfterFetch, AfterRead, SyncSteps
<1>7. CASE Fetch
  <2>1. /\ UNCHANGED <<head, meta, mem, live>> /\ repo' = head
        /\ pc["main"] = "fetch" /\ pc'["post"] = pc["post"]
        /\ \/ /\ pc'["main"] \in {"read", "designer"}
              /\ job'["main"].doc = job["main"].doc
              /\ job'["main"].commit = head
           \/ pc'["main"] = "loop"
    BY <1>0, <1>7, <1>n DEF Fetch, Goto, Job, envVars
  <2>2. mem.commit <= head
    BY <1>n DEF Early, Ordered
  <2>3. Ordered'
    BY <1>n, <2>1, <2>2
       DEF Early, Ordered, AfterFetch, AfterRead, SyncSteps
  <2> QED BY <2>1, <2>3 DEF Early, Progress, Remembered, Active
<1>8. CASE DesignerProceed \/ DesignerWait \/ WaitEnds
  <2>1. /\ UNCHANGED <<head, meta, repo, mem, live, job>>
        /\ pc["main"] \in {"designer", "waiting"}
        /\ pc'["post"] = pc["post"] /\ pc'["main"] \in {"read", "waiting"}
    BY <1>0, <1>8 DEF DesignerProceed, DesignerWait, WaitEnds, Goto, envVars,
                      diskVars
  <2> QED BY <2>1 DEF Early, Ordered, Progress, Remembered, Active,
                      AfterFetch, AfterRead, SyncSteps
<1> QED BY <1>1, <1>2, <1>3, <1>4, <1>5, <1>6, <1>7, <1>8

\* Syncs of the main goroutine.
LEMMA SyncEarly ==
    ASSUME Typed, Early, Sync("main")
    PROVE  Early'
<1>0. /\ pc \in [Threads -> Steps] /\ job \in [Threads -> Job]
      /\ "main" \in Threads /\ "post" \in Threads
  BY DEF Typed, Threads
<1>n. /\ head \in Nat /\ repo \in Nat /\ meta.doc \in Nat /\ mem.doc \in Nat
      /\ mem.commit \in Nat /\ job["main"].doc \in Nat
      /\ job["main"].use \in Nat /\ job["main"] \in Job
      /\ meta.doc \in DocIds
  BY StateNumbers
<1>k. /\ \A c, d : Tree(c, d) # Nothing
      /\ \A c, d : Tree(c, d) = [kind |-> "tree", commit |-> c, doc |-> d]
  BY DEF Nothing, Tree
<1>m. ASSUME pc["main"] \in {"merge", "clean"}, Active,
             mem = [commit |-> head, doc |-> meta.doc]
      PROVE  live = staging
  <2>1. mem.commit = head /\ mem.doc = meta.doc
    BY <1>m
  <2>2. repo = head /\ job["main"].use = meta.doc
    BY <1>m, <1>n, <2>1 DEF Early, Ordered, AfterFetch, AfterRead, SyncSteps
  <2>3. staging = Tree(repo, job["main"].use)
    BY <1>m DEF Early, Progress
  <2> QED BY <1>m, <2>2, <2>3 DEF Early, Remembered
<1>1. CASE ReadProfile("main")
  <2>1. /\ UNCHANGED <<head, meta, repo, mem, live, staging>>
        /\ pc["main"] = "read" /\ pc'["post"] = pc["post"]
        /\ job'["main"].doc = job["main"].doc
        /\ job'["main"].commit = job["main"].commit
        /\ job'["main"].use = meta.doc
        /\ pc'["main"] = IF Docs[meta.doc].paused THEN "scan" ELSE "stage"
    BY <1>0, <1>1, <1>n DEF ReadProfile, Goto, Job, envVars, diskVars
  <2>2. Ordered'
    BY <1>n, <2>1 DEF Early, Ordered, AfterFetch, AfterRead, SyncSteps
  <2>3. Progress'
    BY <2>1 DEF Progress, Writes
  <2> QED BY <2>1, <2>2, <2>3 DEF Early, Remembered, Active
<1>2. CASE ReadProfileFails("main") \/ StagingGone("main")
  <2>1. AfterSync("main") /\ UNCHANGED <<head, meta, repo, mem, live>>
    BY <1>2 DEF ReadProfileFails, StagingGone, SyncFails, envVars
  <2> QED BY <2>1, AfterMainSync, BackToLoop
<1>3. CASE Stage("main")
  <2>1. /\ UNCHANGED <<head, meta, repo, mem, live, job>>
        /\ pc["main"] = "stage" /\ pc'["post"] = pc["post"]
        /\ \/ /\ pc'["main"] = "merge" /\ ~Docs[job["main"].use].dryRun
              /\ staging' = Tree(repo, job["main"].use)
           \/ pc'["main"] = "scan" /\ Docs[job["main"].use].dryRun
    BY <1>0, <1>3 DEF Stage, Goto, envVars
  <2>2. Ordered'
    BY <2>1 DEF Early, Ordered, AfterFetch, AfterRead, SyncSteps
  <2>3. Progress'
    BY <2>1 DEF Early, Progress, Writes
  <2> QED BY <2>1, <2>2, <2>3 DEF Early, Remembered, Active
<1>4. CASE EngineFails("main")
  <2>1. /\ AfterSync("main") /\ UNCHANGED <<head, meta, repo, mem>>
        /\ live' = live \/ (pc["main"] = "merge" /\ live' = Merging)
    BY <1>4 DEF EngineFails, SyncFails, envVars
  <2>2. pc'["main"] = "loop" /\ pc'["post"] \in {"none", "await"}
    BY <2>1, AfterMainSync
  <2>3. Ordered' /\ Progress'
    BY <2>1, <2>2 DEF Early, Ordered, Progress, AfterFetch, AfterRead, SyncSteps
  <2>4. Remembered'
    BY <1>m, <2>1 DEF Early, Remembered, Active, Merging
  <2> QED BY <2>2, <2>3, <2>4 DEF Early
<1>5. CASE Merge("main")
  <2>1. /\ UNCHANGED <<head, meta, repo, mem, job, staging>>
        /\ pc["main"] = "merge" /\ live' = Merging
        /\ pc'["main"] = "clean" /\ pc'["post"] = pc["post"]
    BY <1>0, <1>5 DEF Merge, Goto, envVars
  <2>2. Ordered'
    BY <2>1 DEF Early, Ordered, AfterFetch, AfterRead, SyncSteps
  <2>3. Progress'
    BY <2>1 DEF Early, Progress, Writes, Merging
  <2>4. Remembered'
    BY <1>m, <2>1 DEF Early, Remembered, Active, Merging
  <2> QED BY <2>1, <2>2, <2>3, <2>4 DEF Early
<1>6. CASE Clean("main")
  <2>1. /\ UNCHANGED <<head, meta, repo, mem, job>>
        /\ pc["main"] = "clean" /\ pc'["main"] = "scan"
        /\ pc'["post"] = pc["post"]
        /\ staging = Tree(repo, job["main"].use) /\ staging # Nothing
    BY <1>0, <1>6, <1>k DEF Clean, Goto, Early, Progress, envVars
  <2>2. live' = staging
    BY <1>6, <2>1 DEF Clean, Early, Progress
  <2>3. Ordered'
    BY <2>1 DEF Early, Ordered, AfterFetch, AfterRead, SyncSteps
  <2>4. Progress'
    BY <2>1, <2>2 DEF Progress, Writes
  <2>5. Remembered'
    BY <1>m, <2>1, <2>2 DEF Early, Remembered, Active
  <2> QED BY <2>1, <2>3, <2>4, <2>5 DEF Early
<1>7. CASE ScanAndReport("main")
  <2>1. /\ UNCHANGED <<head, meta, repo, mem, job, staging, live>>
        /\ pc["main"] = "scan" /\ pc'["main"] = "record"
        /\ pc'["post"] = pc["post"]
    BY <1>0, <1>7 DEF ScanAndReport, Goto, envVars, diskVars
  <2>2. Ordered' /\ Progress'
    BY <2>1 DEF Early, Ordered, Progress, Writes, AfterFetch, AfterRead,
                SyncSteps
  <2> QED BY <2>1, <2>2 DEF Early, Remembered, Active
<1>8. CASE Record("main")
  <2>1. /\ UNCHANGED <<head, meta, repo, live>> /\ pc["main"] = "record"
        /\ AfterSync("main")
        /\ mem'.commit = job["main"].commit /\ mem'.doc = job["main"].doc
    BY <1>8 DEF Record, envVars, diskVars
  <2>2. pc'["main"] = "loop" /\ pc'["post"] \in {"none", "await"}
    BY <2>1, AfterMainSync
  <2>3. /\ job["main"].commit = repo /\ job["main"].doc <= job["main"].use
        /\ job["main"].use <= meta.doc
        /\ Writes => live = Tree(repo, job["main"].use)
    BY <2>1 DEF Early, Ordered, Progress, AfterFetch, AfterRead, SyncSteps
  <2>4. Ordered' /\ Progress'
    BY <1>n, <2>1, <2>2, <2>3
       DEF Early, Ordered, Progress, AfterFetch, AfterRead, SyncSteps
  <2>5. Remembered'
    <3> SUFFICES ASSUME repo = head, job["main"].doc = meta.doc, Active
                 PROVE  live = Tree(head, meta.doc)
      BY <2>1, <2>3 DEF Remembered, Active
    <3>1. job["main"].use = meta.doc
      BY <1>n, <2>3
    <3>2. Writes
      BY <3>1 DEF Writes, Active
    <3> QED BY <2>3, <3>1, <3>2
  <2> QED BY <2>2, <2>4, <2>5 DEF Early
<1> QED BY <1>1, <1>2, <1>3, <1>4, <1>5, <1>6, <1>7, <1>8 DEF Sync

\* If refs and profiles do not return to earlier values, then up to the moment
\* the gateway comes up, the agent skips a trigger as unchanged only when its
\* files are those of the ref's commit under the current profile, wherever
\* its syncs failed, were killed, were paused or met newer metadata or commits
\* than those that triggered them.  When they return it is false: the profiles
\* recorded may be the ones in the metadata again, and the profile used
\* another (agent.go:302-307, 328-376, 521-645).
THEOREM UnchangedIsSyncedHolds ==
    ASSUME ~MayReturn
    PROVE  Spec => []UnchangedIsSynced
<1>1. Init => IInv
  <2>1. Init => Early
    BY Numbers DEF Init, Early, Ordered, Progress, Remembered, Unsynced,
       AfterFetch, AfterRead, SyncSteps, Threads
  <2> QED BY <2>1, InitTyped DEF IInv
<1>2. IInv /\ [Next]_vars => IInv'
  <2> SUFFICES ASSUME IInv, [Next]_vars, ~gateway' PROVE Early'
    BY NextTyped DEF IInv
  <2>0. Typed /\ gateway \in BOOLEAN
    BY DEF IInv, Typed
  <2>1. CASE Environment \/ BackoffElapses \/ PollTick \/ FallbackTick
    <3>1. ~gateway /\ gateway' = gateway
      BY <2>0, <2>1 DEF Environment, RefMoves, ControllerWrites, ProfileChanges,
         GatewayUp, SessionsOpen, SessionsClose, Crash, Terminate,
         BackoffElapses, PollTick, FallbackTick, envVars
    <3> QED BY <2>0, <2>1, <3>1, EnvironmentEarly DEF IInv
  <2>2. CASE Run
    <3>1. ~gateway
      BY <2>2 DEF Run, ReadFirstMetadata, Clone, CloneFails, SkipTrigger,
         HandleTrigger, Fetch, FetchFails, DesignerProceed, DesignerFail,
         DesignerWait, WaitEnds, WaitTimesOut, WaitCancelled, Stop, Sync,
         ReadProfile, ReadProfileFails, Stage, EngineFails, StagingGone, Merge,
         Clean, ScanAndReport, Record, SyncFails, envVars
    <3> QED BY <2>0, <2>2, <3>1, RunEarly, SyncEarly DEF Run, IInv
  <2>3. CASE PostCommission
    <3>1. ~gateway
      BY <2>3 DEF PostCommission, PostBegins, PostGivesUp, Sync,
         ReadProfile, ReadProfileFails, Stage, EngineFails, StagingGone, Merge,
         Clean, ScanAndReport, Record, SyncFails, envVars
    <3>2. Early
      BY <3>1 DEF IInv
    <3>3. PostGivesUp
      BY <2>3, <3>1, <3>2 DEF PostCommission, PostBegins, Sync, ReadProfile,
                  ReadProfileFails, Stage, EngineFails, StagingGone, Merge,
                  Clean, ScanAndReport, Record, Early
    <3>4. /\ UNCHANGED <<head, meta, repo, staging, live, mem, job>>
          /\ pc'["post"] = "none" /\ pc'["main"] = pc["main"]
      BY <2>0, <3>3 DEF PostGivesUp, Goto, Typed, Threads, envVars, diskVars
    <3> QED BY <3>2, <3>4 DEF Early, Ordered, Progress, Writes, Remembered,
                              Active
  <2>4. CASE UNCHANGED vars
    BY <2>4 DEF vars, IInv, Early, Ordered, Progress, Writes, Remembered,
                Active, envVars, diskVars
  <2> QED BY <2>1, <2>2, <2>3, <2>4 DEF Next
<1> QED BY <1>1, <1>2, EarlyImplies, PTL DEF Spec

=============================================================================
