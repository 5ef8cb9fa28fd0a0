------------------------------- MODULE Agent -------------------------------
(***************************************************************************)
(* internal/agent: the sync agent of one gateway.  Its main goroutine (Run) *)
(* clones, performs the initial sync and then handles triggers of the       *)
(* watcher; after the initial sync a second goroutine (postCommissionSync)  *)
(* waits for the gateway and syncs once more.  Both run syncOnce, on the    *)
(* same working tree, the same staging directory and the same live files.   *)
(*                                                                         *)
(* A commit is a number, 0 for none; a profile document is an index into    *)
(* Docs, 0 for none.  Files are abstracted to the commit and document they  *)
(* were staged from.  Both goroutines and the agents of other gateways      *)
(* share the status ConfigMap: that is module StatusConfigMap.  The length  *)
(* of a backoff is left out; a backoff is on until it elapses.              *)
(*                                                                         *)
(* The check for metadata with paused = "true" is left out: the controller  *)
(* never writes it (module Controller, NewMetadata).                        *)
(***************************************************************************)
EXTENDS Naturals, Sequences, FiniteSets

CONSTANTS
    MaxCommit,     \* commits are 1..MaxCommit
    Docs,          \* the profile documents, see Document
    MayReturn,     \* commits and documents may return to earlier values
    GatewayBoots,  \* the gateway container comes up
    FaultKinds,    \* which calls may fail
    MaxMoves,      \* bound: moves of the ref
    MaxEdits,      \* bound: changes of the profile document
    MaxSessions,   \* bound: openings of designer sessions
    MaxFaults,     \* bound: failing calls
    MaxCrashes,    \* bound: crashes of the agent
    MayTerminate   \* the pod may be terminated

Threads == {"main", "post"}

\* This agent's profile in the metadata: found is FALSE if it is not there.
Document == [found : BOOLEAN, paused : BOOLEAN, dryRun : BOOLEAN,
             policy : {"proceed", "wait", "fail"}]

ASSUME DocAssumption == Docs \in Seq(Document) /\ Len(Docs) > 0
ASSUME FlagAssumption ==
    {MayReturn, GatewayBoots, MayTerminate} \subseteq BOOLEAN
ASSUME BoundAssumption ==
    /\ MaxCommit \in Nat \ {0}
    /\ {MaxMoves, MaxEdits, MaxSessions, MaxFaults, MaxCrashes} \subseteq Nat

VARIABLES
    head,      \* the commit of the ref at the remote
    meta,      \* the metadata ConfigMap
    polled,    \* pollConfigMap's lastVersion
    pending,   \* the watcher's channel (capacity 1) holds an event
    repo,      \* the commit checked out in RepoPath
    staging,   \* the content of the staging directory
    live,      \* the content of the gateway's data directory
    report,    \* this gateway's entry in the status ConfigMap
    gateway,   \* the gateway answers on its port
    sessions,  \* designer sessions are open
    pc,        \* where each goroutine is
    job,       \* arguments and locals of its sync
    mem,       \* lastSyncedCommit and lastSyncedProfiles
    backoff,   \* now is before backoffUntil
    term,      \* SIGTERM has been received
    count      \* counters for the bounds

envVars == <<head, meta, gateway, sessions>>
diskVars == <<repo, staging, live>>
vars == <<envVars, polled, pending, diskVars, report, pc, job, mem, backoff,
          term, count>>

Commits == 1..MaxCommit
DocIds == 1..Len(Docs)

\* torn: a merge of the given tree has begun; wiped: the managed files are
\* gone; defaults: overwritten by the gateway's commissioning.
Content == [kind : {"none", "tree", "torn", "wiped", "defaults"},
            commit : Commits \cup {0}, doc : DocIds \cup {0}]

Nothing == [kind |-> "none", commit |-> 0, doc |-> 0]
Tree(c, d) == [kind |-> "tree", commit |-> c, doc |-> d]
Torn(tree) == [tree EXCEPT !.kind = "torn"]
Damaged(kind) == [kind |-> kind, commit |-> 0, doc |-> 0]

MainSteps == {"start", "clone", "loop", "fetch", "designer", "waiting",
              "stopped"}
PostSteps == {"none", "await"}
SyncSteps == {"read", "stage", "merge", "clean", "scan", "record"}

Job == [commit : Commits \cup {0}, doc : DocIds \cup {0},
        use : DocIds \cup {0}, initial : BOOLEAN]

NoJob == [commit |-> 0, doc |-> 0, use |-> 0, initial |-> FALSE]

Unsynced == [commit |-> 0, doc |-> 0]

Report == [state : {"None", "Pending", "Synced", "Error"},
           commit : Commits \cup {0}, blocked : BOOLEAN]

Counters == {"move", "edit", "session", "fault", "crash"}

TypeOK ==
    /\ head \in Commits
    /\ meta \in [commit : Commits, doc : DocIds, version : Nat]
    /\ polled \in Nat
    /\ pending \in BOOLEAN
    /\ repo \in Commits \cup {0}
    /\ staging \in Content
    /\ live \in Content
    /\ report \in Report
    /\ gateway \in BOOLEAN
    /\ sessions \in BOOLEAN
    /\ pc \in [Threads -> MainSteps \cup PostSteps \cup SyncSteps]
    /\ job \in [Threads -> Job]
    /\ mem \in [commit : Commits \cup {0}, doc : DocIds \cup {0}]
    /\ backoff \in BOOLEAN
    /\ term \in BOOLEAN
    /\ count \in [Counters -> Nat]

\* The controller has written the metadata; the agent's container starts.
Init ==
    /\ head = 1
    /\ meta = [commit |-> 1, doc |-> 1, version |-> 1]
    /\ polled = 0
    /\ pending = FALSE
    /\ repo = 0
    /\ staging = Nothing
    /\ live = Nothing
    /\ report = [state |-> "None", commit |-> 0, blocked |-> FALSE]
    /\ gateway = FALSE
    /\ sessions = FALSE
    /\ pc = [t \in Threads |-> IF t = "main" THEN "start" ELSE "none"]
    /\ job = [t \in Threads |-> NoJob]
    /\ mem = Unsynced
    /\ backoff = FALSE
    /\ term = FALSE
    /\ count = [c \in Counters |-> 0]

Count(c, n, max) ==
    /\ count[c] + n <= max
    /\ count' = [count EXCEPT ![c] = @ + n]

\* The calls of the given kinds fail, those of other kinds do not.
Failing(kinds) ==
    /\ kinds \subseteq FaultKinds
    /\ Count("fault", Cardinality(kinds), MaxFaults)

---------------------------------------------------------------------------
(* The environment: the remote, the controller, the gateway, designers.    *)

RefMoves ==
    /\ Count("move", 1, MaxMoves)
    /\ head' \in Commits \ {head}
    /\ MayReturn \/ head' > head
    /\ UNCHANGED <<meta, gateway, sessions, polled, pending, diskVars, report,
                   pc, job, mem, backoff, term>>

\* The controller writes the commit it resolved.
ControllerWrites ==
    /\ meta.commit # head
    /\ meta' = [meta EXCEPT !.commit = head, !.version = @ + 1]
    /\ UNCHANGED <<head, gateway, sessions, polled, pending, diskVars, report,
                   pc, job, mem, backoff, term, count>>

ProfileChanges ==
    /\ Count("edit", 1, MaxEdits)
    /\ \E d \in DocIds \ {meta.doc} :
          /\ MayReturn \/ d > meta.doc
          /\ meta' = [meta EXCEPT !.doc = d, !.version = @ + 1]
    /\ UNCHANGED <<head, gateway, sessions, polled, pending, diskVars, report,
                   pc, job, mem, backoff, term>>

\* The startup probe passes once Run is in its loop, and the gateway boots;
\* commissioning may overwrite synced files.
GatewayUp ==
    /\ GatewayBoots
    /\ ~gateway
    /\ pc["post"] = "await"
    /\ gateway' = TRUE
    /\ live' \in {live, Damaged("defaults")}
    /\ UNCHANGED <<head, meta, sessions, polled, pending, repo, staging,
                   report, pc, job, mem, backoff, term, count>>

SessionsOpen ==
    /\ gateway
    /\ ~sessions
    /\ sessions' = TRUE
    /\ Count("session", 1, MaxSessions)
    /\ UNCHANGED <<head, meta, gateway, polled, pending, diskVars, report, pc,
                   job, mem, backoff, term>>

SessionsClose ==
    /\ sessions
    /\ sessions' = FALSE
    /\ UNCHANGED <<head, meta, gateway, polled, pending, diskVars, report, pc,
                   job, mem, backoff, term, count>>

\* The agent's container is killed and started again: memory is lost, files
\* and ConfigMaps stay.  A pod that is being terminated is not restarted.
Restart ==
    /\ pc' = [t \in Threads |-> IF t = "main" THEN "start" ELSE "none"]
    /\ job' = [t \in Threads |-> NoJob]
    /\ mem' = Unsynced
    /\ backoff' = FALSE
    /\ polled' = 0
    /\ pending' = FALSE

Crash ==
    /\ ~term
    /\ Count("crash", 1, MaxCrashes)
    /\ Restart
    /\ UNCHANGED <<envVars, diskVars, report, term>>

\* SIGTERM after the initial sync: the context of Run is cancelled, and every
\* call that is given it fails.  Syncs of the main loop have a context of
\* their own.
Terminate ==
    /\ MayTerminate
    /\ ~term
    /\ pc["main"] \notin {"start", "clone"}
    /\ ~job["main"].initial
    /\ term' = TRUE
    /\ UNCHANGED <<envVars, polled, pending, diskVars, report, pc, job, mem,
                   backoff, count>>

BackoffElapses ==
    /\ backoff
    /\ backoff' = FALSE
    /\ UNCHANGED <<envVars, polled, pending, diskVars, report, pc, job, mem,
                   term, count>>

---------------------------------------------------------------------------
(* The watcher.                                                            *)

\* pollConfigMap, every 3 s: the first version it sees triggers nothing.
PollTick ==
    /\ pc["main"] \notin {"start", "clone", "stopped"}
    /\ ~job["main"].initial
    /\ ~term
    /\ polled # meta.version
    /\ polled' = meta.version
    /\ pending' = (pending \/ polled # 0)
    /\ UNCHANGED <<envVars, diskVars, report, pc, job, mem, backoff, term,
                   count>>

\* The fallback ticker of Watcher.Run.
FallbackTick ==
    /\ pc["main"] \notin {"start", "clone", "stopped"}
    /\ ~job["main"].initial
    /\ ~term
    /\ ~pending
    /\ pending' = TRUE
    /\ UNCHANGED <<envVars, polled, diskVars, report, pc, job, mem, backoff,
                   term, count>>

---------------------------------------------------------------------------
(* Run and handleSyncTrigger.                                              *)

Goto(t, step) == pc' = [pc EXCEPT ![t] = step]

\* A status is written, or the write fails: nobody looks at the error.  The
\* context of the call is cancelled if done holds.
Write(new, failed, done) ==
    report' = IF "write" \in failed \/ done THEN report ELSE new

\* Faulty: the state is spelled as in the logs.
ErrorReportLowercase(c) ==
    [state |-> "error", commit |-> c, blocked |-> FALSE]

ErrorReport(c) == [state |-> "Error", commit |-> c, blocked |-> FALSE]

\* waitForMetadata.
ReadFirstMetadata ==
    /\ pc["main"] = "start"
    /\ Goto("main", "clone")
    /\ job' = [job EXCEPT !["main"].doc = meta.doc]
    /\ UNCHANGED <<envVars, polled, pending, diskVars, report, mem, backoff,
                   term, count>>

\* The initial clone, then the initial sync.
Clone ==
    /\ pc["main"] = "clone"
    /\ repo' = head
    /\ job' = [job EXCEPT !["main"].commit = head, !["main"].initial = TRUE]
    /\ Goto("main", "read")
    /\ UNCHANGED <<envVars, polled, pending, staging, live, report, mem,
                   backoff, term, count>>

\* Run returns the error, main exits, and the container is started again.
CloneFails ==
    /\ pc["main"] = "clone"
    /\ Failing({"git"})
    /\ Restart
    /\ UNCHANGED <<envVars, diskVars, report, term>>

\* Faulty: a new profile document alone is not a reason to sync.
UnchangedCommit == meta.commit = mem.commit

\* The metadata is what has been synced last.
Unchanged == meta.commit = mem.commit /\ meta.doc = mem.doc

\* A trigger is skipped: in backoff, metadata unreadable, nothing changed.
SkipTrigger ==
    /\ pc["main"] = "loop"
    /\ pending
    /\ \/ backoff /\ UNCHANGED count
       \/ ~backoff /\ (Failing({"metadata"}) \/ (term /\ UNCHANGED count))
       \/ ~backoff /\ Unchanged /\ UNCHANGED count
    /\ pending' = FALSE
    /\ UNCHANGED <<envVars, polled, diskVars, report, pc, job, mem, backoff,
                   term>>

HandleTrigger ==
    /\ pc["main"] = "loop"
    /\ pending
    /\ ~backoff /\ ~term
    /\ ~Unchanged
    /\ pending' = FALSE
    /\ job' = [job EXCEPT !["main"] = [commit |-> meta.commit,
                                       doc |-> meta.doc, use |-> 0,
                                       initial |-> FALSE]]
    /\ Goto("main", "fetch")
    /\ UNCHANGED <<envVars, polled, diskVars, report, mem, backoff, term,
                   count>>

\* CloneOrFetch of the ref: what is checked out is the ref's commit now.
\* Then the profile of the metadata read before is looked up.
Fetch ==
    /\ pc["main"] = "fetch"
    /\ repo' = head
    /\ LET doc == Docs[job["main"].doc]
       IN  \/ /\ doc.found
             /\ Goto("main", IF doc.paused \/ doc.dryRun
                             THEN "read" ELSE "designer")
             /\ job' = [job EXCEPT !["main"].commit = head]
             /\ UNCHANGED <<report, count>>
          \/ /\ ~doc.found
             /\ \E failed \in SUBSET {"write"} :
                   /\ Failing(failed)
                   /\ Write(ErrorReport(head), failed, term)
             /\ Goto("main", "loop")
             /\ job' = [job EXCEPT !["main"] = NoJob]
    /\ UNCHANGED <<envVars, polled, pending, staging, live, mem, backoff,
                   term>>

FetchFails ==
    /\ pc["main"] = "fetch"
    /\ \E failed \in {{"git"}, {"git", "write"}} :
          /\ Failing(failed)
          /\ Write(ErrorReport(job["main"].commit), failed, term)
    /\ backoff' = TRUE
    /\ Goto("main", "loop")
    /\ job' = [job EXCEPT !["main"] = NoJob]
    /\ UNCHANGED <<envVars, polled, pending, diskVars, mem, term>>

\* Faulty: the deferred call sets the flag instead of clearing it.
BlockedReportStuck(b) ==
    [state |-> "Pending", commit |-> mem.commit, blocked |-> TRUE]

\* setDesignerBlocked.
BlockedReport(b) ==
    [state |-> "Pending", commit |-> mem.commit, blocked |-> b]

\* checkDesignerSessions: no session, no answer, or the policy says proceed.
DesignerProceed ==
    /\ pc["main"] = "designer"
    /\ \/ /\ ~sessions \/ Docs[job["main"].doc].policy = "proceed" \/ term
          /\ UNCHANGED count
       \/ Failing({"designer"})
    /\ Goto("main", "read")
    /\ UNCHANGED <<envVars, polled, pending, diskVars, report, job, mem,
                   backoff, term>>

DesignerFail ==
    /\ pc["main"] = "designer"
    /\ sessions /\ Docs[job["main"].doc].policy = "fail" /\ ~term
    /\ \E failed \in SUBSET {"write"} :
          /\ Failing(failed)
          /\ Write(ErrorReport(job["main"].commit), failed, FALSE)
    /\ Goto("main", "loop")
    /\ job' = [job EXCEPT !["main"] = NoJob]
    /\ UNCHANGED <<envVars, polled, pending, diskVars, mem, backoff, term>>

DesignerWait ==
    /\ pc["main"] = "designer"
    /\ sessions /\ Docs[job["main"].doc].policy = "wait" /\ ~term
    /\ \E failed \in SUBSET {"write"} :
          Failing(failed) /\ Write(BlockedReport(TRUE), failed, FALSE)
    /\ Goto("main", "waiting")
    /\ UNCHANGED <<envVars, polled, pending, diskVars, job, mem, backoff,
                   term>>

\* The sessions close, or cannot be queried any more.
WaitEnds ==
    /\ pc["main"] = "waiting"
    /\ \E failed \in SUBSET {"designer", "write"} :
          /\ ~sessions \/ "designer" \in failed \/ term
          /\ Failing(failed)
          /\ Write(BlockedReport(FALSE), failed, term)
    /\ Goto("main", "read")
    /\ UNCHANGED <<envVars, polled, pending, diskVars, job, mem, backoff,
                   term>>

\* Five minutes have passed: the sync is given up.  The error is reported, and
\* then overwritten by the deferred Pending; one failure of the API server may
\* hit the first write, the second or both.
WaitTimesOut ==
    /\ pc["main"] = "waiting"
    /\ sessions /\ ~term
    /\ \E failed \in SUBSET {"write"} :
          /\ Failing(failed)
          /\ \/ report' = BlockedReport(FALSE)
             \/ /\ failed # {}
                /\ report' \in {ErrorReport(job["main"].commit), report}
    /\ Goto("main", "loop")
    /\ job' = [job EXCEPT !["main"] = NoJob]
    /\ UNCHANGED <<envVars, polled, pending, diskVars, mem, backoff, term>>

\* The agent shuts down: the sync is given up, and nothing can be written.
WaitCancelled ==
    /\ pc["main"] = "waiting"
    /\ term
    /\ Goto("main", "loop")
    /\ job' = [job EXCEPT !["main"] = NoJob]
    /\ UNCHANGED <<envVars, polled, pending, diskVars, report, mem, backoff,
                   term, count>>

\* Faulty: the shutdown waits for the outcome of the last sync to be known.
StopAfterSync ==
    /\ pc["main"] = "loop"
    /\ term /\ report.state # "Pending"
    /\ pc' = [t \in Threads |-> IF t = "main" THEN "stopped" ELSE "none"]
    /\ job' = [t \in Threads |-> NoJob]
    /\ UNCHANGED <<envVars, polled, pending, diskVars, report, mem, backoff,
                   term, count>>

\* ctx.Done: syncInProgress is only set while this goroutine is in
\* handleSyncTrigger, so Run returns at once and the process ends.
Stop ==
    /\ pc["main"] = "loop"
    /\ term
    /\ pc' = [t \in Threads |-> IF t = "main" THEN "stopped" ELSE "none"]
    /\ job' = [t \in Threads |-> NoJob]
    /\ UNCHANGED <<envVars, polled, pending, diskVars, report, mem, backoff,
                   term, count>>

---------------------------------------------------------------------------
(* postCommissionSync, and syncOnce of either goroutine.                   *)

\* Faulty: a commit that has been synced is not synced again.
PostSkipsSynced ==
    /\ pc["post"] = "await"
    /\ gateway
    /\ ~term
    /\ Goto("post", IF mem.commit = job["post"].commit THEN "none" ELSE "read")
    /\ job' = [job EXCEPT !["post"].doc = mem.doc]
    /\ UNCHANGED <<envVars, polled, pending, diskVars, report, mem, backoff,
                   term, count>>

\* The port answers: sync the commit of the initial sync again.
PostBegins ==
    /\ pc["post"] = "await"
    /\ gateway
    /\ ~term
    /\ job' = [job EXCEPT !["post"].doc = mem.doc]
    /\ Goto("post", "read")
    /\ UNCHANGED <<envVars, polled, pending, diskVars, report, mem, backoff,
                   term, count>>

PostGivesUp ==
    /\ pc["post"] = "await"
    /\ term
    /\ Goto("post", "none")
    /\ UNCHANGED <<envVars, polled, pending, diskVars, report, job, mem,
                   backoff, term, count>>

\* Only the second goroutine syncs under the context of Run.
Cancelled(t) == t = "post" /\ term

\* What follows a sync: the first one starts the second goroutine.
AfterSync(t) ==
    IF t = "post"
    THEN /\ pc' = [pc EXCEPT !["post"] = "none"]
         /\ job' = [job EXCEPT !["post"] = NoJob]
    ELSE /\ pc' = [pc EXCEPT !["main"] = "loop",
                             !["post"] = IF job["main"].initial
                                         THEN "await" ELSE @]
         /\ job' = [job EXCEPT
                      !["main"] = NoJob,
                      !["post"] = IF job["main"].initial
                                  THEN [NoJob EXCEPT
                                          !.commit = job["main"].commit]
                                  ELSE @]

\* syncOnce returns an error: it is reported, and the main loop backs off.
SyncFails(t, failed) ==
    /\ Failing(failed)
    /\ Write(ErrorReport(job[t].commit), failed, Cancelled(t))
    /\ backoff' = (backoff \/ (t = "main" /\ ~job[t].initial))
    /\ AfterSync(t)
    /\ UNCHANGED <<envVars, polled, pending, repo, mem, term>>

\* syncWithProfile reads the metadata again and looks up the profile.
ReadProfile(t) ==
    /\ pc[t] = "read"
    /\ ~Cancelled(t)
    /\ Docs[meta.doc].found
    /\ job' = [job EXCEPT ![t].use = meta.doc]
    /\ Goto(t, IF Docs[meta.doc].paused THEN "scan" ELSE "stage")
    /\ UNCHANGED <<envVars, polled, pending, diskVars, report, mem, backoff,
                   term, count>>

ReadProfileFails(t) ==
    /\ pc[t] = "read"
    /\ \E failed \in SUBSET {"metadata", "write"} :
          /\ "metadata" \in failed \/ Cancelled(t) \/ ~Docs[meta.doc].found
          /\ SyncFails(t, failed)
    /\ UNCHANGED <<staging, live>>

\* ExecutePlan: RemoveAll, then the staging directory is built from the
\* working tree.  A dry run ends with the diff.
Stage(t) ==
    /\ pc[t] = "stage"
    /\ \/ /\ ~Docs[job[t].use].dryRun
          /\ staging' = Tree(repo, job[t].use)
          /\ Goto(t, "merge")
       \/ /\ Docs[job[t].use].dryRun
          /\ staging' = Nothing
          /\ Goto(t, "scan")
    /\ UNCHANGED <<envVars, polled, pending, repo, live, report, job, mem,
                   backoff, term, count>>

\* The live files in the middle of a merge; a file that is the same is not
\* written.
Merging == IF live = staging THEN live ELSE Torn(staging)

\* A mapping is missing, a template does not parse, the disk is full: what was
\* being built or merged stays half done.
EngineFails(t) ==
    /\ \E failed \in {{"engine"}, {"engine", "write"}} : SyncFails(t, failed)
    /\ \/ /\ pc[t] = "stage"
          /\ staging' \in {staging, Damaged("torn")}
          /\ UNCHANGED live
       \/ /\ pc[t] = "merge"
          /\ live' \in {live, Merging}
          /\ UNCHANGED staging
       \/ pc[t] = "clean" /\ UNCHANGED <<staging, live>>

\* The other goroutine has removed the staging directory.
StagingGone(t) ==
    /\ pc[t] = "merge"
    /\ staging = Nothing
    /\ SyncFails(t, {})
    /\ UNCHANGED <<staging, live>>

\* mergeStagingToLive, file by file.
Merge(t) ==
    /\ pc[t] = "merge"
    /\ staging # Nothing
    /\ live' = Merging
    /\ Goto(t, "clean")
    /\ UNCHANGED <<envVars, polled, pending, repo, staging, report, job, mem,
                   backoff, term, count>>

\* cleanOrphans deletes the managed files that the staging directory does not
\* have, which is all of them if it is gone; then it is removed.  It repairs
\* nothing that the gateway or the other goroutine wrote after the merge.
Clean(t) ==
    /\ pc[t] = "clean"
    /\ live' = IF staging = Nothing THEN Damaged("wiped")
               ELSE IF live = Torn(staging) THEN staging ELSE live
    /\ staging' = Nothing
    /\ Goto(t, "scan")
    /\ UNCHANGED <<envVars, polled, pending, repo, report, job, mem, backoff,
                   term, count>>

\* Scan and report.  Initial syncs and dry runs are not scanned.
ScanAndReport(t) ==
    /\ pc[t] = "scan"
    /\ \E failed \in SUBSET {"scan", "write"} :
          /\ Failing(failed)
          /\ Write([state |-> IF Docs[job[t].use].dryRun THEN "Synced"
                              ELSE IF job[t].initial THEN "Pending"
                              ELSE IF "scan" \in failed \/ ~gateway
                                   THEN "Error" ELSE "Synced",
                    commit |-> job[t].commit, blocked |-> FALSE],
                   failed, Cancelled(t))
    /\ Goto(t, "record")
    /\ UNCHANGED <<envVars, polled, pending, diskVars, job, mem, backoff,
                   term>>

\* Faulty: the profiles of the metadata as it is now are recorded.
RecordCurrent(t) ==
    /\ pc[t] = "record"
    /\ mem' = [commit |-> job[t].commit, doc |-> meta.doc]
    /\ backoff' = IF t = "main" /\ ~job[t].initial THEN FALSE ELSE backoff
    /\ AfterSync(t)
    /\ UNCHANGED <<envVars, polled, pending, diskVars, report, term, count>>

\* lastSyncedCommit and lastSyncedProfiles; syncOnce returns nil.
Record(t) ==
    /\ pc[t] = "record"
    /\ mem' = [commit |-> job[t].commit, doc |-> job[t].doc]
    /\ backoff' = IF t = "main" /\ ~job[t].initial THEN FALSE ELSE backoff
    /\ AfterSync(t)
    /\ UNCHANGED <<envVars, polled, pending, diskVars, report, term, count>>

---------------------------------------------------------------------------

Sync(t) ==
    \/ ReadProfile(t)
    \/ ReadProfileFails(t)
    \/ Stage(t)
    \/ EngineFails(t)
    \/ StagingGone(t)
    \/ Merge(t)
    \/ Clean(t)
    \/ ScanAndReport(t)
    \/ Record(t)

Run ==
    \/ ReadFirstMetadata
    \/ Clone
    \/ CloneFails
    \/ SkipTrigger
    \/ HandleTrigger
    \/ Fetch
    \/ FetchFails
    \/ DesignerProceed
    \/ DesignerFail
    \/ DesignerWait
    \/ WaitEnds
    \/ WaitTimesOut
    \/ WaitCancelled
    \/ Stop
    \/ Sync("main")

PostCommission ==
    \/ PostBegins
    \/ PostGivesUp
    \/ Sync("post")

Environment ==
    \/ RefMoves
    \/ ControllerWrites
    \/ ProfileChanges
    \/ GatewayUp
    \/ SessionsOpen
    \/ SessionsClose
    \/ Crash
    \/ Terminate

Next ==
    \/ Environment
    \/ BackoffElapses
    \/ PollTick
    \/ FallbackTick
    \/ Run
    \/ PostCommission

Spec == Init /\ [][Next]_vars

\* The controller polls, the gateway boots, designers go home, tickers tick,
\* and the Go scheduler runs both goroutines.
Fairness ==
    /\ WF_vars(ControllerWrites)
    /\ WF_vars(GatewayUp)
    /\ WF_vars(SessionsClose)
    /\ WF_vars(BackoffElapses)
    /\ WF_vars(FallbackTick)
    /\ WF_vars(Run)
    /\ WF_vars(PostCommission)

FairSpec == Spec /\ Fairness

---------------------------------------------------------------------------
(* Properties.                                                             *)

Stopped == pc["main"] = "stopped"

\* The agent is meant to keep the gateway's files in step with the metadata.
Active ==
    LET doc == Docs[meta.doc]
    IN  doc.found /\ ~doc.paused /\ ~doc.dryRun

\* When the changes are over, the live files are those of the ref's commit
\* under the current profile, whatever failed, crashed or was overwritten by
\* commissioning on the way: "performs a sync if needed"
\* (agent.go:271-379, 209-238).
Converges == <>[](Active /\ ~Stopped => live = Tree(head, meta.doc))

\* A gateway is not shown as blocked by designers for ever
\* (agent.go:459-460, 498-509).
BlockedFlagClears ==
    [](report.blocked => <>(~report.blocked \/ Stopped))

\* After SIGTERM the agent exits, whatever it is doing and waiting for
\* (agent.go:177-202, cmd/agent/main.go:25-64).
ShutdownCompletes == [](term => <>Stopped)

\* A trigger that finds the commit and the profiles unchanged is skipped, and
\* rightly so: if what was synced last is what the metadata and the ref say
\* now, then the live files are those of that commit under that profile,
\* although the commit is the one that the fetch met, the profiles recorded
\* are those read before the fetch and the profile used is read again after
\* it, and any of these steps may have failed, been skipped (paused, dry run)
\* or been killed.  Until the gateway has come up: then commissioning and the
\* second goroutine write as well (agent.go:302-307, 328-376, 556-562, 642-643).
UnchangedIsSynced ==
    ~gateway /\ Unchanged /\ meta.commit = head /\ Active
    => live = Tree(head, meta.doc)

\* "removes orphaned files within managed paths only" (architecture.md:73):
\* cleanOrphans never deletes the files that have just been synced.  False
\* when both goroutines sync: one may clean by the staging directory that the
\* other has removed.
NoManagedLoss == live.kind # "wiped"

\* "waits up to 15s for any in-flight file sync to complete before exiting;
\* prevents partial file writes" (CHANGELOG.md:19).
NoPartialWritesOnShutdown == Stopped => live.kind # "torn"

\* `fail`: "Aborts the sync" when designer sessions are active
\* (gatewaysync-cr.md:334): no files change under an open session.
DesignerFailAborts ==
    [][live' # live /\ sessions => Docs[meta.doc].policy # "fail"]_vars

\* "SyncedCommit is the git commit SHA currently synced to this gateway"
\* (pkg/types/sync_status.go:23), once the changes are over.
SyncedCommitIsLive ==
    <>[](report.state = "Synced" /\ ~Stopped
          => live.kind = "tree" /\ live.commit = report.commit)

=============================================================================
