----------------------------- MODULE SyncEngine -----------------------------
(***************************************************************************)
(* One agent's sync engine, file by file.  A profile is resolved from the   *)
(* CR, a plan is built from it, and ExecutePlan stages the mappings' sources *)
(* into a directory of its own, merges that into the gateway's data          *)
(* directory and removes orphans.  The gateway writes its own files into the *)
(* same directory all the while.                                             *)
(*                                                                           *)
(* A path is a sequence of names.  A file tree is a function from its paths  *)
(* to what is there: a content or Dir, in a commit also a symbolic link.     *)
(* Template resolution and JSON patches are one function Render on contents. *)
(*                                                                           *)
(* The data directory may hold symbolic links, too.  The engine makes and    *)
(* removes none, so they are a constant; but it writes through them, also to *)
(* where no mapping leads.  What lies outside the data directory and can be  *)
(* reached through a link has a path here that no mapping names.             *)
(***************************************************************************)
EXTENDS Naturals, Sequences

CONSTANTS
    Walk,         \* all paths of the data directory in filepath.WalkDir's order
    Protected,    \* paths that match protectedPatterns
    Contents,     \* contents of files
    Torn,         \* the content of a half-written file
    Dir,          \* a directory
    LeadsTo,      \* the links in commits, and what each leads to
    Gone,         \* what a link leads to that leads nowhere
    Links,        \* the links in the data directory, and where each leads to
    Render,       \* contents to contents, or Unrenderable
    Unrenderable, \* a binary file, a missing variable, or invalid JSON
    Trees,        \* the working trees that commits check out
    Specs,        \* spec.sync.defaults with the profile's own settings
    FirstLive,    \* the data directory to begin with
    GatewayFiles, \* files that the gateway writes
    GatewayContent,
    MaxChanges, MaxFaults, MaxCrashes, MaxWrites  \* bounds

Paths == {Walk[k] : k \in DOMAIN Walk}
FileContents == Contents \cup {Torn}

Above(q, p) ==      \* q is a directory on the way to p
    /\ Len(q) < Len(p)
    /\ \A k \in DOMAIN q : q[k] = p[k]

AtOrAbove(q, p) == q = p \/ Above(q, p)

\* p, and the directories on the way to it.
UpTo == [p \in Paths |-> {q \in Paths : AtOrAbove(q, p)}]

\* slash: the destination is spelled with a slash at its end; safe: its paths
\* resolve and stay inside.
Mapping ==
    [source: Seq(STRING), dst: Seq(STRING), slash: BOOLEAN, safe: BOOLEAN,
     required: BOOLEAN, type: {"", "file", "dir"}, template: BOOLEAN]

\* Every parent is there, and is a directory.
IsFileTree(fs) ==
    /\ DOMAIN fs \subseteq Paths
    /\ \A p \in DOMAIN fs : fs[p] \in FileContents \cup {Dir}
    /\ \A q \in Paths, p \in DOMAIN fs :
          Above(q, p) => q \in DOMAIN fs /\ fs[q] = Dir

Files(tree) == {p \in DOMAIN tree : tree[p] \in FileContents}

\* The links, and what can be reached through them.
Behind == {p \in Paths : \E l \in DOMAIN Links : AtOrAbove(l, p)}

\* Where the operating system ends up that is given the path p.
Real ==
    [p \in Paths |->
        IF p \notin Behind THEN p
        ELSE LET l == CHOOSE q \in DOMAIN Links : AtOrAbove(q, p)
             IN  Links[l] \o SubSeq(p, Len(l) + 1, Len(p))]

\* The paths of what can be reached on two ways: behind a link, and directly.
Linked ==
    Behind \cup {p \in Paths : \E l \in DOMAIN Links : AtOrAbove(Links[l], p)}

\* The files and directories of the data directory: the links are in it, and
\* nothing is behind them.
IsLive(fs) ==
    /\ IsFileTree(fs)
    /\ DOMAIN fs \cap Behind = {}
    /\ \A l \in DOMAIN Links, q \in Paths :
          Above(q, l) => q \in DOMAIN fs /\ fs[q] = Dir

ASSUME ContentAssumption ==
    /\ Dir \notin FileContents
    /\ Gone \notin FileContents \cup {Dir}
    /\ \A l \in DOMAIN LeadsTo :
          l \notin FileContents \cup {Dir} /\ LeadsTo[l] \in Contents \cup {Dir, Gone}
    /\ Torn \notin Contents
    /\ Unrenderable \notin FileContents
    /\ Render \in [Contents -> Contents \cup {Unrenderable}]
ASSUME WalkAssumption == Walk \in Seq(Seq(STRING))
ASSUME TreeAssumption ==
    \A t \in Trees :
        /\ DOMAIN t \subseteq Seq(STRING)
        /\ \A p \in DOMAIN t :
              /\ t[p] \in Contents \cup {Dir} \cup DOMAIN LeadsTo
              /\ \A q \in DOMAIN t : Above(q, p) => t[q] = Dir
ASSUME SpecAssumption ==
    \A s \in Specs :
        /\ s.mappings \in Seq(Mapping)
        /\ s.dryRun \subseteq BOOLEAN
        /\ s.defaults.dryRun \in BOOLEAN
\* A link does not lead to a link, nor to what has one above or below it.
ASSUME LinkAssumption ==
    /\ DOMAIN Links \subseteq Paths
    /\ \A l \in DOMAIN Links :
          /\ Links[l] \in Paths
          /\ \A k \in DOMAIN Links :
                ~Above(k, l) /\ ~AtOrAbove(k, Links[l]) /\ ~AtOrAbove(Links[l], k)
    /\ \A p \in Paths : Real[p] \in Paths
ASSUME LiveAssumption == IsLive(FirstLive)
ASSUME GatewayAssumption ==
    /\ GatewayFiles \subseteq Paths /\ GatewayContent \in Contents
    /\ GatewayFiles \cap Behind = {}
ASSUME BoundAssumption ==
    MaxChanges \in Nat /\ MaxFaults \in Nat /\ MaxCrashes \in Nat /\ MaxWrites \in Nat

VARIABLES
    commit,   \* the working tree, as the last fetch left it
    spec,     \* the profile's settings in the CR
    job,      \* tree, spec and resolved profile of the sync that runs
    synced,   \* those of the last sync that succeeded
    pc,       \* "idle", "stage", "merge", "clean", "diff", "diffed"
    next,     \* the mapping to stage
    todo,     \* paths that the walk has still to visit
    staging,  \* the staging directory
    live,     \* the data directory
    diff,     \* DryRunDiff
    dirty,    \* history: files the gateway has written since the last sync began
    changes, faults, crashes, writes

envVars == <<commit, spec, changes>>
bounds == <<faults, crashes, writes>>
vars == <<commit, spec, job, synced, pc, next, todo, staging, live, diff, dirty,
          changes, bounds>>

NoTree == [p \in {} |-> Dir]
NoDiff == [added |-> {}, modified |-> {}, deleted |-> {}]

---------------------------------------------------------------------------
(* resolveProfiles: the defaults, and what the profile says itself.        *)

\* A setting that the profile may leave out, and then inherits.
Inherit == {}
Own(b) == {b}

Setting(own, default) == IF own = Inherit THEN default ELSE TRUE \in own

\* Faulty variant of Resolve: a profile that says nothing does not run dry.
ResolveNotInherited(s) ==
    [mappings |-> s.mappings,
     excluded |-> s.defaults.excluded \cup s.excluded,
     dryRun |-> Setting(s.dryRun, FALSE),
     paused |-> Setting(s.paused, s.defaults.paused)]

Resolve(s) ==
    [mappings |-> s.mappings,
     excluded |-> s.defaults.excluded \cup s.excluded,
     dryRun |-> Setting(s.dryRun, s.defaults.dryRun),
     paused |-> Setting(s.paused, s.defaults.paused)]

---------------------------------------------------------------------------
(* buildSyncPlan.                                                          *)

\* What os.Stat and os.Open find: they follow a link.
Found(tree, source) ==
    LET c == tree[source] IN IF c \in DOMAIN LeadsTo THEN LeadsTo[c] ELSE c

Exists(tree, source) ==
    source = <<>> \/ (source \in DOMAIN tree /\ Found(tree, source) # Gone)
IsFile(tree, source) == source \in DOMAIN tree /\ Found(tree, source) \in Contents

\* inferMappingType: a source that does not exist counts as a directory.
Type(m, tree) == IF IsFile(tree, m.source) THEN "file" ELSE "dir"

\* A mapping's paths resolve and stay inside, a required source exists, and the
\* type is the one the spec asks for.
PlanOK(m, tree) ==
    /\ m.safe
    /\ m.required => Exists(tree, m.source)
    /\ Exists(tree, m.source) /\ m.type # "" => m.type = Type(m, tree)

---------------------------------------------------------------------------
(* Staging.                                                                *)

Skipped(p, excluded) == p \in excluded \cup Protected

\* Where the file staged at p comes from.
Origin(m, p) == m.source \o SubSeq(p, Len(m.dst) + 1, Len(p))

\* stageDirectory's walk gets to p: SkipDir leaves out what is below.
WalkReaches(m, p, excluded) ==
    \A q \in Paths :
        Above(m.dst, q) /\ AtOrAbove(q, p) => ~Skipped(q, excluded)

\* Files and directories that the mapping stages.
Staged(m, tree, excluded) ==
    IF Type(m, tree) = "file"
    THEN {p \in Paths : p = m.dst /\ ~Skipped(p, excluded)}
    ELSE {p \in Paths :
            /\ Above(m.dst, p)
            /\ Origin(m, p) \in DOMAIN tree
            /\ tree[Origin(m, p)] \notin DOMAIN LeadsTo
            /\ WalkReaches(m, p, excluded)}

\* Faulty variant of StagedAs: a source that is a link is copied as a link.
StagedAsLink(m, tree, p) ==
    LET c == tree[Origin(m, p)]
    IN  IF m.template /\ c \in Contents THEN Render[c] ELSE c

StagedAs(m, tree, p) ==
    LET c == Found(tree, Origin(m, p))
    IN  IF m.template /\ c \in Contents THEN Render[c] ELSE c

\* A file cannot be put where a directory is, nor below a file.
Fits(fs, p, what) ==
    /\ p \in DOMAIN fs => (fs[p] = Dir) = (what = Dir)
    /\ \A q \in DOMAIN fs : Above(q, p) => fs[q] = Dir

\* MkdirAll of the parents, then p.
Put(fs, p, what) ==
    LET parents == {q \in Paths : Above(q, p)}
    IN  [q \in DOMAIN fs \cup parents \cup {p} |->
            IF q = p THEN what ELSE IF q \in DOMAIN fs THEN fs[q] ELSE Dir]

\* The walk follows no link, so one that leads nowhere is no error here.
Stageable(m, tree, excluded) ==
    /\ m.source = <<>> \/ m.source \in DOMAIN tree
    /\ \A p \in Staged(m, tree, excluded) :
          /\ StagedAs(m, tree, p) # Unrenderable
          /\ Fits(staging, p, StagedAs(m, tree, p))

\* The staging directory with the mapping's files on top of the earlier ones.
StagedOnto(fs, m, tree, excluded) ==
    LET new == Staged(m, tree, excluded)
        parents == {q \in Paths : \E p \in new : Above(q, p)}
    IN  [p \in DOMAIN fs \cup parents \cup new |->
            IF p \in new THEN StagedAs(m, tree, p)
            ELSE IF p \in DOMAIN fs THEN fs[p] ELSE Dir]

---------------------------------------------------------------------------
(* Managed roots.                                                          *)

\* Faulty variant of UnderManagedRoot: a file's root is its parent directory.
UnderManagedRootParent(p, mappings) ==
    \E i \in DOMAIN mappings :
        LET d == mappings[i].dst
        IN  AtOrAbove(IF Len(d) = 0 THEN d ELSE SubSeq(d, 1, Len(d) - 1), p)

\* computeManagedRoots keeps the destination's spelling: one that ends in a
\* slash, and the data directory itself, are no prefix of any path.
UnderManagedRoot(p, mappings) ==
    \E i \in DOMAIN mappings :
        /\ ~mappings[i].slash /\ mappings[i].dst # <<>>
        /\ AtOrAbove(mappings[i].dst, p)

\* Faulty variant of CleanWalkReaches: ancestors of roots are not entered.
CleanWalkReachesRoots(p, profile) ==
    \A q \in Paths :
        AtOrAbove(q, p) =>
            ~Skipped(q, profile.excluded)
              /\ UnderManagedRoot(q, profile.mappings)

\* Faulty variant of CleanWalkReaches: excludes are not looked at.
CleanWalkReachesExcluded(p, profile) ==
    \A q \in Paths :
        AtOrAbove(q, p) =>
            \/ UnderManagedRoot(q, profile.mappings)
            \/ \E i \in DOMAIN profile.mappings :
                  Above(q, profile.mappings[i].dst)

\* The walks over the live directory enter ancestors of roots, and nothing
\* that is excluded, protected or elsewhere.
CleanWalkReaches(p, profile) ==
    \A q \in Paths :
        AtOrAbove(q, p) =>
            /\ ~Skipped(q, profile.excluded)
            /\ \/ UnderManagedRoot(q, profile.mappings)
               \/ \E i \in DOMAIN profile.mappings :
                     Above(q, profile.mappings[i].dst)

\* os.Lstat says that there is no p: below a file its error is another one.
Missing(fs, p) ==
    /\ p \notin DOMAIN fs
    /\ \A q \in DOMAIN fs : Above(q, p) => fs[q] = Dir

\* A file of the live directory that is to go.
Orphan(p, profile) ==
    /\ UnderManagedRoot(p, profile.mappings)
    /\ CleanWalkReaches(p, profile)
    /\ Missing(staging, p)

\* p is removed, and so is each parent under a root that is empty by then: a
\* directory with a link in it is not.
Without(fs, p, mappings) ==
    LET rest == DOMAIN fs \ {p}
        keep == {q \in rest :
                    \/ ~Above(q, p)
                    \/ ~UnderManagedRoot(q, mappings)
                    \/ \E f \in rest \cup DOMAIN Links : Above(q, f) /\ ~Above(f, p)}
    IN  [q \in keep |-> fs[q]]

---------------------------------------------------------------------------
(* The state machine.                                                      *)

Job(tree, s) == [tree |-> tree, spec |-> s, profile |-> Resolve(s)]
NoSpec ==
    [mappings |-> <<>>, excluded |-> {}, dryRun |-> Inherit, paused |-> Inherit,
     defaults |-> [excluded |-> {}, dryRun |-> FALSE, paused |-> FALSE]]
NoJob == Job(NoTree, NoSpec)

IsJob(j) == j.tree \in Trees /\ j.spec \in Specs /\ j = Job(j.tree, j.spec)

TypeOK ==
    /\ commit \in Trees
    /\ spec \in Specs
    /\ IsJob(job) \/ (job = NoJob /\ pc = "idle")
    /\ IsJob(synced) \/ synced = NoJob
    /\ pc \in {"idle", "stage", "merge", "clean", "diff", "diffed"}
    /\ next \in Nat
    /\ todo \subseteq Paths
    /\ IsFileTree(staging) /\ IsLive(live)
    /\ DOMAIN diff = DOMAIN NoDiff
    /\ \A k \in DOMAIN diff : diff[k] \subseteq Paths
    /\ dirty \subseteq Paths
    /\ changes \in 0..MaxChanges /\ faults \in 0..MaxFaults
    /\ crashes \in 0..MaxCrashes /\ writes \in 0..MaxWrites

Init ==
    /\ commit \in Trees
    /\ spec \in Specs
    /\ job = NoJob /\ synced = NoJob
    /\ pc = "idle" /\ next = 0 /\ todo = {}
    /\ staging = NoTree
    /\ live = FirstLive
    /\ diff = NoDiff
    /\ dirty = {}
    /\ changes = 0 /\ faults = 0 /\ crashes = 0 /\ writes = 0

\* A fetch checks out another commit, between syncs; or the CR's profile is
\* edited, at any time.
Change ==
    /\ changes < MaxChanges
    /\ \/ pc = "idle" /\ commit' \in Trees \ {commit} /\ spec' = spec
       \/ spec' \in Specs \ {spec} /\ commit' = commit
    /\ changes' = changes + 1
    /\ UNCHANGED <<job, synced, pc, next, todo, staging, live, diff, dirty,
                   bounds>>

\* The gateway writes one of its files, at any time.
GatewayWrites(p) ==
    /\ writes < MaxWrites
    /\ Fits(live, p, GatewayContent)
    /\ live' = Put(live, p, GatewayContent)
    /\ dirty' = dirty \cup {p}
    /\ writes' = writes + 1
    /\ UNCHANGED <<envVars, job, synced, pc, next, todo, staging, diff, faults,
                   crashes>>

Wanted == Job(commit, spec)

\* syncWithProfile for a commit or profile not synced yet.  A plan that cannot
\* be built is an error, and nothing is touched; a paused profile is done.
Begin ==
    /\ pc = "idle"
    /\ synced # Wanted
    /\ ~Resolve(spec).paused
    /\ \A i \in DOMAIN spec.mappings : PlanOK(spec.mappings[i], commit)
    /\ job' = Wanted
    /\ staging' = NoTree
    /\ dirty' = {}
    /\ diff' = NoDiff
    /\ pc' = "stage" /\ next' = 1
    /\ UNCHANGED <<envVars, synced, todo, live, bounds>>

BeginPaused ==
    /\ pc = "idle"
    /\ synced # Wanted
    /\ Resolve(spec).paused
    /\ synced' = Wanted
    /\ UNCHANGED <<envVars, job, pc, next, todo, staging, live, diff, dirty,
                   bounds>>

\* Where filepath.WalkDir comes to next.
Coming ==
    {Walk[k] : k \in {n \in DOMAIN Walk :
                         /\ Walk[n] \in todo
                         /\ \A l \in 1..(n - 1) : Walk[l] \notin todo}}

\* The sync returns an error; the agent backs off and begins again.
Abort ==
    /\ pc' = "idle" /\ next' = 0 /\ todo' = {}
    /\ UNCHANGED <<envVars, job, synced>>

StageMapping ==
    /\ pc = "stage"
    /\ next <= Len(job.profile.mappings)
    /\ Stageable(job.profile.mappings[next], job.tree, job.profile.excluded)
    /\ staging' = StagedOnto(staging, job.profile.mappings[next], job.tree,
                             job.profile.excluded)
    /\ next' = next + 1
    /\ UNCHANGED <<envVars, job, synced, pc, todo, live, diff, dirty, bounds>>

\* What has been staged by then does not matter: Begin clears it.
StageFails ==
    /\ pc = "stage"
    /\ next <= Len(job.profile.mappings)
    /\ ~Stageable(job.profile.mappings[next], job.tree, job.profile.excluded)
    /\ Abort
    /\ UNCHANGED <<staging, live, diff, dirty, bounds>>

StagingDone ==
    /\ pc = "stage"
    /\ next > Len(job.profile.mappings)
    /\ pc' = IF job.profile.dryRun THEN "diff" ELSE "merge"
    /\ todo' = DOMAIN staging
    /\ UNCHANGED <<envVars, job, synced, next, staging, live, diff, dirty,
                   bounds>>

\* What is at p, or what a link leads to, can be made into a file or directory.
\* os.Create makes the file that a link leads to, but not its directory;
\* os.MkdirAll makes nothing of a link that leads nowhere.
Room(p, what) ==
    /\ Fits(live, Real[p], what)
    /\ \A l \in DOMAIN Links :
          IF l = p /\ what # Dir
          THEN \A q \in Paths : Above(q, Links[l]) => q \in DOMAIN live
          ELSE AtOrAbove(l, p) => Links[l] \in DOMAIN live

\* mergeStagingToLive at one path: equal files are left alone.
Merge ==
    /\ pc = "merge"
    /\ \E p \in Coming :
          /\ Room(p, staging[p])
          /\ live' = Put(live, Real[p], staging[p])
          /\ todo' = todo \ {p}
    /\ UNCHANGED <<envVars, job, synced, pc, next, staging, diff, dirty, bounds>>

\* A file where a directory belongs, or the other way round, or a link that
\* leads nowhere.
MergeFails ==
    /\ pc = "merge"
    /\ \E p \in Coming : ~Room(p, staging[p])
    /\ Abort
    /\ UNCHANGED <<staging, live, diff, dirty, bounds>>

MergeDone ==
    /\ pc = "merge" /\ todo = {}
    /\ pc' = "clean"
    /\ todo' = Paths
    /\ UNCHANGED <<envVars, job, synced, next, staging, live, diff, dirty,
                   bounds>>

\* cleanOrphans at one path; links are not among the files.  A file that the
\* gateway wrote may have come after its directory was read, and is missed.
Clean ==
    /\ pc = "clean"
    /\ \E p \in Coming :
          /\ IF p \in Files(live) /\ Orphan(p, job.profile)
             THEN \/ live' = Without(live, p, job.profile.mappings)
                  \/ p \in dirty /\ live' = live
             ELSE live' = live
          /\ todo' = todo \ {p}
    /\ UNCHANGED <<envVars, job, synced, pc, next, staging, diff, dirty, bounds>>

\* os.Lstat follows the links above p, and p itself may be one.
Absent(p) == p \notin DOMAIN Links /\ Missing(live, Real[p])

\* filesEqual: a link is never equal.
Equal(p) ==
    /\ p \notin DOMAIN Links
    /\ Real[p] \in DOMAIN live /\ staging[p] = live[Real[p]]

\* computeDryRunDiff; a gateway that writes meanwhile is not looked into.
DryRun ==
    /\ pc = "diff"
    /\ diff' = [added |-> {p \in Files(staging) : Absent(p)},
                modified |-> {p \in Files(staging) : ~Absent(p) /\ ~Equal(p)},
                deleted |-> {p \in Files(live) : Orphan(p, job.profile)}]
    /\ pc' = "diffed" /\ todo' = {}
    /\ dirty' = {}
    /\ UNCHANGED <<envVars, job, synced, next, staging, live, bounds>>

\* The staging directory goes, and the agent records what it has synced.
Done ==
    /\ pc = "diffed" \/ (pc = "clean" /\ todo = {})
    /\ staging' = NoTree
    /\ synced' = job
    /\ pc' = "idle" /\ next' = 0
    /\ UNCHANGED <<envVars, job, todo, live, diff, dirty, bounds>>

\* The live directory now, or with the file half written that is being copied.
HalfWritten ==
    {live} \cup
    {Put(live, Real[p], Torn) :
        p \in {q \in Coming : /\ pc = "merge" /\ q \in Files(staging)
                              /\ Room(q, Torn) /\ ~Equal(q)}}

\* An I/O error: a full disk, a file that cannot be read.
IOError ==
    /\ pc \in {"stage", "merge", "clean", "diff"}
    /\ faults < MaxFaults
    /\ live' \in HalfWritten
    /\ Abort
    /\ faults' = faults + 1
    /\ UNCHANGED <<staging, diff, dirty, crashes, writes>>

\* The agent is killed: it forgets what it has synced.
Crash ==
    /\ crashes < MaxCrashes
    /\ live' \in HalfWritten
    /\ pc' = "idle" /\ next' = 0 /\ todo' = {}
    /\ job' = NoJob /\ synced' = NoJob
    /\ crashes' = crashes + 1
    /\ UNCHANGED <<envVars, staging, diff, dirty, faults, writes>>

Sync ==
    \/ Begin \/ BeginPaused \/ StageMapping \/ StageFails \/ StagingDone
    \/ Merge \/ MergeFails \/ MergeDone \/ Clean \/ DryRun \/ Done

Next ==
    \/ Change
    \/ \E p \in GatewayFiles : GatewayWrites(p)
    \/ Sync \/ IOError \/ Crash

Spec == Init /\ [][Next]_vars

FairSpec == Spec /\ WF_vars(Sync)

---------------------------------------------------------------------------
(* What a sync is to do, mapping by mapping, without staging.              *)

\* Some mapping is responsible for p, and nothing takes p out of it.
Managed(p, profile) ==
    /\ \E i \in DOMAIN profile.mappings : AtOrAbove(profile.mappings[i].dst, p)
    /\ \A q \in UpTo[p] : ~Skipped(q, profile.excluded)

\* A mapping has a file or a directory for p: a link counts only as its source.
Mapped(m, p, tree) ==
    /\ AtOrAbove(m.dst, p) /\ Origin(m, p) \in DOMAIN tree
    /\ IF p = m.dst THEN IsFile(tree, m.source)
       ELSE tree[Origin(m, p)] \notin DOMAIN LeadsTo

\* The mappings that have a file for p.
Sources(p, j) ==
    {i \in DOMAIN j.profile.mappings :
        LET m == j.profile.mappings[i] IN
          Mapped(m, p, j.tree) /\ IsFile(j.tree, Origin(m, p))}

\* The last of them wins.
Expected(p, j) ==
    LET m == j.profile.mappings[CHOOSE i \in Sources(p, j) :
                                  \A k \in Sources(p, j) : k <= i]
        c == Found(j.tree, Origin(m, p))
    IN  IF m.template THEN Render[c] ELSE c

\* A file of the data directory is what the commit says.
AsCommitted(p, j) ==
    IF Sources(p, j) = {} THEN p \notin Files(live)
    ELSE p \in Files(live) /\ live[p] = Expected(p, j)

\* The data directory has a directory where the commit has a file, or the other
\* way round, or a link that leads nowhere.
Blocked(j) ==
    \E i \in DOMAIN j.profile.mappings, p \in Paths :
        LET m == j.profile.mappings[i] IN
          /\ Mapped(m, p, j.tree) /\ Managed(p, j.profile)
          /\ ~Room(p, Found(j.tree, Origin(m, p)))

---------------------------------------------------------------------------
(* Properties.                                                             *)

\* After a sync every managed path is exactly what the commit says, later
\* mappings over earlier ones, orphans gone and nothing half-written left from
\* earlier attempts, unless the gateway wrote it during the sync or links give
\* it two names (plan.go:48-114, 150-216, 266-391).
SyncedExactly ==
    pc = "idle" /\ synced # NoJob /\ synced = job /\ ~job.profile.dryRun
        => \A p \in Paths \ (dirty \cup Linked) :
              Managed(p, job.profile) => AsCommitted(p, job)

\* A dry run says what a sync would do to the managed files, and to no others,
\* that links give no second name (plan.go:394-477).
DryRunPredicts ==
    pc = "diffed" /\ dirty = {} /\ ~Blocked(job)
        => LET plain == Paths \ Linked
               managed == {p \in plain : Managed(p, job.profile)}
           IN
           /\ diff.added \cap plain =
                 {p \in managed : Sources(p, job) # {} /\ p \notin DOMAIN live}
           /\ diff.modified \cap plain =
                 {p \in managed \cap DOMAIN live :
                     Sources(p, job) # {} /\ Expected(p, job) # live[p]}
           /\ diff.deleted \cap plain =
                 {p \in managed \cap Files(live) : Sources(p, job) = {}}

Differs(p) ==
    \/ (p \in Files(live)) # (p \in Files(live)')
    \/ p \in Files(live) /\ live'[p] # live[p]

\* p lies in a destination of the job's mappings, and is neither excluded nor
\* protected.
Ours(p) ==
    /\ ~Skipped(p, job.spec.excluded \cup job.spec.defaults.excluded)
    /\ \E i \in DOMAIN job.spec.mappings : AtOrAbove(job.spec.mappings[i].dst, p)

\* Wherever the engine fails or is killed: it removes a file only if that is in a
\* destination of its mappings and neither excluded nor protected, and never
\* through a link; and it writes only to such a path, or to where a link in the
\* place of such a path leads, which may be anywhere (exclude.go:16-68,
\* plan.go:160-176, 214-260, 286, 320, 329-352, copy.go:30).
OnlyManagedTouched ==
    [][writes' = writes =>
         \A p \in Paths : Differs(p) =>
            \/ Ours(p)
            \/ p \in Files(live)' /\ \E r \in Paths : Real[r] = p /\ Ours(r)]_vars

\* A profile that runs dry, by itself or by the defaults, changes nothing in the
\* data directory (plan.go:80-94, gatewaysync_controller.go:434-437).
DryRunReadOnly ==
    [][writes' = writes /\ live' # live =>
          /\ TRUE \notin job.spec.dryRun
          /\ job.spec.dryRun = Inherit => ~job.spec.defaults.dryRun]_vars

\* Nothing that the documentation calls an error is in the way.
Possible ==
    \A i \in DOMAIN spec.mappings :
        LET m == spec.mappings[i] IN
          /\ PlanOK(m, commit)
          /\ \A p \in Paths :
                Mapped(m, p, commit) => StagedAs(m, commit, p) # Unrenderable

\* Every sync that can succeed does in the end: after faults, crashes and
\* changes the data directory is what the last commit says
\* (agent.go:328-379, plan.go:48-114).
Converges ==
    <>[](\/ Resolve(spec).paused \/ Resolve(spec).dryRun
         \/ ~Possible \/ Blocked(Wanted)
         \/ \A p \in Paths \ (dirty \cup Linked) :
               Managed(p, Resolve(spec)) => AsCommitted(p, Wanted))

\* What a commit turns from a directory into a file, or back, is replaced in the
\* data directory in the end (plan.go:266-307, copy.go:12-47).
KindsFollow == <>[](Resolve(spec).paused \/ Resolve(spec).dryRun \/ ~Blocked(Wanted))

=============================================================================
