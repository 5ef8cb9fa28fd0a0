# TLA+ models of the Stoker operator

Stoker (the Ignition sync operator) keeps the project files of Ignition
gateways in step with a git repository. A `GatewaySync` CR names a repository,
a ref and sync profiles. The *controller* resolves the ref to a commit and
publishes it in a metadata ConfigMap; an *agent*, a sidecar in every gateway
pod, fetches that ref, merges the files into the gateway's data directory,
triggers a scan and reports into a status ConfigMap, which the controller shows
on the CR. A *webhook receiver* lets a git host or CI ask for a ref at once.

This directory models that system, checks it with TLC and proves its most
important safety properties with TLAPS. `PROJECT.json` lists components, runs,
source lines per definition, findings, hazards and theorems. File names below
are relative to `src/`; `controller.go` is
`internal/controller/gatewaysync_controller.go`.

## Inventory

| Component | State | Operations | Model |
|---|---|---|---|
| Reconciler (`controller.go`) | backoff map, token cache; writes CR status, finalizer, metadata ConfigMap | `Reconcile` and its steps | `Controller`; tokens and delays in `GitAccess`, role bindings in `Sidecar` |
| Gateway discovery (`gateway_discovery.go`) | – | `discoverGateways`, `collectGatewayStatus`, condition updates | `Controller` |
| Webhook receiver, requested ref (`controller.go`, `webhook/receiver.go`) | annotation on the CR | `handleWebhook` (authorisation, payload formats, Get, Update), `resolveRef`, `clearRequestedRefIfCaughtUp` | `RequestedRef` |
| GitHub App tokens (`git/githubapp.go`, `controller.go`) | token cache, Secret, the agent's mount | exchange, reuse, refresh, requeue | `GitAccess` |
| Git client (`git/client.go`, `git/auth.go`) | the agent's clone | `matchRef`, `CloneOrFetch`, credentials | `GitRefs`, `GitAccess`, `Sidecar` |
| Backoff (`controller.go`, `agent.go`) | `failureCount`, `consecutiveErrors` | record, reset, delay | `Backoff`, `GitAccess` |
| Status ConfigMap (`agent/configmap.go`) | one entry per gateway | `WriteStatusConfigMap`; deleted by the finalizer | `StatusConfigMap`, `StatusBoard` |
| Agent (`agent/agent.go`) | last synced commit and profiles, backoff, designer flag | `Run`, `handleSyncTrigger`, `checkDesignerSessions`, `syncOnce`, `postCommissionSync` | `Agent` |
| Watcher (`agent/watcher.go`) | last seen version, channel of capacity 1 | `pollConfigMap`, fallback ticker | `Agent` |
| Profiles and plans (`controller.go`, `agent/profile.go`) | – | `resolveProfiles`, `buildSyncPlan`, templates, JSON patches | `SyncEngine` |
| Sync engine (`syncengine/`) | staging directory, live files | stage, merge, clean, dry run | `SyncEngine` (path by path), `Agent` (two at a time, by phases) |
| Pod injector (`webhook/inject.go`, `agent/config.go`) | pods | `Handle`, `injectSidecar`, `LoadConfig` | `Sidecar` |
| Agent role bindings (`controller/rbac.go`) | RoleBinding per CR | `ensureAgentRoleBinding` | `Sidecar` |
| Ignition API client | – | scan, sessions, port check | by outcome in `Agent` |
| Health, metrics, process setup, generated code | – | – | left out |

How they interact: controller and receiver act on the CR through a *cached*
client. Reads may be stale, `Update` is checked against the resourceVersion,
merge patches are not. The controller tells agents through the metadata
ConfigMap, agents answer through the status ConfigMap (all agents of a CR share
one), and nothing tells the controller that they did, except its own polling.
Inside an agent two goroutines sync over the same directories.

Injector and controller are one process with one cache. A token goes from the
controller's memory through a Secret and the kubelet to the agent's file.

What is hard, and which property speaks about it:

- **stale reads and blind patches**: `SpecNeverReverted`,
  `ObservedGenerationHonest`, `StatusConverges`, `WrittenUnderFinalizer`,
  `MetadataGoes`, `BoundInTheEnd`, `BoundOnlyWhenNamed`;
- **a profile read twice, and a memory that decides what is skipped**:
  `UnchangedIsSynced`;
- **read-modify-write by many**: `NoLostUpdate`, `GiveUpJustified`,
  `BoardSpec`;
- **lost wake-ups**: `Converges`, `ReportsSurface`, `ResolvesEffectiveRef`,
  `NoStaleOverride`, `NeverAsleep`, `NothingForgotten`;
- **crash, fault, deletion and shutdown in the middle**: `Converges` (of the
  controller, the agent and the sync engine), `DeletionCompletes`,
  `MetadataGoes`, `NoBindingLeft`, `ShutdownCompletes`, `BlockedFlagClears`;
- **two goroutines on one directory**: `NoManagedLoss` (refuted, `agent_wipe`);
- **files of others in the same directory**: `OnlyManagedTouched`,
  `DryRunReadOnly`, `SyncedExactly`, `DryRunPredicts`;
- **two implementations that must agree**: `SyncFindsThatCommit` (matchRef and
  git), the theorem `CredentialsAgree` (injector, agent and controller),
  `DryRunPredicts` (dry run and merge);
- **time**: `AgentTokenValid`, `NeverAsleep`, `DelaysAsDocumented`;
- **partial status updates**: `ReadyMeansSynced`.

The full list, at source lines, is under "hazards" in `PROJECT.json`.

## Modules

### StatusBoard, StatusConfigMap

`StatusBoard` is what callers of `WriteStatusConfigMap` want: a board with one
entry per gateway, where a write replaces one entry and leaves the others.
`StatusConfigMap` is what they get: every call reads the shared ConfigMap,
replaces its key in the copy, writes the whole copy back, and retries up to
three times when the resourceVersion has moved on. A *writer* is a goroutine
that calls; the two goroutines of an agent share a key. An answer lost after
the store is a return with an error (`WriteStored`). `cm.data`, hidden behind
the operator `Board`, is the refinement mapping. `committed` and `interfered`
are history variables.

### RequestedRef

The annotation `stoker.io/requested-ref` alone: webhook handlers from the request
to its response (`Webhook`: HMAC or bearer token, whichever is configured, and
`ParsePayload`, the first of four formats that finds a ref; `HandlerGet` from
the cache, `HandlerUpdate` of the whole object), edits of `spec.git.ref`, the
informer's copy, and a reconcile cut down to reading, resolving, patching, and
the two separate steps of clearing (`ClearGet`, `ClearPatch`). A request is the
refs that each format would find in it and the proofs it carries. `HandlerFails`
is every early end of a handler: not found, a failed Get, a refused Update. Whether polling
is on is chosen at the start. `Norm` strips the `v` of a tag, as the code does.

### Controller

One CR and its reconciles. `cr`/`status` are at the API server, `cache` is the
informer's copy, `base` the copy a reconcile works on and `work` the status it
builds. `meta` and `metaSeen` are the metadata ConfigMap and the informer's
copy of it. Each action is a stretch of `Reconcile` between two calls that
others can see: `Begin` (the reads and checks up to the git secrets),
`AddFinalizer`, `CleanupMetadata`, `CleanupStatus`, `RemoveFinalizer`,
`ResolveFromStatus`/`ResolveFromRemote`/`ResolveFails`, `WriteMetadata`,
`Discover`, `Patch`/`PausedPatch`/`FailPatch`, `Clear`; `StepFails` and the
`...Fails` actions are the error paths. `MergePatch` is the semantics of
`client.MergeFrom`: fields that the reconcile did not change in its copy are not
sent. Abstractions:

- time: `RequeueAfter` is a pending timer; whether the last commit change is
  recent enough for `resolveRef` to answer from the status is a choice;
- conditions are records with one commit standing for the message, because a
  merge patch replaces the list of conditions as a whole;
- `reports` is the status ConfigMap *as the informer shows it*: no other reader
  is in this module, so an agent's report is the moment it arrives there;
- adding the finalizer raises the generation unless the manifest spells out
  every field the Go types serialise (`SpelledOut`). With such a manifest the
  first reconcile wakes nobody. No text promises otherwise, so no run claims it;
- the CR is not created again under the same name.

### Agent

One gateway's agent: the goroutines `main` and `post`, each with a program
counter and a `job`; the working tree, the staging directory and the live files
as *contents*, named by the commit and profile document they come from, or torn,
wiped, or overwritten by commissioning. Building the staging directory is one
step; the merge, the orphan cleanup, the scan and the recording are separate.
`FaultKinds` selects which calls may fail in a run, so that each run can afford
two of the failures it is about. The agent fetches the *ref*, not the
commit of the metadata: `Fetch` checks out `head`. SIGTERM before the initial
sync has ended is left out; so are sync periods, events and credentials.

### Backoff, GitRefs, GitAccess

`Backoff` is the arithmetic of both backoffs, including the width of the agent's
`int64` (an overflowing shift). `GitRefs` is how a name becomes a commit:
`MatchRef` for the controller (peeled tags, tags, branches, a full SHA as
itself), `Clone` and `Fetch` for the agent's git, which is external and modelled
from the command lines in `client.go`.

`GitAccess` puts both to work over time. A tick is 30 s; tokens are the ticks
they have left in the controller's cache, in the Secret and in the agent's
mount, which the kubelet updates up to `MountLag` ticks late. A reconcile is
`ResolveFromStatus` or `ResolveFromRemote` (with a token of the cache or a new
one), `Publish` of metadata and Secret, and `Requeue`
(`RequeueInterval`: polling or the token's refresh, whichever is sooner). It may
fail at each of the three places where the code counts a failure
(`SecretMissing`, `ResolveFails`, `ApiKeyMissing`), at the writes
(`PublishFails`), and be cut short by a restart (`Crash`). Another CR with the same app may renew the cached token
in between. The status as the reconcile has it (`status`) and as it was patched
(`saved`) are kept apart: the patches after a failure ignore their errors
(`PatchIgnored`), the last one's is returned and the reconcile is retried
(`StatusPatchFails`). The agent clones, fetches, fails and backs off; a clone that
is killed leaves a `.git` directory, which a later fetch can use (`HalfMade`) or
not (`Broken`, `CloneInterrupted`). A run's `Settings`
choose the authentication, polling, refs and bounds, so that one configuration
covers several deployments. `disturbed`, `streak` and the fields `at` are history.
The time that `status.lastSyncTime` measures is kept up to the polling interval.

### SyncEngine

The sync engine path by path. `Specs` are a profile with its defaults, from
which `resolveProfiles` makes the profile in the metadata and `buildSyncPlan`
the plan; a sync then stages mapping by mapping, merges path by path in
`WalkDir`'s order, cleans orphans and removes the staging directory, or computes
the dry-run diff. Globs are the sets of paths they match, templates and patches are one function `Render` that may fail. The
gateway writes its files in between, the disk may fail and the agent may be
killed in the middle of a file (`Torn`). `Managed`, `Sources` and `Expected` say,
mapping by mapping and without a staging directory, what a sync is to achieve:
the reference that `SyncedExactly` and `DryRunPredicts` compare with. Two
`ExecutePlan`s at a time are in `Agent`.

Symbolic links are on both sides. In a commit (`LeadsTo`) the walks skip them,
but the source of a mapping is followed: `os.Stat` and `os.Open` find what the link
leads to (`Found`). In the data directory (`Links`, a constant, as the engine
makes and removes none) the walks of cleanup and diff skip them, and the merge
follows them: `os.MkdirAll` and `os.Create` get a path and write where it leads
(`Real`), within the managed paths, elsewhere in the data directory, or outside of
it. So the engine *does* write to places no mapping leads to, if a link in a
managed place leads there; orphans behind a link are never removed; and a file
with two names (`Linked`) may be written by one and cleaned or judged by the
other. `OnlyManagedTouched` says what remains true, `SyncedExactly`,
`DryRunPredicts` and `Converges` leave `Linked` paths out. The gateway writes to
real paths, links lead to no other links, and parents of a mapping's source are no
links.

### Sidecar

Pods get their agent and its permissions. The injector (`Inject`, `AdmitAsIs`,
and `WebhookDown` for the failure policy Ignore) decides from the cache. It
chooses environment and volumes of the credential by the CR's auth at that moment
(`Env`, `Volumes`); `FilesUsed` is what the agent's git client makes of them and
`ControllerSecrets` what the controller resolves with, by the CR's auth now. Reconciles list pods (`ReconcileList`) and create, recreate or
update the binding (`ReconcileBind`) from caches that lag per object. CRs are
created, edited, paused, deleted and created again under their name with a new
uid; the garbage collector takes what a dead uid owns; somebody else may create
a binding of that name, with another role, or with what looks like the right one:
the code compares the names of role and subjects only (`Fits`), so a Role of that
name, or subjects of another kind or namespace, count as its own for ever
(`Lookalike`). `unfinished` is history: CRs whose last reconcile did not get its
way, and which nothing but polling wakes again. Left out: image, resources, probes,
the data volume.

## Runs

| Run | Shows | Bounds |
|---|---|---|
| `status_configmap` | no lost update, justified give-up, refinement of `StatusBoard` | 3 writers, 2 gateways, 2 statuses, 4 calls, 3 attempts, 1 deletion |
| `requested_ref` | a webhook never reverts the spec; what the annotation, or else the spec, ends up with is resolved, polling or not; with polling a reached annotation goes | 2 handlers, 3 refs (2 spellings of one), requests in several formats, 2 webhooks, 1 edit, 1 fault |
| `controller` | metadata written only under the finalizer; observed generation and Ready are honest under stale patches | 2 edits (deletion, secrets, profiles, pods), 1 report, 1 fault, 1 crash |
| `controller_live` | agents and status end with the commit of the effective ref | 2 refs, 2 edits (ref, annotation), 1 move, 1 crash |
| `controller_faults` | the same with a failing call anywhere; reports reach the CR; deletion completes and takes the metadata along | 2 edits (pause, deletion), 1 report, 1 fault |
| `agent` | before the gateway is up: a trigger is skipped as unchanged only when the live files are right; they converge through profile changes, faults and a crash | 2 commits, 5 documents, 2 edits, 2 faults (metadata, git, engine), 1 crash |
| `agent_commission` | the post-commission sync repairs overwritten files | 2 faults (clone, scan, write), 2 crashes |
| `agent_designer` | the blocked flag clears, SIGTERM ends the agent | 3 documents (proceed, wait, fail), 1 edit, 1 session, 1 fault |
| `agent_wipe` | *violation*: two syncs share a staging directory, and managed files are deleted | 2 commits, 1 move |
| `git_access` | the agent's token is valid and its renewal always due; controller and agent find the same commit for branches and both kinds of tags; both backoffs are as documented, the agent's up to the overflow | token life 15 ticks, buffer 10, mount lag 2; polling of 2, 4 or no ticks; 2 ref moves, 7 failed reconciles, 40 failed syncs in a row |
| `sync_engine` | a finished sync leaves exactly the commit's files in the managed paths, a dry run predicts it and writes nothing, nothing else is touched but what links in managed places lead to, and failures are made good | 4 trees with 3 kinds of links, 2 links in the data directory, 5 profiles, 1 change, 1 I/O error, 1 kill, 1 write by the gateway |
| `sidecar` | no change of pod or binding is forgotten; only service accounts of the CR's pods are bound, all of them in the end; no binding of a deleted CR stays | 1 CR name, 2 pods, 3 pod templates, 2 kinds of authentication, 3 foreign bindings, 4 changes, 1 fault |

A "violation" run checks one sentence of a document or comment that the code
does not keep; its finding in `PROJECT.json` quotes it.

### Further configurations

These are not part of the regular runs. Each checks a sentence that the code
does not keep, and TLC refutes it in seconds
(`tlc -config MCControllerReady.cfg MCController`, and so on):

| Configuration | Sentence | What the code does |
|---|---|---|
| `MCRequestedRefClear` | "removes the requested-ref annotation once spec.git.ref has caught up to the value the webhook set" (`controller.go:843`) | `clearRequestedRefIfCaughtUp` decides on a copy and patches blindly: a request that arrived in between is removed |
| `MCControllerReady` | "Ready=True only when all three are True" (`gateway_discovery.go:225`) | a failed resolution returns before `updateReadyCondition` and leaves Ready=True |
| `MCControllerMixed` | "If the ref is already resolved at the desired ref" (`controller.go:467`), the status has its commit | merge patches against stale copies pair a ref with another ref's commit, and `resolveRef` answers with it |
| `MCControllerPaused` | "The controller continues to reconcile and resolve refs" (`gatewaysync-cr.md:347`) | a paused CR returns before the resolution |
| `MCControllerNoPolling` | the controller "surfaces per-gateway sync status on the CR" (`architecture.md:40`) | without polling nothing enqueues the CR when an agent reports |
| `MCControllerLeak` | "ConfigMaps are cleaned up on deletion" (`02-finalizer-cleanup/chainsaw-test.yaml:6`) | an agent that reports after the cleanup creates the status ConfigMap again, without owner |
| `MCAgentShutdown` | "waits up to 15s for any in-flight file sync to complete" (`CHANGELOG.md:19`) | the flag is set only in the goroutine that waits for it, and never by the post-commission sync |
| `MCAgentDesignerFail` | `fail`: "Aborts the sync" (`gatewaysync-cr.md:334`) | the post-commission sync does not look for sessions |
| `MCAgentReread` | "performs a sync if needed" (`agent.go:271`) | the profile is read twice; a change and its reversal between the reads go unnoticed |
| `MCAgentSyncedCommit` | "SyncedCommit is the git commit SHA currently synced to this gateway" (`sync_status.go:23`) | a paused profile's sync reports the new commit |
| `MCGitAccessRarePolling` | "5-minute pre-expiry refresh" (`gatewaysync-cr.md:134`) | a polling interval longer than the buffer may answer from the status when the refresh is due, and the mounted token expires |
| `MCGitAccessNoPolling` | requeue after polling or token expiry, "whichever is sooner" (`controller.go:825`) | without polling, a token that enters the refresh buffer during the reconcile leaves no timer at all |
| `MCGitAccessCommitRef` | a ref is a "branch, tag, or commit SHA" (`gatewaysync_types.go:36`) | the agent clones with `--branch`, which knows no SHA |
| `MCGitAccessAgentDelay` | "5min cap" (`CHANGELOG.md:18`) | the shifted `int64` overflows at the 30th failure |
| `MCSyncEngineSlash` | "removes orphaned files within managed paths" (`architecture.md:73`) | a destination with a trailing slash is no managed root, so its orphans stay |
| `MCSyncEngineOptional` | a missing optional source "is silently skipped" (`gatewaysync-cr.md:222`) | the mapping stays in the plan, and `stageDirectory`'s walk of the missing source fails the whole sync |
| `MCSyncEngineTypes` | the same sentence of `introduction.md:21` as below, for kinds of files | a path that turns from file to directory, or back, fails the merge for ever |
| `MCSyncEngineRollback` | "branch, tag, or commit SHA as the source of truth" (`introduction.md:21`) | after a failed sync a return to the commit synced before counts as unchanged, and half-merged files stay |
| `MCSidecarTwoAuths` | "Exactly one … should be specified" (`gatewaysync-cr.md:73`), unchecked | injector, controller and agent prefer different methods when two are given (and an edit of the auth reaches no agent that is injected already): `AgentHasCredential` |
| `MCSidecarNoProfile` | "Falls back to the `default` profile if unset" (`gatewaysync-cr.md:177`) | the injector leaves the profile unset, and the agent exits without one |
| `MCSidecarNoPolling` | "Will be recreated on next reconcile" (`rbac.go:99`) | without polling there may be no next reconcile |

Why the bounds are enough: a conflict needs two writers, exhausting three
attempts needs a third and four calls; a lost or reordered effect needs one
stale copy, one change behind its back and one step that uses the copy; the
clearing of an annotation needs an annotation and an edit that reaches it.
Faults and crashes can strike at every step, so one or two of them meet every
window. The two `Converges` runs of the agent split the fault kinds between them
because together they exceed what can be enumerated. Token times keep the order
of the real ones (polling < buffer < life); two lives of a token show its reuse,
its renewal and its expiry; 7 failures reach the controller's cap and 40 pass the
agent's overflow. The trees of `sync_engine` hold a nested directory, a file that
cannot be rendered, a missing required source, a directory with nothing but a link
where the gateway has a file, an overlay of two mappings on one directory, and
sources that are links to a file, to a directory and to nothing. In its data
directory one link in a managed place leads to a file and one to a directory that no
mapping names, and commits have files and directories for both. `Asleep`, the timer's
value when no reconcile is due, is beyond every time that can be set. Four changes of the sidecar's world are a CR's creation, a pod, a
deletion and a second creation.

Three limits were seen rather than assumed: `BlockedFlagClears` holds with one
failing call, which in a timeout may take the write of the Error, the deferred
write of Pending, or both, and not with two in one sync; the agent's `Converges` holds
when commits and documents do not return to earlier values (`MCAgentReread.cfg`
shows why), and the sync engine's likewise (`MCSyncEngineRollback.cfg`).
Deadlock checking is off: with the bounds used up and nothing to do the system
rests.

## Fairness

- The API server answers, informers keep their watch, timers fire, the work
  queue hands out what is queued and a reconcile goes on to its next call
  (`WF` on the deliveries, the timer and `Reconcile` in `Controller`,
  `RequestedRef` and `Sidecar`): controller-runtime's job. Webhook handlers that
  have started finish (`Handle`).
- Kubernetes' garbage collector runs (`GarbageCollect`, `Collect`).
- `SF(ResolveFromRemote)`: within one polling interval of the last commit change
  `resolveRef` may answer from the status; time passes, so not for ever.
- Agent: the Go scheduler runs both goroutines, the fallback ticker ticks, a
  backoff ends, the controller publishes a moved ref, the gateway boots, and
  designers eventually close their sessions.
- Sync engine: `WF(Sync)`; a plan that has begun is carried out, and the agent's
  triggers and retries call it again.
- No fairness is assumed of users, webhooks, remotes, faults or crashes; the
  bounds make these finite. `GitAccess` and `StatusConfigMap` state safety only.

## Proofs

TLAPS checks, for all values of the constants that satisfy the named
assumptions (any number of pods, handlers, refs, paths, edits, faults, crashes):

**StatusConfigMapProofs.** `TypeCorrect`, `NoLostUpdateHolds`,
`GiveUpJustifiedHolds`, `ImplementsBoard`. `NoLostUpdate` is not inductive: it
says that the stored entry of each gateway is the one committed last, and an
update writes back a whole copy. The strengthening `Inv` adds `VersionInv`: a
copy that carries the ConfigMap's current resourceVersion *is* its current
data, and versions only grow. `AttemptInv` charges each failed attempt to a
change by somebody else, for `GiveUpJustified`. `ImplementsBoard` then maps each
stored write to one `StatusBoard` write and all other steps to stuttering.

**ControllerProofs.** `WrittenUnderFinalizerHolds`: the metadata ConfigMap is
written only for a CR that exists and has its finalizer, however stale the
cache. The write comes many steps after the check, so the invariant `IInv`
carries the guard along: `LiveIsGuarded` (in every step of a reconcile of a live
CR, the CR exists with its finalizer), because a finalizer is removed only by a
cleanup, a cleanup needs a cache that shows the deletion
(`CleanupSawDeletion`), a seen deletion is final (`DeletionIsFinal`), and a cache
that shows a live, guarded CR is right about it (`CacheIsTruthful`).

**ControllerStatusProofs.** `TypeCorrect`, `ReadyMeansSyncedHolds`,
`ObservedGenerationHonestHolds`. A merge patch sends the conditions only when
they differ from the copy the reconcile started with, so a stale copy could mix
two judgements. The invariant adds that generations grow from the status over
the cache to the CR and that conditions of the current generation judge its
profiles (`Generations`), that the copy lies between the status and the cache
(`BaseBetween`), that the status under construction continues that copy
(`WorkJudges`), and that AllReady is never shown without the profiles' sync
(`AllReadySynced`).

**RequestedRefProofs.** `TypeCorrect`, `SpecNeverRevertedHolds`: a webhook's
`Update` of a whole object from the cache never puts back an older
`spec.git.ref`. The invariant is `UpToDate` for every copy in use: its version is
not ahead, and an equal version is an equal object.

**SyncEngineProofs.** `TypeCorrect` (the live tree stays a tree: every file lies
in directories, links stay in theirs, and nothing is behind them),
`OnlyManagedTouchedHolds`, `DryRunReadOnlyHolds`. `OnlyManagedTouched` is not
"nothing outside the destinations changes", which is false with links in the data
directory: it says that removals stay in the destinations and never go through a
link, and that a write is to a managed path or to where a link in its place leads. The
invariant `IInv` says that staged paths lie under managed roots and are not
protected, that a merge walks staged paths only, and that only plans which are
not dry run merge or clean.

`SyncedExactlyHolds` and `DryRunPredictsHolds` compare the loops of
`ExecutePlan` with `Expected`, which knows neither loops nor a staging directory.
Their invariant `ExactInv` describes each loop half-way: the staging directory is
what the first `next - 1` mappings say, the last of them winning
(`StagingExact`), and every staged file comes from one of them
(`StagingOrigin`); of the paths already walked the live tree has the staged
contents unless the gateway wrote them since or links give them two names
(`LiveMerged`), and no orphans
(`LiveCleaned`); a diff is of the live tree as it is (`DiffNow`). No induction over
the walk is needed, because the walk is a sequence of steps of the specification.
The hypothesis `PlainRoots` leaves out destinations with a slash at the end and
the data directory itself, where `SyncedExactly` is refuted
(`MCSyncEngineSlash`). `DryRunPredicts` also needs `DestinationsKept`: staging
skips an excluded directory only when its walk meets it, *below* the
destination, so that with a destination in an excluded directory the diff
reports files that are not among the managed ones. `sync_engine` satisfies both hypotheses. The proof also
found `Blocked` too narrow: a directory of the commit that holds no file still
blocks a file of the live tree.

**SidecarProofs.** `TypeCorrect`, `BoundOnlyWhenNamedHolds` (bound subjects are
the accounts of pods that have named the CR, and pods, caches and reconciles in
progress know no others). `NothingForgottenHolds`: no order of deliveries, lists
and writes leaves a binding behind that does not fit the cached pods, unless
somebody is still to look at it. The invariant `Awake` adds that a reconcile that
has listed pods is up to date or its CR is in the queue or unfinished (`FreshWork`),
that a difference between a binding and its cached copy will be told
(`Announced`), and that a binding with an owner has the agent's role
(`OwnedRole`). `CredentialsAgree`: for one method of authentication (`OneMethod`)
the injector's environment and volumes, the agent's choice of files and the
controller's choice of Secrets agree. It is about these operators, of one and the
same auth: with two methods, and after an edit of the auth, the corresponding
invariant `AgentHasCredential` is refuted (`MCSidecarTwoAuths`).

**GitAccessProofs.** `TypeCorrect`: tokens, timers, delays and counts stay in
their ranges (`TypeOK` is inductive as it stands, given the times'
`TimeAssumption`).

`ControllerDelaysAsDocumented`: the loop of `backoffDelay` yields 30, 60, 120, 240
and then always 300 s. `Doubled` is a recursive function; its equation comes from
an explicit solution, and the argument over the loop's turns takes the least
number that fails, from the well-foundedness of the naturals.
`DelaysAsDocumentedHolds` carries this to the system: the count in the backoff
map is the length of the streak of failures (`DelayInv`), except between the reset
and the end of a reconcile. A missing API key is found in that gap, hence the
hypothesis `ApiKeyOnce`, that this failure happens once in a row at most: the
known difference below. For the agent it holds up to the 29th failure.

`AgentTokenValidHolds`: the agent's token does not expire while reconciles
succeed. `TokenInv` keeps cache, Secret and mount in order (`Order`) and bounds
what the stored token has left by `Due`, the ticks until its successor is stored:
with polling two polls, because the first may answer from a status that is just
too young, and a tick within each reconcile if they are slow. The hypothesis
`Prompt` is what remains of it in terms of the settings,
`Window(s) + MountLag <= Buffer`, and is exact: with a buffer one tick shorter
TLC finds an expired token, for no polling, polling of one and of two ticks. In
the code's numbers, with a kubelet lag of a minute, a buffer of 5 minutes allows
polling intervals up to about two minutes; `MCGitAccessRarePolling` shows what
happens with rarer ones. `NeverAsleepHolds` needs only that an app without polling
reconciles within a tick (`Punctual`): `requeueInterval` always finds a token with
more than the buffer left (`AwakeInv`).

`MatchRefAgreesWithGit` and `SyncFindsThatCommitHolds`: for any remote on which
no name is both a branch and a tag (`Unambiguous`), controller and agent find the
same commit, and a sync right after a resolution of an unmoved remote ends there, unless a kill
has left a clone that git cannot fetch into.
The invariant (`Fresh`) ties the commit in status and metadata to the remote's
moves. The settings of `git_access` satisfy all these hypotheses.

**AgentProofs.** `TypeCorrect`, `UnchangedIsSyncedHolds`. The agent skips a
trigger when the ref's commit and the metadata's profiles are those it recorded
last. What it records is the commit that the fetch met and the profiles it read
*before* the fetch; what it syncs with is the profile read *after* it. If commits and
documents do not return to earlier values (`~MayReturn`), a skip is nevertheless right
until the gateway comes up: the invariant `Early` says that commits and documents
only grow along trigger, fetch, second reading and metadata (`Ordered`), so that
equal ends mean equal middles; what staging directory and live files are at each
step (`Progress`); and that the memory is right (`Remembered`). If they may
return it is refuted (`MCAgentReread` shows the consequence), and once the gateway is
up a second goroutine and commissioning write as well (`agent_wipe`).

Every invariant, action property and refinement of the passing runs is stated by
a theorem. Only model-checked: liveness under fairness, which is outside the
prover's reach, as is `ENABLED`.

## Known differences not modelled as runs

- `status.lastSyncRef` changes only with the commit; the reference calls it the
  ref that was last resolved.
- API-key failures do not back off beyond 30 s, because the reset precedes the
  check; and every reconcile with a requested ref resets the backoff
  (`controller.go:109`).
- The merge follows symbolic links in the data directory (`plan.go:286`,
  `copy.go:30`), while cleanup and dry run skip them: files are written, and
  never removed, where a link leads, and the diff calls a link modified always.
- A role binding of the right name whose role or subjects only *look* right
  (another kind or namespace) is never repaired (`rbac.go:93`, `rbac.go:166`).
- A clone that a kill leaves behind counts as a clone; when git cannot fetch into
  it, every later sync fails (`client.go:230`).
- A name that is both a branch and a tag is the tag for `matchRef` and may be
  the branch for git; a change of authentication does not reach pods that are
  injected already.
- The first reconcile only adds the finalizer. If the manifest spells out every
  field, so that the generation does not change, nothing wakes the next one
  (`controller.go:130`).
- An excluded directory is skipped only when staging's walk meets it. Where a
  pattern matches the directory and not the paths in it, a mapping whose
  destination is that directory or lies in it is synced all the same
  (`plan.go:175`).
- A failed scan is reported, but the commit counts as synced and is not scanned
  again (`agent.go:577`); files of a mapping that is removed stay.
- A report of a pod that has been replaced hides MissingSidecar
  (`gateway_discovery.go:147`); the gateway's name defaults to a label in one
  place and to the pod's name in another.
- The maps `backoff` and `tokenCache` are shared by five workers without a lock
  (`controller.go:923`).
- A list of pods that fails leaves the binding with the fallback account alone.
- The annotation for overriding a ref is documented and not implemented.

## Not modelled

- Health and metrics servers, flags, manager and process setup, generated deep
  copies: I/O or generated code without state that the rest reads.
- `GoGitClient.CloneOrFetch`, which neither binary uses: the agent runs the
  native git client, the controller only `LsRemote`.
- HMAC, TLS and JSON in detail: a request carries valid proofs or not, and each
  format finds a ref in it or not.
- The work queue's growing delays after a returned error: `StatusPatchFails` is
  retried within the tick.
- Links that appear, go or change in the data directory while the agent runs, links
  that lead to links, and sources below a link of the commit.
- The sidecar's image, resources, probes and data volume; sync periods and events.
- `Controller` and `Agent` meet through the two ConfigMaps and are checked each
  against the other's interface: `Controller` against agents that report any
  outcome of a sync they have started, `Agent` against a controller that
  publishes moved refs and edited documents. No module composes the two: with
  the faults that matter on either side the product exceeds what TLC enumerates
  here.
