----------------------------- MODULE GitAccess -----------------------------
(***************************************************************************)
(* The git host as the controller and one agent reach it: refs, credentials *)
(* and retries.  The controller resolves the ref, with a token that it has  *)
(* exchanged for a GitHub App's key and cached; it hands commit and ref to  *)
(* the agent in the metadata and the token in a Secret, which the kubelet   *)
(* copies to the agent's mount.  Nobody but the controller renews a token,  *)
(* so its next reconcile must come before the token expires.                *)
(*                                                                          *)
(* A tick is 30 s, and times are ticks that are left.  The metadata          *)
(* ConfigMap's and the CR's own life, and its pauses, are the module         *)
(* Controller's: here the CR has its finalizer and is not paused.            *)
(***************************************************************************)
EXTENDS Backoff, GitRefs, FiniteSets

CONSTANTS
    Settings,      \* what a run looks at, see SettingAssumption
    TokenLife,     \* ticks from the exchange of a token to its expiry
    Buffer,        \* tokenRefreshBuffer: cached tokens are used until then
    MountLag,      \* bound: ticks the kubelet takes to update the mount
    Asleep         \* no reconcile is due: more ticks than any delay

FailureKinds == {"gitSecret", "resolve", "apiSecret"}

\* auth: "githubApp", or "other" for a credential that does not expire;
\* poll: pollingInterval, 0 without polling; shared: another CR uses the same
\* app; slow: a tick may pass within a reconcile; ref: spec.git.ref;
\* first and next: remotes to begin with, and those they turn
\* into; kinds: what can fail in a reconcile; moves, failures and errors bound
\* the turns, and the reconciles and syncs that fail in a row.
ASSUME SettingAssumption ==
    Settings \subseteq
        [auth: {"githubApp", "other"}, poll: Nat, shared: BOOLEAN,
         slow: BOOLEAN, agent: BOOLEAN, ref: Names \cup Commits, first: SUBSET Remotes,
         next: SUBSET Remotes, moves: Nat, kinds: SUBSET FailureKinds,
         failures: Nat, errors: Nat]
ASSUME TimeAssumption ==
    /\ TokenLife \in Nat /\ Buffer \in Nat /\ MountLag \in Nat
    /\ Buffer < TokenLife
    /\ Asleep \in Nat /\ TokenLife < Asleep /\ Cap < First * Asleep
    /\ \A s \in Settings : s.poll < Asleep

VARIABLES
    setting,
    remote,      \* what the remote advertises
    moves,       \* changes of the remote so far
    cached,      \* ticks left of the token in tokenCache, 0 for none
    stored,      \* ticks left of the token in the Secret
    mounted,     \* ticks left of the token that the agent reads
    lag,         \* ticks the mount has been behind the Secret
    pc,          \* the reconcile: "idle", "resolved", "published"
    took,        \* a tick has passed within it
    timer,       \* ticks to the pending RequeueAfter, or Asleep
    status,      \* the CR's status as the reconcile has it: the commit resolved
                 \* last, and the ticks since it changed; history "at": moves of
                 \* the remote when it was asked
    saved,       \* the status at the API server, which status patches reach
    failures,    \* failureCount in the backoff map
    retryIn,     \* RequeueAfter of the last failed reconcile in seconds
    streak,      \* history: failures in a row that were backed off
    disturbed,   \* history: a failure, or a reconcile cut short, since the
                 \* mount last had the token of the cache
    meta,        \* the commit in the metadata ConfigMap; history: its "at"
    running,     \* the agent has ended its initial clone and sync
    tree,        \* its clone: none, half made, broken, or the commit checked out
    errors,      \* the agent's consecutiveErrors
    wait         \* from its last failed sync to backoffUntil in seconds

hostVars == <<setting, remote, moves>>
tokenVars == <<cached, stored, mounted, lag>>
retryVars == <<failures, retryIn, streak>>
recVars == <<pc, took, timer, status, saved, meta, retryVars, disturbed>>
agentVars == <<running, tree, errors, wait>>
vars == <<hostVars, tokenVars, recVars, agentVars>>

NoClone == "none"
HalfMade == "half made"
Broken == "broken"

App == setting.auth = "githubApp"

\* Commits that are objects of the remote: shallow clones see what refs name.
Known(r) ==
    {n \in Range(r.heads) \cup Range(r.tags) \cup Range(r.peeled) : n \in Commits}

TypeOK ==
    /\ setting \in Settings
    /\ remote \in Remotes
    /\ moves \in 0..setting.moves
    /\ cached \in 0..TokenLife /\ stored \in 0..TokenLife
    /\ mounted \in 0..TokenLife /\ lag \in 0..MountLag
    /\ pc \in {"idle", "resolved", "published"} /\ took \in BOOLEAN
    /\ timer \in 0..Asleep
    /\ {status, saved} \subseteq
          [commit: Commits \cup {NotFound}, ok: BOOLEAN, age: Nat, at: 0..setting.moves]
    /\ failures \in Nat /\ streak \in Nat
    /\ retryIn \in {0, 30, 60, 120, 240, 300}
    /\ disturbed \in BOOLEAN
    /\ meta \in [commit: Commits \cup {NotFound}, at: 0..setting.moves]
    /\ running \in BOOLEAN /\ tree \in Commits \cup {NoClone, HalfMade, Broken}
    /\ errors \in Nat /\ wait \in {0, 30, 60, 120, 240, 300}

Init ==
    /\ setting \in Settings
    /\ remote \in setting.first
    /\ moves = 0
    /\ cached = 0 /\ stored = 0 /\ mounted = 0 /\ lag = 0
    /\ pc = "idle" /\ took = FALSE
    /\ timer = 0
    /\ status = [commit |-> NotFound, ok |-> FALSE, age |-> 0, at |-> 0]
    /\ failures = 0 /\ retryIn = 0 /\ streak = 0
    /\ saved = status
    /\ disturbed = TRUE
    /\ meta = [commit |-> NotFound, at |-> 0]
    /\ running = FALSE /\ tree = NoClone
    /\ errors = 0 /\ wait = 0

---------------------------------------------------------------------------
(* The environment: time, the remote, the kubelet, and other CRs.          *)

Less(t) == IF t = 0 THEN 0 ELSE t - 1

\* Ages count up to the polling interval, from which on they do not matter.
Aged(s) == [s EXCEPT !.age = Lesser(@ + 1, setting.poll)]

\* A reconcile whose time has come starts at once, one that runs takes at most
\* a tick, and the kubelet at most MountLag.
Tick ==
    /\ App
    /\ timer # 0
    /\ pc = "idle" \/ (setting.slow /\ ~took)
    /\ stored # mounted => lag < MountLag
    /\ cached' = Less(cached)
    /\ stored' = Less(stored)
    /\ mounted' = Less(mounted)
    /\ lag' = IF stored' = mounted' THEN 0 ELSE lag + 1
    /\ timer' = IF timer = Asleep THEN Asleep ELSE timer - 1
    /\ status' = Aged(status)
    /\ saved' = Aged(saved)
    /\ took' = (pc # "idle")
    /\ UNCHANGED <<hostVars, pc, meta, retryVars, disturbed, agentVars>>

RemoteMoves ==
    /\ moves < setting.moves
    /\ remote' \in setting.next \ {remote}
    /\ moves' = moves + 1
    /\ UNCHANGED <<setting, tokenVars, recVars, agentVars>>

KubeletSync ==
    /\ mounted # stored
    /\ mounted' = stored
    /\ lag' = 0
    /\ disturbed' = (disturbed /\ (streak > 0 \/ stored <= Buffer \/ stored # cached))
    /\ UNCHANGED <<hostVars, cached, stored, pc, took, timer, status, saved,
                   meta, retryVars, agentVars>>

\* Another worker resolves another CR's ref with the same app and needs a token.
OtherExchange ==
    /\ App /\ setting.shared
    /\ cached <= Buffer
    /\ cached' = TokenLife
    /\ UNCHANGED <<hostVars, stored, mounted, lag, recVars, agentVars>>

\* The controller restarts: cache and backoff are gone, and so is what it had not
\* yet patched; the informer lists the CR.
Crash ==
    /\ cached' = 0
    /\ pc' = "idle" /\ took' = FALSE
    /\ timer' = 0
    /\ failures' = 0 /\ retryIn' = 0 /\ streak' = 0
    /\ disturbed' = (disturbed \/ pc # "idle")
    /\ status' = saved
    /\ UNCHANGED <<hostVars, stored, mounted, lag, saved, meta, agentVars>>

---------------------------------------------------------------------------
(* Reconcile.                                                              *)

\* A reconcile begins: by its RequeueAfter, or by a watch event, which may take
\* the timer's place in the queue.
Starts ==
    /\ pc = "idle"
    /\ timer' \in IF timer = 0 THEN {Asleep} ELSE {timer, Asleep}

\* resolveRef answers from the status: no token is asked for.
Reusable == status.ok /\ status.age < setting.poll

ResolveFromStatus ==
    /\ Starts
    /\ Reusable
    /\ pc' = "resolved"
    /\ failures' = 0
    /\ UNCHANGED <<hostVars, tokenVars, took, status, saved, meta, retryIn, streak,
                   disturbed, agentVars>>

\* Faulty variant of TokenUsed: a cached token is used until it expires.
TokenUsedToTheEnd(left) == IF left > 0 THEN left ELSE TokenLife

\* resolveGitHubAppToken: the cached token, or a new one.
TokenUsed(left) == IF left > Buffer THEN left ELSE TokenLife

CachedAfterUse == IF App THEN TokenUsed(cached) ELSE cached

\* LastSyncTime moves only with the commit.
StatusAfter(commit) ==
    [commit |-> commit, ok |-> TRUE, at |-> moves,
     age |-> IF commit = status.commit THEN status.age ELSE 0]

\* Without an app time is not counted, and the status may be too old.
ResolveFromRemote ==
    /\ Starts
    /\ App => ~Reusable
    /\ MatchRef(remote, setting.ref) # NotFound
    /\ cached' = CachedAfterUse
    /\ status' = StatusAfter(MatchRef(remote, setting.ref))
    /\ pc' = "resolved"
    /\ failures' = 0
    /\ UNCHANGED <<hostVars, stored, mounted, lag, took, saved, meta, retryIn, streak,
                   disturbed, agentVars>>

\* Faulty variant of Recorded: a requested ref does not reset the count.
RecordedKeep(kind, requested) == failures + 1

\* failureCount after a failed reconcile.  A requested ref resets it first, and
\* so does the resolution of the ref, which precedes the API key's check.
Recorded(kind, requested) ==
    IF requested \/ kind = "apiSecret" THEN 1 ELSE failures + 1

\* recordFailure, backoffDelay, and the RequeueAfter of the returned result.
RecordFailure(kind, requested) ==
    /\ streak < setting.failures
    /\ failures' = Recorded(kind, requested)
    /\ retryIn' = ControllerDelay(failures')
    /\ streak' = IF requested THEN 1 ELSE streak + 1
    /\ timer' = Lesser(IF timer = 0 THEN Asleep ELSE timer, retryIn' \div First)
    /\ pc' = "idle" /\ took' = FALSE
    /\ disturbed' = TRUE

\* A failed reconcile patches the status as it has it, and ignores a failure of
\* that; the next one reads what the server has.
PatchIgnored(s) ==
    /\ saved' \in {saved, s}
    /\ status' = saved'

\* A Secret of the git auth is missing.
SecretMissing(requested) ==
    /\ "gitSecret" \in setting.kinds
    /\ pc = "idle"
    /\ RecordFailure("gitSecret", requested)
    /\ PatchIgnored(status)
    /\ UNCHANGED <<hostVars, tokenVars, meta, agentVars>>

\* The exchange fails, the remote does not answer, or it has no such ref.
ResolveFails(requested) ==
    /\ "resolve" \in setting.kinds
    /\ pc = "idle"
    /\ App => ~Reusable
    /\ RecordFailure("resolve", requested)
    /\ cached' \in {cached, CachedAfterUse}
    /\ PatchIgnored([status EXCEPT !.ok = FALSE])
    /\ UNCHANGED <<hostVars, stored, mounted, lag, meta, agentVars>>

\* The ref is resolved, but the gateway's API key is missing.
ApiKeyMissing(requested) ==
    /\ "apiSecret" \in setting.kinds
    /\ pc = "resolved"
    /\ RecordFailure("apiSecret", requested)
    /\ PatchIgnored(status)
    /\ UNCHANGED <<hostVars, tokenVars, meta, agentVars>>

\* Faulty variant of Published: only a Secret without a token gets one.
PublishedOnce == IF stored = 0 THEN cached ELSE stored

\* ensureGitHubTokenSecret: the cached token, if there is one.
Published == IF cached > 0 THEN cached ELSE stored

\* ensureMetadataConfigMap.
Publish ==
    /\ pc = "resolved"
    /\ stored' = Published
    /\ meta' = [commit |-> status.commit, at |-> status.at]
    /\ pc' = "published"
    /\ UNCHANGED <<hostVars, cached, mounted, lag, took, timer, status, saved,
                   retryVars, disturbed, agentVars>>

\* Its error is logged, and the reconcile goes on.
PublishFails ==
    /\ pc = "resolved"
    /\ stored' \in {stored, Published}
    /\ disturbed' = TRUE
    /\ pc' = "published"
    /\ UNCHANGED <<hostVars, cached, mounted, lag, took, timer, status, saved,
                   meta, retryVars, agentVars>>

\* Faulty variant of RequeueInterval: only the polling interval counts.
RequeueIntervalPolling == IF setting.poll = 0 THEN Asleep ELSE setting.poll

\* requeueInterval, from what is in the cache by now; Asleep for a zero result.
RequeueInterval ==
    LET poll == IF setting.poll = 0 THEN Asleep ELSE setting.poll
    IN  IF App /\ cached > Buffer THEN Lesser(poll, cached - Buffer) ELSE poll

\* The status is patched, and the next reconcile is due.
Requeue ==
    /\ pc = "published"
    /\ saved' = status
    /\ timer' = Lesser(timer, RequeueInterval)
    /\ pc' = "idle" /\ took' = FALSE
    /\ disturbed' = (disturbed /\ (mounted <= Buffer \/ stored # cached))
    /\ retryIn' = 0 /\ streak' = 0
    /\ UNCHANGED <<hostVars, tokenVars, status, meta, failures, agentVars>>

\* The patch fails, and Reconcile returns the error: the work queue retries, the
\* first time within a tick.  The count of failures has been reset.
StatusPatchFails ==
    /\ pc = "published"
    /\ status' = saved
    /\ timer' = 0
    /\ pc' = "idle" /\ took' = FALSE
    /\ disturbed' = TRUE
    /\ retryIn' = 0 /\ streak' = 0
    /\ UNCHANGED <<hostVars, tokenVars, saved, meta, failures, agentVars>>

---------------------------------------------------------------------------
(* The agent: CloneOrFetch with what its mount has.                        *)

\* isCloned: there is a .git, complete or not.
IsCloned == tree # NoClone

Authorized == App => mounted > 0

\* A clone that lacks its origin or has a lock file left can not be fetched into.
CloneOrFetch ==
    IF ~Authorized \/ tree = Broken THEN NotFound
    ELSE IF IsCloned THEN Fetch(remote, Known(remote), setting.ref)
    ELSE Clone(remote, setting.ref)

\* The initial clone; an error ends the process, and the kubelet restarts it.
AgentStarts ==
    /\ setting.agent /\ ~running /\ meta.commit # NotFound
    /\ CloneOrFetch # NotFound
    /\ tree' = CloneOrFetch
    /\ running' = TRUE
    /\ UNCHANGED <<hostVars, tokenVars, recVars, errors, wait>>

\* Killed while it clones, the agent leaves a repository that it will fetch into,
\* which may work or not.
CloneInterrupted ==
    /\ setting.agent /\ ~running /\ meta.commit # NotFound /\ ~IsCloned
    /\ tree' \in {HalfMade, Broken}
    /\ UNCHANGED <<hostVars, tokenVars, recVars, running, errors, wait>>

\* The agent's container restarts: its clone stays, but for a fetch cut short.
AgentRestarts ==
    /\ running
    /\ running' = FALSE
    /\ errors' = 0 /\ wait' = 0
    /\ tree' = tree \/ (tree' = Broken /\ meta.commit # tree)
    /\ UNCHANGED <<hostVars, tokenVars, recVars>>

\* handleSyncTrigger, for a commit that is not the one synced last.
AgentSyncs ==
    /\ running /\ meta.commit # tree
    /\ CloneOrFetch # NotFound
    /\ tree' = CloneOrFetch
    /\ errors' = 0 /\ wait' = 0
    /\ UNCHANGED <<hostVars, tokenVars, recVars, running>>

\* A fetch or a sync of the main loop fails.
SyncFails ==
    /\ running /\ meta.commit # tree
    /\ errors < setting.errors
    /\ errors' = errors + 1
    /\ wait' = AgentDelay(errors')
    /\ UNCHANGED <<hostVars, tokenVars, recVars, running, tree>>

Reconcile ==
    \/ ResolveFromStatus \/ ResolveFromRemote
    \/ \E requested \in BOOLEAN :
          SecretMissing(requested) \/ ResolveFails(requested)
            \/ ApiKeyMissing(requested)
    \/ Publish \/ PublishFails \/ Requeue \/ StatusPatchFails

Environment ==
    Tick \/ RemoteMoves \/ KubeletSync \/ OtherExchange \/ Crash

AgentStep ==
    AgentStarts \/ CloneInterrupted \/ AgentRestarts \/ AgentSyncs \/ SyncFails

Next == Environment \/ Reconcile \/ AgentStep

Spec == Init /\ [][Next]_vars

---------------------------------------------------------------------------
(* Properties.                                                             *)

\* While the controller's reconciles succeed, the token in the agent's mount has
\* not expired, whichever of timer, status shortcut, cache and other CRs comes
\* first (gatewaysync_controller.go:466-475, 504-542, 654-667, 808-841).
AgentTokenValid == App /\ ~disturbed => mounted > 0

\* The controller always has a reconcile coming that will renew the token, with
\* and without polling (gatewaysync_controller.go:824-841).
NeverAsleep == App /\ pc = "idle" => timer # Asleep

\* After any number of failed reconciles in a row the next one is delayed as
\* documented, and a success or a requested ref starts over; so is the agent's
\* next sync until the shifted int64 reaches its sign bit, at the 30th failure in
\* a row (gatewaysync_controller.go:109-113, 159-217, 296-331, agent.go:333-377).
DelaysAsDocumented ==
    /\ retryIn = Documented(streak)
    /\ errors < 30 => wait = Documented(errors)

\* "applies to both controller ref resolution and agent sync loop"
\* (CHANGELOG.md:18), without a limit.
AgentDelaysAsDocumented == wait = Documented(errors)

\* As long as the remote has not moved since the controller asked it, the agent
\* can check out the ref and gets the published commit, so that it does not
\* sync again and again: matchRef reads the advertised refs as git does, for
\* branches and both kinds of tags, unless a kill has left a clone that git can
\* not fetch into (client.go:68-102, 250-261, 349-376).
SyncFindsThatCommit ==
    meta.commit # NotFound /\ meta.at = moves /\ Authorized /\ tree # Broken
        => CloneOrFetch = meta.commit

=============================================================================
