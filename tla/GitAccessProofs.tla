-------------------------- MODULE GitAccessProofs --------------------------
(***************************************************************************)
(* Proofs about modules Backoff, GitRefs and GitAccess, for any settings,   *)
(* token lives, buffers, remotes, failures, restarts and ticks:             *)
(*   - both backoffs wait as documented, after any number of failures;      *)
(*   - the token in the agent's mount does not expire, if the buffer is      *)
(*     longer than the time that two polls and the kubelet may take;         *)
(*   - the controller always has a next reconcile on its timer;              *)
(*   - the controller's matchRef and the agent's git find the same commit    *)
(*     for every name that is not a branch's and a tag's at once, so that an *)
(*     agent always gets the commit that was published for it.               *)
(* Each has an inductive invariant of its own; TypeOK is one by itself.      *)
(***************************************************************************)
EXTENDS GitAccess, WellFoundedInduction, TLAPS

---------------------------------------------------------------------------
(* The delays of both backoffs.                                            *)

\* Every set of numbers has a least element: what induction over the turns of
\* a loop comes down to.
LEMMA LeastNumber ==
    ASSUME NEW T, T \subseteq Nat, T # {}
    PROVE  \E x \in T : \A y \in T : x <= y
<1> DEFINE R == OpToRel(<, Nat)
<1>1. IsWellFoundedOn(R, Nat)
  BY NatLessThanWellFounded
<1>2. \A x \in Nat, y \in Nat : x < y => <<x, y>> \in R
  BY DEF OpToRel
<1> HIDE DEF R
<1>3. PICK x \in T : \A y \in T : ~(<<y, x>> \in R)
  BY <1>1, WFMin
<1>4. ASSUME NEW y \in T
      PROVE  x <= y
  <2>1. ~(y < x)
    BY <1>2, <1>3
  <2>2. x \in Nat /\ y \in Nat
    OBVIOUS
  <2> QED BY <2>1, <2>2
<1> QED BY <1>4

\* The delay after i turns of the loop, written as a table.
Table(i) ==
    IF i = 0 THEN 30 ELSE IF i = 1 THEN 60 ELSE IF i = 2 THEN 120
    ELSE IF i = 3 THEN 240 ELSE 480

\* The loop's equation has a solution, so Doubled is one.
LEMMA DoubledEquation ==
    ASSUME NEW i \in Nat
    PROVE  Doubled[i] = IF i = 0 THEN First
                        ELSE IF Doubled[i - 1] < Cap THEN 2 * Doubled[i - 1]
                        ELSE Doubled[i - 1]
<1> DEFINE t == [k \in Nat |-> Table(k)]
           Step(f, k) == IF k = 0 THEN First
                         ELSE IF f[k - 1] < Cap THEN 2 * f[k - 1] ELSE f[k - 1]
<1>1. \A k \in Nat : t[k] = Step(t, k)
  BY DEF Table, First, Cap
<1>2. t = [k \in Nat |-> Step(t, k)]
  BY <1>1
<1> HIDE DEF t
<1>3. \E f : f = [k \in Nat |-> Step(f, k)]
  BY <1>2
<1>4. Doubled = [k \in Nat |-> Step(Doubled, k)]
  BY <1>3 DEF Doubled
<1> QED BY <1>4

\* After any number of turns the delay is the table's: a least number of turns
\* for which it is not cannot be.
LEMMA DoubledTable ==
    ASSUME NEW n \in Nat
    PROVE  Doubled[n] = Table(n)
<1> DEFINE T == {k \in Nat : Doubled[k] # Table(k)}
<1>1. ASSUME T # {} PROVE FALSE
  <2>1. PICK x \in T : \A y \in T : x <= y
    BY <1>1, LeastNumber
  <2>2. x \in Nat /\ Doubled[x] # Table(x)
    OBVIOUS
  <2>3. x # 0
    BY <2>2, DoubledEquation DEF Table, First
  <2>4. x - 1 \in Nat /\ x - 1 \notin T
    BY <2>1, <2>2, <2>3
  <2>5. Doubled[x - 1] = Table(x - 1)
    BY <2>4
  <2>6. Doubled[x] = IF Table(x - 1) < 300 THEN 2 * Table(x - 1) ELSE Table(x - 1)
    BY <2>2, <2>3, <2>5, DoubledEquation DEF Cap
  <2> QED BY <2>2, <2>3, <2>6 DEF Table
<1> QED BY <1>1

\* The controller waits as documented after any number of failures
\* (gatewaysync_controller.go:294-312).
THEOREM ControllerDelaysAsDocumented ==
    ASSUME NEW n \in Nat \ {0}
    PROVE  /\ ControllerDelay(n) = Documented(n)
           /\ ControllerDelay(n) \in {30, 60, 120, 240, 300}
<1>1. ControllerDelay(n) = Lesser(Table(n - 1), 300)
  BY DoubledTable DEF ControllerDelay, Cap
<1> QED BY <1>1 DEF Lesser, Table, Documented

\* The agent waits as documented until its int64 overflows, and never longer
\* (agent.go:332-340).
LEMMA AgentDelays ==
    ASSUME NEW n \in Nat \ {0}
    PROVE  /\ n < 30 => AgentDelay(n) = Documented(n)
           /\ AgentDelay(n) \in {0, 30, 60, 120, 240, 300}
<1>1. Shifted(0) = 30 /\ Shifted(1) = 60 /\ Shifted(2) = 120 /\ Shifted(3) = 240
  <2>1. 2^0 = 1 /\ 2^1 = 2 /\ 2^2 = 4 /\ 2^3 = 8
    OBVIOUS
  <2> QED BY <2>1 DEF Shifted, First
<1>2. CASE n - 1 < 4
  <2>1. n - 1 = 0 \/ n - 1 = 1 \/ n - 1 = 2 \/ n - 1 = 3
    BY <1>2
  <2>2. Shifted(n - 1) = Table(n - 1)
    BY <1>1, <2>1 DEF Table
  <2> QED BY <2>1, <2>2 DEF AgentDelay, Lesser, Cap, Documented, Table
<1>3. CASE ~(n - 1 < 4)
  <2>1. Shifted(n - 1) \in {Large, 0, Negative}
    BY <1>3 DEF Shifted
  <2>2. n < 30 => Shifted(n - 1) = Large
    BY <1>3 DEF Shifted
  <2> QED BY <1>3, <2>1, <2>2
          DEF AgentDelay, Lesser, Cap, Documented, Large, Negative
<1> QED BY <1>2, <1>3

---------------------------------------------------------------------------
(* How a ref becomes a commit.                                             *)

\* What a remote advertises.
LEMMA RemoteParts ==
    ASSUME NEW r \in Remotes
    PROVE  DOMAIN r.peeled = {n \in DOMAIN r.tags : r.tags[n] \in TagObjects}
BY DEF Remotes

\* matchRef finds what git clone and git fetch check out, for a name of only one
\* kind (client.go:68-102, 349-376).
THEOREM MatchRefAgreesWithGit ==
    ASSUME NEW r \in Remotes, NEW ref \in Names, ~Ambiguous(r, ref), NEW has
    PROVE  /\ Clone(r, ref) = MatchRef(r, ref)
           /\ Fetch(r, has, ref) = MatchRef(r, ref)
<1>1. ref \notin Commits
  BY ShaAssumption
<1>2. CASE ref \in DOMAIN r.tags
  <2>1. ref \notin DOMAIN r.heads
    BY <1>2 DEF Ambiguous
  <2>2. MatchRef(r, ref) = TagCommit(r, ref)
    BY <1>1, <1>2 DEF MatchRef, TagCommit
  <2> QED BY <1>1, <1>2, <2>1, <2>2 DEF Clone, Fetch
<1>3. CASE ref \notin DOMAIN r.tags
  <2>1. ref \notin DOMAIN r.peeled
    BY <1>3, RemoteParts
  <2> QED BY <1>1, <1>3, <2>1 DEF MatchRef, Clone, Fetch
<1> QED BY <1>2, <1>3

---------------------------------------------------------------------------
(* Types.                                                                  *)

\* A setting's parts.
LEMMA SettingParts ==
    ASSUME NEW s \in Settings
    PROVE  /\ s.poll \in Nat
           /\ s.moves \in Nat
           /\ s.slow \in BOOLEAN
           /\ s.ref \in Names \cup Commits
           /\ s.first \cup s.next \subseteq Remotes
BY SettingAssumption

\* What matchRef, clone and fetch give: a commit, never a tag object.
LEMMA MatchRefType ==
    ASSUME NEW r \in Remotes, NEW ref, NEW has
    PROVE  /\ MatchRef(r, ref) \in Commits \cup {NotFound}
           /\ Clone(r, ref) \in Commits \cup {NotFound}
           /\ Fetch(r, has, ref) \in Commits \cup {NotFound}
<1>1. /\ r.heads \in Partial(Commits)
      /\ r.tags \in Partial(Commits \cup TagObjects)
      /\ r.peeled \in Partial(Commits)
  BY DEF Remotes
<1>2. /\ \A n \in DOMAIN r.heads : r.heads[n] \in Commits
      /\ \A n \in DOMAIN r.tags : r.tags[n] \in Commits \cup TagObjects
      /\ \A n \in DOMAIN r.peeled : r.peeled[n] \in Commits
  BY <1>1 DEF Partial
<1>3. \A n \in DOMAIN r.tags : n \notin DOMAIN r.peeled => r.tags[n] \in Commits
  BY <1>2, RemoteParts
<1>4. \A n \in DOMAIN r.tags : TagCommit(r, n) \in Commits
  BY <1>2, <1>3 DEF TagCommit
<1> QED BY <1>2, <1>3, <1>4 DEF MatchRef, Clone, Fetch

\* What the agent checks out, if anything.
LEMMA CheckedOut ==
    ASSUME TypeOK
    PROVE  CloneOrFetch \in Commits \cup {NotFound}
BY MatchRefType DEF CloneOrFetch, TypeOK

\* The lesser of two numbers.
LEMMA LesserParts ==
    ASSUME NEW a \in Nat, NEW b \in Nat
    PROVE  /\ Lesser(a, b) \in Nat
           /\ Lesser(a, b) <= a /\ Lesser(a, b) <= b
           /\ Lesser(a, b) = a \/ Lesser(a, b) = b
BY DEF Lesser

\* A tick less.
LEMMA LessParts ==
    ASSUME NEW t \in Nat
    PROVE  Less(t) \in Nat /\ Less(t) <= t /\ t <= Less(t) + 1 /\ (t > 0 => Less(t) = t - 1)
BY DEF Less

\* Cached tokens that are used have more than the buffer left.
LEMMA TokenUsedParts ==
    ASSUME NEW t \in 0..TokenLife
    PROVE  TokenUsed(t) \in 0..TokenLife /\ TokenUsed(t) > Buffer /\ TokenUsed(t) >= t
BY TimeAssumption DEF TokenUsed

\* A recorded failure: a documented delay, and a timer within it.
LEMMA RecordFailureType ==
    ASSUME TypeOK, NEW kind, NEW requested, RecordFailure(kind, requested)
    PROVE  /\ failures' \in Nat \ {0} /\ streak' \in Nat \ {0}
           /\ retryIn' \in {30, 60, 120, 240, 300}
           /\ timer' \in 0..Asleep /\ timer' < Asleep
           /\ pc' = "idle" /\ took' = FALSE /\ disturbed' = TRUE
<1>1. failures' \in Nat \ {0} /\ streak' \in Nat \ {0}
  BY DEF TypeOK, RecordFailure, Recorded
<1>2. retryIn' \in {30, 60, 120, 240, 300}
  BY <1>1, ControllerDelaysAsDocumented DEF RecordFailure
<1>3. 30 \div 30 = 1 /\ 60 \div 30 = 2 /\ 120 \div 30 = 4 /\ 240 \div 30 = 8 /\ 300 \div 30 = 10
  OBVIOUS
<1>4. PICK t \in Nat : t = (IF timer = 0 THEN Asleep ELSE timer) /\ t <= Asleep
  BY TimeAssumption DEF TypeOK
<1>5. PICK d \in Nat : d = retryIn' \div First /\ d < Asleep
  <2>1. Asleep \in Nat /\ 10 < Asleep
    BY TimeAssumption DEF First, Cap
  <2>2. PICK r \in {30, 60, 120, 240, 300} : r = retryIn'
    BY <1>2
  <2>3. r \div 30 \in 1..10
    BY <1>3
  <2>4. retryIn' \div 30 \in 1..10
    BY <2>2, <2>3, Zenon
  <2> QED BY <2>1, <2>4 DEF First
<1>6. timer' = Lesser(t, d)
  <2>1. timer' = Lesser(IF timer = 0 THEN Asleep ELSE timer, retryIn' \div First)
    BY DEF RecordFailure
  <2> QED BY <1>4, <1>5, <2>1
<1>7. timer' \in 0..Asleep /\ timer' < Asleep
  <2>1. Lesser(t, d) \in Nat /\ Lesser(t, d) <= d
    BY LesserParts
  <2> QED BY <1>5, <1>6, <2>1, TimeAssumption
<1> QED BY <1>1, <1>2, <1>7 DEF RecordFailure

---------------------------------------------------------------------------
(* TypeOK is inductive.                                                    *)

\* Statuses of a setting.
StatusOf(s) == [commit: Commits \cup {NotFound}, ok: BOOLEAN, age: Nat, at: 0..s.moves]

\* The groups of variables, one by one.
LEMMA HostType ==
    ASSUME TypeOK, UNCHANGED hostVars
    PROVE  setting' = setting /\ setting' \in Settings
           /\ remote' \in Remotes /\ moves' \in 0..setting'.moves
BY DEF TypeOK, hostVars

LEMMA TokenType ==
    ASSUME TypeOK, UNCHANGED tokenVars
    PROVE  /\ cached' \in 0..TokenLife /\ stored' \in 0..TokenLife
           /\ mounted' \in 0..TokenLife /\ lag' \in 0..MountLag
BY DEF TypeOK, tokenVars

LEMMA RecType ==
    ASSUME TypeOK, UNCHANGED recVars, setting' = setting
    PROVE  /\ pc' \in {"idle", "resolved", "published"} /\ took' \in BOOLEAN
           /\ timer' \in 0..Asleep
           /\ status' \in StatusOf(setting') /\ saved' \in StatusOf(setting')
           /\ failures' \in Nat /\ streak' \in Nat
           /\ retryIn' \in {0, 30, 60, 120, 240, 300}
           /\ disturbed' \in BOOLEAN
           /\ meta' \in [commit: Commits \cup {NotFound}, at: 0..setting'.moves]
BY DEF TypeOK, recVars, retryVars, StatusOf

LEMMA AgentType ==
    ASSUME TypeOK, UNCHANGED agentVars
    PROVE  /\ running' \in BOOLEAN /\ tree' \in Commits \cup {NoClone, HalfMade, Broken}
           /\ errors' \in Nat /\ wait' \in {0, 30, 60, 120, 240, 300}
BY DEF TypeOK, agentVars

\* And put together.
LEMMA TypeParts ==
    ASSUME /\ setting' \in Settings /\ remote' \in Remotes /\ moves' \in 0..setting'.moves
           /\ cached' \in 0..TokenLife /\ stored' \in 0..TokenLife
           /\ mounted' \in 0..TokenLife /\ lag' \in 0..MountLag,
           /\ pc' \in {"idle", "resolved", "published"} /\ took' \in BOOLEAN
           /\ timer' \in 0..Asleep
           /\ failures' \in Nat /\ streak' \in Nat
           /\ retryIn' \in {0, 30, 60, 120, 240, 300}
           /\ disturbed' \in BOOLEAN,
           /\ status' \in StatusOf(setting') /\ saved' \in StatusOf(setting')
           /\ meta' \in [commit: Commits \cup {NotFound}, at: 0..setting'.moves],
           /\ running' \in BOOLEAN /\ tree' \in Commits \cup {NoClone, HalfMade, Broken}
           /\ errors' \in Nat /\ wait' \in {0, 30, 60, 120, 240, 300}
    PROVE  TypeOK'
BY DEF TypeOK, StatusOf

LEMMA InitTypeOK == Init => TypeOK
<1> SUFFICES ASSUME Init PROVE TypeOK
  OBVIOUS
<1>1. 0 \in 0..TokenLife /\ 0 \in 0..MountLag /\ 0 \in 0..Asleep
  BY TimeAssumption
<1>2. setting \in Settings /\ remote \in Remotes /\ 0 \in 0..setting.moves
  BY SettingParts DEF Init
<1>3. status \in StatusOf(setting) /\ saved \in StatusOf(setting)
  <2>1. [commit |-> NotFound, ok |-> FALSE, age |-> 0, at |-> 0] \in StatusOf(setting)
    BY <1>2 DEF StatusOf
  <2> QED BY <2>1 DEF Init
<1>4. meta \in [commit: Commits \cup {NotFound}, at: 0..setting.moves]
  BY <1>2 DEF Init
<1> QED BY <1>1, <1>2, <1>3, <1>4 DEF Init, TypeOK, StatusOf

LEMMA EnvironmentTypeOK ==
    ASSUME TypeOK, Environment
    PROVE  TypeOK'
<1>0. UNCHANGED agentVars
  BY DEF Environment, Tick, RemoteMoves, KubeletSync, OtherExchange, Crash
<1>1. CASE Tick
  <2>1. /\ cached' \in 0..TokenLife /\ stored' \in 0..TokenLife
        /\ mounted' \in 0..TokenLife /\ lag' \in 0..MountLag
    BY <1>1, TimeAssumption DEF Tick, TypeOK, Less
  <2>2. timer' \in 0..Asleep
    BY <1>1, TimeAssumption DEF Tick, TypeOK
  <2>3. ASSUME NEW s \in StatusOf(setting) PROVE Aged(s) \in StatusOf(setting)
    <3>1. Lesser(s.age + 1, setting.poll) \in Nat
      BY SettingParts DEF TypeOK, Lesser, StatusOf
    <3> QED BY <3>1 DEF Aged, StatusOf
  <2>4. setting' = setting /\ meta' = meta /\ pc' = pc /\ UNCHANGED retryVars
        /\ disturbed' = disturbed /\ UNCHANGED hostVars /\ took' \in BOOLEAN
    BY <1>1 DEF Tick, hostVars
  <2>5. status' \in StatusOf(setting') /\ saved' \in StatusOf(setting')
    <3>1. status \in StatusOf(setting) /\ saved \in StatusOf(setting)
      BY DEF TypeOK, StatusOf
    <3>2. status' = Aged(status) /\ saved' = Aged(saved)
      BY <1>1 DEF Tick
    <3> QED BY <2>3, <2>4, <3>1, <3>2
  <2> QED BY <1>0, <2>1, <2>2, <2>4, <2>5, HostType, AgentType DEF TypeOK, StatusOf, retryVars
<1>2. CASE RemoteMoves
  <2>1. /\ setting' = setting /\ remote' \in Remotes /\ moves' \in 0..setting'.moves
        /\ UNCHANGED <<tokenVars, recVars>>
    BY <1>2, SettingParts DEF RemoteMoves, TypeOK
  <2> QED BY <1>0, <2>1, TokenType, RecType, AgentType DEF TypeOK, StatusOf
<1>3. CASE KubeletSync
  <2>1. /\ mounted' \in 0..TokenLife /\ lag' \in 0..MountLag /\ disturbed' \in BOOLEAN
        /\ UNCHANGED <<hostVars, cached, stored, pc, took, timer, status, saved, meta, retryVars>>
    BY <1>3, TimeAssumption DEF KubeletSync, TypeOK
  <2> QED BY <1>0, <2>1, HostType, AgentType DEF TypeOK, retryVars
<1>4. CASE OtherExchange
  <2>1. cached' \in 0..TokenLife /\ UNCHANGED <<hostVars, stored, mounted, lag, recVars>>
    BY <1>4, TimeAssumption DEF OtherExchange
  <2> QED BY <1>0, <2>1, HostType, RecType, AgentType DEF TypeOK, StatusOf
<1>5. CASE Crash
  <2>1. /\ cached' = 0 /\ pc' = "idle" /\ took' = FALSE /\ timer' = 0
        /\ failures' = 0 /\ retryIn' = 0 /\ streak' = 0 /\ disturbed' \in BOOLEAN
        /\ status' = saved /\ UNCHANGED <<hostVars, stored, mounted, lag, saved, meta>>
    BY <1>5 DEF Crash, TypeOK
  <2>2. 0 \in 0..TokenLife /\ 0 \in 0..Asleep
    BY TimeAssumption
  <2>3. setting' = setting
    BY <2>1 DEF hostVars
  <2>4. /\ stored' \in 0..TokenLife /\ mounted' \in 0..TokenLife /\ lag' \in 0..MountLag
        /\ status' \in StatusOf(setting') /\ saved' \in StatusOf(setting')
        /\ meta' \in [commit: Commits \cup {NotFound}, at: 0..setting'.moves]
    BY <2>1, <2>3 DEF TypeOK, StatusOf
  <2> QED BY <1>0, <2>1, <2>2, <2>4, HostType, AgentType, TypeParts
<1> QED BY <1>1, <1>2, <1>3, <1>4, <1>5 DEF Environment

LEMMA ReconcileTypeOK ==
    ASSUME TypeOK, Reconcile
    PROVE  TypeOK'
<1>0. UNCHANGED <<hostVars, agentVars>>
  BY DEF Reconcile, ResolveFromStatus, ResolveFromRemote, SecretMissing, ResolveFails,
         ApiKeyMissing, Publish, PublishFails, Requeue, StatusPatchFails
<1>1. setting' = setting
  BY <1>0 DEF hostVars
<1>2. ASSUME Starts PROVE timer' \in 0..Asleep
  BY <1>2, TimeAssumption DEF Starts, TypeOK
<1>3. CASE ResolveFromStatus
  <2>1. /\ pc' = "resolved" /\ failures' = 0 /\ timer' \in 0..Asleep
        /\ UNCHANGED <<tokenVars, took, status, saved, meta, retryIn, streak, disturbed>>
    BY <1>2, <1>3 DEF ResolveFromStatus
  <2> QED BY <1>0, <1>1, <2>1, HostType, TokenType, AgentType DEF TypeOK
<1>4. CASE ResolveFromRemote
  <2>1. /\ pc' = "resolved" /\ failures' = 0 /\ timer' \in 0..Asleep
        /\ UNCHANGED <<stored, mounted, lag, took, saved, meta, retryIn, streak, disturbed>>
    BY <1>2, <1>4 DEF ResolveFromRemote
  <2>2. cached' \in 0..TokenLife
    BY <1>4, TokenUsedParts DEF ResolveFromRemote, CachedAfterUse, TypeOK
  <2>3. /\ MatchRef(remote, setting.ref) \in Commits \cup {NotFound}
        /\ (IF MatchRef(remote, setting.ref) = status.commit THEN status.age ELSE 0) \in Nat
    BY MatchRefType DEF TypeOK
  <2>4. status' \in [commit: Commits \cup {NotFound}, ok: BOOLEAN, age: Nat,
                     at: 0..setting'.moves]
    BY <1>1, <1>4, <2>3 DEF ResolveFromRemote, StatusAfter, TypeOK
  <2> QED BY <1>0, <1>1, <2>1, <2>2, <2>4, HostType, AgentType DEF TypeOK
<1>5. ASSUME NEW kind, NEW requested, RecordFailure(kind, requested),
             UNCHANGED <<stored, mounted, lag, meta>>, cached' \in 0..TokenLife,
             NEW s \in StatusOf(setting), PatchIgnored(s)
      PROVE  TypeOK'
  <2>1. /\ failures' \in Nat /\ streak' \in Nat
        /\ retryIn' \in {0, 30, 60, 120, 240, 300}
        /\ timer' \in 0..Asleep
        /\ pc' = "idle" /\ took' = FALSE /\ disturbed' = TRUE
    <3>1. /\ failures' \in Nat \ {0} /\ streak' \in Nat \ {0}
          /\ retryIn' \in {30, 60, 120, 240, 300}
          /\ timer' \in 0..Asleep
          /\ pc' = "idle" /\ took' = FALSE /\ disturbed' = TRUE
      BY <1>5, RecordFailureType
    <3> QED BY <3>1
  <2>2. /\ stored' \in 0..TokenLife /\ mounted' \in 0..TokenLife /\ lag' \in 0..MountLag
        /\ meta' \in [commit: Commits \cup {NotFound}, at: 0..setting'.moves]
    BY <1>1, <1>5 DEF TypeOK
  <2>3. status' \in StatusOf(setting') /\ saved' \in StatusOf(setting')
    BY <1>1, <1>5 DEF TypeOK, StatusOf, PatchIgnored
  <2> QED BY <1>0, <1>1, <1>5, <2>1, <2>2, <2>3, HostType, AgentType, TypeParts
<1>6. ASSUME NEW requested \in BOOLEAN, SecretMissing(requested)
      PROVE  TypeOK'
  <2>1. status \in StatusOf(setting)
    BY DEF TypeOK, StatusOf
  <2> QED BY <1>5, <1>6, <2>1 DEF SecretMissing, tokenVars, TypeOK
<1>7. ASSUME NEW requested \in BOOLEAN, ResolveFails(requested)
      PROVE  TypeOK'
  <2>1. cached' \in 0..TokenLife
    BY <1>7, TokenUsedParts DEF ResolveFails, CachedAfterUse, TypeOK
  <2>2. [status EXCEPT !.ok = FALSE] \in StatusOf(setting)
    BY DEF TypeOK, StatusOf
  <2> QED BY <1>5, <1>7, <2>1, <2>2 DEF ResolveFails
<1>8. ASSUME NEW requested \in BOOLEAN, ApiKeyMissing(requested)
      PROVE  TypeOK'
  <2>1. status \in StatusOf(setting)
    BY DEF TypeOK, StatusOf
  <2> QED BY <1>5, <1>8, <2>1 DEF ApiKeyMissing, tokenVars, TypeOK
<1>9. CASE Publish
  <2>1. /\ stored' \in 0..TokenLife /\ pc' = "published"
        /\ UNCHANGED <<cached, mounted, lag, took, timer, status, saved, retryVars, disturbed>>
    BY <1>9 DEF Publish, Published, TypeOK
  <2>2. meta' \in [commit: Commits \cup {NotFound}, at: 0..setting'.moves]
    BY <1>1, <1>9 DEF Publish, TypeOK
  <2> QED BY <1>0, <1>1, <2>1, <2>2, HostType, AgentType DEF TypeOK, retryVars
<1>10. CASE PublishFails
  <2>1. /\ stored' \in 0..TokenLife /\ pc' = "published" /\ disturbed' = TRUE
        /\ UNCHANGED <<cached, mounted, lag, took, timer, status, saved, meta, retryVars>>
    BY <1>10 DEF PublishFails, Published, TypeOK
  <2> QED BY <1>0, <1>1, <2>1, HostType, AgentType DEF TypeOK, retryVars
<1>11. CASE Requeue
  <2>1. RequeueInterval \in Nat
    BY SettingParts, TimeAssumption DEF RequeueInterval, Lesser, TypeOK
  <2>2. timer' \in 0..Asleep
    <3>1. timer \in Nat /\ timer <= Asleep
      BY TimeAssumption DEF TypeOK
    <3>2. timer' \in Nat /\ timer' <= timer
      BY <1>11, <2>1, <3>1, LesserParts DEF Requeue
    <3> QED BY <3>1, <3>2, TimeAssumption
  <2>3. /\ pc' = "idle" /\ took' = FALSE /\ disturbed' \in BOOLEAN
        /\ retryIn' = 0 /\ streak' = 0
        /\ saved' = status /\ UNCHANGED <<tokenVars, status, meta, failures>>
    BY <1>11 DEF Requeue, TypeOK
  <2>4. /\ failures' \in Nat
        /\ status' \in StatusOf(setting') /\ saved' \in StatusOf(setting')
        /\ meta' \in [commit: Commits \cup {NotFound}, at: 0..setting'.moves]
    BY <1>1, <2>3 DEF TypeOK, StatusOf
  <2> QED BY <1>0, <2>2, <2>3, <2>4, HostType, TokenType, AgentType, TypeParts
<1>12. CASE StatusPatchFails
  <2>1. /\ pc' = "idle" /\ took' = FALSE /\ timer' = 0 /\ disturbed' = TRUE
        /\ retryIn' = 0 /\ streak' = 0 /\ status' = saved
        /\ UNCHANGED <<tokenVars, saved, meta, failures>>
    BY <1>12 DEF StatusPatchFails
  <2>2. 0 \in 0..Asleep
    BY TimeAssumption
  <2>3. /\ failures' \in Nat
        /\ status' \in StatusOf(setting') /\ saved' \in StatusOf(setting')
        /\ meta' \in [commit: Commits \cup {NotFound}, at: 0..setting'.moves]
    BY <1>1, <2>1 DEF TypeOK, StatusOf
  <2> QED BY <1>0, <2>1, <2>2, <2>3, HostType, TokenType, AgentType, TypeParts
<1> QED BY <1>3, <1>4, <1>6, <1>7, <1>8, <1>9, <1>10, <1>11, <1>12 DEF Reconcile

LEMMA AgentStepTypeOK ==
    ASSUME TypeOK, AgentStep
    PROVE  TypeOK'
<1>1. UNCHANGED <<hostVars, tokenVars, recVars>> /\ setting' = setting
  BY DEF AgentStep, AgentStarts, CloneInterrupted, AgentRestarts, AgentSyncs, SyncFails,
         hostVars
<1>2. running' \in BOOLEAN /\ errors' \in Nat
  <2>1. running' \in BOOLEAN
    BY Zenon DEF AgentStep, AgentStarts, CloneInterrupted, AgentRestarts, AgentSyncs,
                 SyncFails, TypeOK
  <2>2. errors' \in {0, errors, errors + 1}
    BY Zenon DEF AgentStep, AgentStarts, CloneInterrupted, AgentRestarts, AgentSyncs,
                 SyncFails
  <2> QED BY <2>1, <2>2 DEF TypeOK
<1>3. tree' \in Commits \cup {NoClone, HalfMade, Broken}
  <2>1. CASE AgentStarts \/ AgentSyncs
    BY <2>1, CheckedOut DEF AgentStarts, AgentSyncs
  <2>2. CASE CloneInterrupted \/ AgentRestarts \/ SyncFails
    BY <2>2 DEF CloneInterrupted, AgentRestarts, SyncFails, TypeOK
  <2> QED BY <2>1, <2>2 DEF AgentStep
<1>4. wait' \in {0, 30, 60, 120, 240, 300}
  <2>1. ASSUME SyncFails PROVE wait' \in {0, 30, 60, 120, 240, 300}
    <3>1. errors' \in Nat \ {0}
      BY <2>1 DEF SyncFails, TypeOK
    <3> QED BY <2>1, <3>1, AgentDelays DEF SyncFails
  <2> QED BY <2>1 DEF AgentStep, AgentStarts, CloneInterrupted, AgentRestarts, AgentSyncs,
                      TypeOK
<1> QED BY <1>1, <1>2, <1>3, <1>4, HostType, TokenType, RecType DEF TypeOK, StatusOf

LEMMA NextTypeOK == TypeOK /\ [Next]_vars => TypeOK'
<1> SUFFICES ASSUME TypeOK, [Next]_vars PROVE TypeOK'
  OBVIOUS
<1>1. CASE UNCHANGED vars
  <2>1. UNCHANGED <<hostVars, tokenVars, recVars, agentVars>> /\ setting' = setting
    BY <1>1 DEF vars, hostVars
  <2> QED BY <2>1, HostType, TokenType, RecType, AgentType DEF TypeOK, StatusOf
<1> QED BY <1>1, EnvironmentTypeOK, ReconcileTypeOK, AgentStepTypeOK DEF Next

\* Token lives, timers, delays and counts stay in their ranges, for any settings and
\* any number of failures (gatewaysync_controller.go:294-331, 808-841, agent.go:332-340).
THEOREM TypeCorrect == Spec => []TypeOK
BY InitTypeOK, NextTypeOK, PTL DEF Spec

---------------------------------------------------------------------------
(* Delays after failures in a row.                                         *)

\* Where the gateway's API key may be missing, this happens at most once in a row:
\* the check follows the resolution of the ref, which has reset the count.
ApiKeyOnce == \A s \in Settings : "apiSecret" \in s.kinds => s.failures <= 1

\* The count in the backoff map is the length of the streak, except within a
\* reconcile that has resolved the ref: then it is zero, and only the check of the
\* API key can still fail.
DelayInv ==
    /\ TypeOK
    /\ pc = "idle" => failures = streak
    /\ pc # "idle" => failures = 0
    /\ streak <= setting.failures
    /\ retryIn = Documented(streak)
    /\ errors < 30 => wait = Documented(errors)

LEMMA InitDelayInv == Init => DelayInv
<1> SUFFICES ASSUME Init PROVE DelayInv
  OBVIOUS
<1>1. setting.failures \in Nat
  BY SettingAssumption DEF Init
<1>2. Documented(0) = 0
  BY DEF Documented
<1> QED BY <1>1, <1>2, InitTypeOK DEF Init, DelayInv

\* A failed reconcile records a streak of one more, or of one.
LEMMA RecordFailureDelayInv ==
    ASSUME DelayInv, ApiKeyOnce, NEW kind, NEW requested, RecordFailure(kind, requested),
           kind = "apiSecret" => "apiSecret" \in setting.kinds /\ pc # "idle",
           kind # "apiSecret" => pc = "idle", TypeOK', UNCHANGED <<setting, errors, wait>>
    PROVE  DelayInv'
<1>1. failures' = streak'
  <2>1. CASE kind = "apiSecret"
    <3>1. setting.failures <= 1 /\ setting.failures \in Nat
      BY <2>1, SettingAssumption DEF ApiKeyOnce, DelayInv, TypeOK
    <3>2. streak = 0
      BY <3>1 DEF RecordFailure, DelayInv, TypeOK
    <3> QED BY <2>1, <3>2 DEF RecordFailure, Recorded
  <2>2. CASE kind # "apiSecret"
    BY <2>2 DEF RecordFailure, Recorded, DelayInv
  <2> QED BY <2>1, <2>2
<1>2. streak' \in Nat \ {0}
  BY RecordFailureType DEF DelayInv
<1>3. retryIn' = Documented(streak')
  BY <1>1, <1>2, ControllerDelaysAsDocumented DEF RecordFailure
<1>4. streak' <= setting'.failures
  <2>1. setting.failures \in Nat /\ setting' = setting
    BY SettingAssumption DEF DelayInv, TypeOK
  <2> QED BY <2>1 DEF RecordFailure, DelayInv, TypeOK
<1>5. pc' = "idle"
  BY DEF RecordFailure
<1> QED BY <1>1, <1>3, <1>4, <1>5 DEF DelayInv

LEMMA NextDelayInv == ApiKeyOnce /\ DelayInv /\ [Next]_vars => DelayInv'
<1> SUFFICES ASSUME ApiKeyOnce, DelayInv, [Next]_vars PROVE DelayInv'
  OBVIOUS
<1>1. TypeOK'
  BY NextTypeOK DEF DelayInv
<1>2. setting.failures \in Nat
  BY SettingAssumption DEF DelayInv, TypeOK
<1>3. ASSUME UNCHANGED <<setting, pc, retryVars, errors, wait>>
      PROVE  DelayInv'
  BY <1>1, <1>3 DEF DelayInv, retryVars
<1>4. CASE UNCHANGED vars
  BY <1>3, <1>4 DEF vars, hostVars, recVars, agentVars
<1>5. CASE Tick \/ RemoteMoves \/ KubeletSync \/ OtherExchange
  BY <1>3, <1>5 DEF Tick, RemoteMoves, KubeletSync, OtherExchange, hostVars, recVars,
                    agentVars
<1>6. CASE Crash
  <2>1. Documented(0) = 0
    BY DEF Documented
  <2> QED BY <1>1, <1>2, <1>6, <2>1 DEF Crash, DelayInv, hostVars, agentVars
<1>7. CASE ResolveFromStatus \/ ResolveFromRemote
  BY <1>1, <1>7 DEF ResolveFromStatus, ResolveFromRemote, DelayInv, hostVars, agentVars
<1>8. ASSUME NEW requested \in BOOLEAN,
             SecretMissing(requested) \/ ResolveFails(requested) \/ ApiKeyMissing(requested)
      PROVE  DelayInv'
  <2>1. CASE SecretMissing(requested)
    BY <1>1, <2>1, RecordFailureDelayInv DEF SecretMissing, hostVars, agentVars
  <2>2. CASE ResolveFails(requested)
    BY <1>1, <2>2, RecordFailureDelayInv DEF ResolveFails, hostVars, agentVars
  <2>3. CASE ApiKeyMissing(requested)
    BY <1>1, <2>3, RecordFailureDelayInv DEF ApiKeyMissing, hostVars, agentVars
  <2> QED BY <1>8, <2>1, <2>2, <2>3
<1>9. CASE Publish \/ PublishFails
  BY <1>1, <1>9 DEF Publish, PublishFails, DelayInv, hostVars, agentVars, retryVars
<1>10. CASE Requeue \/ StatusPatchFails
  <2>1. Documented(0) = 0
    BY DEF Documented
  <2> QED BY <1>1, <1>2, <1>10, <2>1
          DEF Requeue, StatusPatchFails, DelayInv, hostVars, agentVars
<1>11. CASE AgentStarts \/ CloneInterrupted
  BY <1>3, <1>11 DEF AgentStarts, CloneInterrupted, hostVars, recVars
<1>12. CASE AgentRestarts \/ AgentSyncs
  <2>1. Documented(0) = 0
    BY DEF Documented
  <2> QED BY <1>1, <1>12, <2>1
          DEF AgentRestarts, AgentSyncs, DelayInv, hostVars, recVars, retryVars
<1>13. CASE SyncFails
  <2>1. errors' \in Nat \ {0}
    BY <1>13 DEF SyncFails, DelayInv, TypeOK
  <2>2. errors' < 30 => wait' = Documented(errors')
    BY <1>13, <2>1, AgentDelays DEF SyncFails
  <2>3. UNCHANGED <<setting, pc, failures, retryIn, streak>>
    BY <1>13 DEF SyncFails, hostVars, recVars, retryVars
  <2> QED BY <1>1, <2>2, <2>3 DEF DelayInv
<1> QED BY <1>4, <1>5, <1>6, <1>7, <1>8, <1>9, <1>10, <1>11, <1>12, <1>13
        DEF Next, Environment, Reconcile, AgentStep

\* After any number of failures in a row the next reconcile, and the next sync up to
\* the agent's 29th, are delayed as documented, through restarts, requested refs and
\* successes in between (gatewaysync_controller.go:109-113, 159-217, 296-331,
\* agent.go:333-377).
THEOREM DelaysAsDocumentedHolds ==
    ASSUME ApiKeyOnce
    PROVE  Spec => []DelaysAsDocumented
<1>1. DelayInv => DelaysAsDocumented
  BY DEF DelayInv, DelaysAsDocumented
<1>2. DelayInv /\ [Next]_vars => DelayInv'
  BY NextDelayInv
<1> QED BY <1>1, <1>2, InitDelayInv, PTL DEF Spec

---------------------------------------------------------------------------
(* The token in the agent's mount.                                         *)

\* Ticks from the moment a cached token may no longer be used until the next
\* reconcile has stored its successor, at worst: without polling the reconcile that
\* the timer is for, with polling two of them, since the first may answer from a
\* status that is just not old enough; and a tick within each that is slow.
Window(s) ==
    IF s.poll = 0 THEN 1 ELSE 2 * s.poll - 1 + (IF s.slow THEN 2 ELSE 0)

\* Without polling no tick passes within a reconcile, for an app.
Punctual ==
    \A s \in Settings : s.auth = "githubApp" /\ s.poll = 0 => ~s.slow

\* The buffer is longer than that window and the kubelet's lag.
Prompt ==
    /\ Punctual
    /\ \A s \in Settings : s.auth = "githubApp" => Window(s) + MountLag <= Buffer

\* A tick that a reconcile may take, and the one that it may still take.
Slack == IF setting.slow THEN 1 ELSE 0
SlackLeft == IF setting.slow /\ ~took THEN 1 ELSE 0

\* Ticks until the next token is stored, at most.
Due ==
    IF status.age < setting.poll THEN 2 * setting.poll - 1 - status.age + 2 * Slack
    ELSE IF pc = "idle" THEN timer + Slack
    ELSE setting.poll + Slack + SlackLeft

\* Ticks that a token needs when its successor is stored.
Enough == MountLag + 1

\* Cache, Secret and mount follow each other.
Order ==
    /\ cached = 0 \/ stored <= cached
    /\ mounted <= stored
    /\ took => pc # "idle" /\ setting.slow
    /\ setting.poll > 0 /\ took => status.age > 0
    /\ pc # "idle" => status.ok
    /\ pc = "idle" => status = saved
    /\ streak > 0 => disturbed
    /\ pc = "idle" /\ streak = 0 /\ ~status.ok => timer = 0
    /\ ~disturbed => stored = mounted \/ mounted + lag >= Enough

\* With polling: the stored token lasts until the next one is, or this reconcile is
\* about to store one with the buffer left.
Polling ==
    setting.poll > 0 =>
        /\ pc = "idle" /\ streak = 0 => timer <= setting.poll
        /\ ~disturbed =>
              \/ stored >= Enough + Due
              \/ /\ pc = "resolved"
                 /\ took => cached >= Buffer
                 /\ ~took => cached > Buffer
                 /\ stored >= Enough + SlackLeft

\* Without: the timer ends when the cached token has only the buffer left.
NoPolling ==
    setting.poll = 0 =>
        /\ pc # "idle" => cached > Buffer
        /\ pc = "resolved" /\ ~disturbed => stored >= Enough
        /\ pc = "published" /\ ~disturbed => stored = cached
        /\ pc = "idle" /\ streak = 0 => timer = 0 \/ timer + Buffer <= cached
        /\ pc = "idle" /\ ~disturbed => stored >= Enough + timer

TokenInv == TypeOK /\ (App => Order /\ Polling /\ NoPolling)

\* The numbers in a setting with an app.
LEMMA PromptParts ==
    ASSUME TypeOK, App, Prompt
    PROVE  /\ setting.poll \in Nat /\ setting.slow \in BOOLEAN /\ setting.poll < Asleep
           /\ setting.poll = 0 => ~setting.slow /\ 1 + MountLag <= Buffer
           /\ setting.poll > 0 => 2 * setting.poll - 1 + 2 * Slack + MountLag <= Buffer
           /\ Slack \in {0, 1} /\ SlackLeft \in 0..Slack
           /\ TokenLife \in Nat /\ Buffer \in Nat /\ MountLag \in Nat /\ Asleep \in Nat
           /\ Buffer < TokenLife /\ TokenLife < Asleep
           /\ status.age \in Nat /\ cached \in Nat /\ stored \in Nat /\ mounted \in Nat
           /\ lag \in Nat /\ timer \in Nat /\ streak \in Nat
           /\ cached <= TokenLife /\ timer <= Asleep /\ lag <= MountLag
<1>1. /\ setting \in Settings /\ setting.poll \in Nat /\ setting.slow \in BOOLEAN
      /\ setting.poll < Asleep
  BY SettingParts, TimeAssumption DEF TypeOK
<1>2. Slack \in {0, 1} /\ SlackLeft \in 0..Slack
  BY DEF Slack, SlackLeft
<1>3. Window(setting) + MountLag <= Buffer /\ (setting.poll = 0 => ~setting.slow)
  BY <1>1 DEF Prompt, Punctual, App
<1>4. setting.poll > 0 => Window(setting) = 2 * setting.poll - 1 + 2 * Slack
  BY <1>1 DEF Window, Slack
<1>5. setting.poll = 0 => Window(setting) = 1
  BY DEF Window
<1>6. /\ TokenLife \in Nat /\ Buffer \in Nat /\ MountLag \in Nat /\ Asleep \in Nat
      /\ Buffer < TokenLife /\ TokenLife < Asleep
  BY TimeAssumption
<1> QED BY <1>1, <1>2, <1>3, <1>4, <1>5, <1>6 DEF TypeOK

LEMMA InitTokenInv == Init => TokenInv
<1> SUFFICES ASSUME Init PROVE TokenInv
  OBVIOUS
<1>1. setting.poll \in Nat
  BY SettingParts DEF Init
<1> QED BY <1>1, InitTypeOK DEF Init, TokenInv, Order, Polling, NoPolling

\* A tick brings every token, and the time of the next reconcile, one closer to its end.
LEMMA TickTokenInv ==
    ASSUME TokenInv, App, Prompt, Tick
    PROVE  (Order /\ Polling /\ NoPolling)'
<1> DEFINE P == setting.poll
<1>1. TypeOK /\ Order /\ Polling /\ NoPolling
  BY DEF TokenInv
<1>2. /\ setting' = setting /\ pc' = pc /\ streak' = streak /\ disturbed' = disturbed
      /\ timer # 0 /\ took' = (pc # "idle")
      /\ pc = "idle" \/ (setting.slow /\ ~took)
      /\ timer' = IF timer = Asleep THEN Asleep ELSE timer - 1
  BY DEF Tick, hostVars, retryVars
<1>3. /\ cached' = IF cached = 0 THEN 0 ELSE cached - 1
      /\ stored' = IF stored = 0 THEN 0 ELSE stored - 1
      /\ mounted' = IF mounted = 0 THEN 0 ELSE mounted - 1
      /\ lag' = IF stored' = mounted' THEN 0 ELSE lag + 1
  BY DEF Tick, Less
<1>4. /\ status'.ok = status.ok
      /\ status'.age = IF status.age + 1 <= P THEN status.age + 1 ELSE P
      /\ status = saved => status' = saved'
  BY <1>1 DEF Tick, Aged, TypeOK, Lesser
<1>5. Order'
  <2>1. (cached = 0 \/ stored <= cached)' /\ (mounted <= stored)'
    BY <1>1, <1>3, PromptParts DEF Order
  <2>2. /\ took' => pc' # "idle" /\ setting'.slow
        /\ setting'.poll > 0 /\ took' => status'.age > 0
    <3>1. took' => pc # "idle"
      BY <1>2, Zenon
    <3> QED BY <1>1, <1>2, <1>4, <3>1, PromptParts
  <2>3. /\ pc' # "idle" => status'.ok
        /\ pc' = "idle" => status' = saved'
        /\ streak' > 0 => disturbed'
        /\ pc' = "idle" /\ streak' = 0 /\ ~status'.ok => timer' = 0
    BY <1>1, <1>2, <1>4 DEF Order
  <2>4. ~disturbed' => (stored = mounted \/ mounted + lag >= Enough)'
    BY <1>1, <1>2, <1>3, PromptParts DEF Order, Enough
  <2> QED BY <2>1, <2>2, <2>3, <2>4 DEF Order
<1>6. Polling'
  BY <1>1, <1>2, <1>3, <1>4, PromptParts DEF Order, Polling, Due, Slack, SlackLeft, Enough
<1>7. NoPolling'
  BY <1>1, <1>2, <1>3, <1>4, PromptParts DEF Order, NoPolling, Enough
<1> QED BY <1>5, <1>6, <1>7

\* The kubelet brings the stored token: undisturbed from now on if it is the cached one.
LEMMA KubeletSyncTokenInv ==
    ASSUME TokenInv, App, Prompt, KubeletSync
    PROVE  (Order /\ Polling /\ NoPolling)'
<1>1. TypeOK /\ Order /\ Polling /\ NoPolling
  BY DEF TokenInv
<1>2. /\ setting' = setting /\ cached' = cached /\ stored' = stored /\ mounted' = stored
      /\ lag' = 0 /\ pc' = pc /\ took' = took /\ timer' = timer /\ status' = status
      /\ streak' = streak /\ saved' = saved
  BY DEF KubeletSync, hostVars, retryVars
<1>3. disturbed' = (disturbed /\ (streak > 0 \/ stored <= Buffer \/ stored # cached))
  BY DEF KubeletSync
<1>4. ~disturbed' => ~disturbed \/ (streak = 0 /\ stored > Buffer /\ stored = cached)
  <2>1. ~disturbed' => ~disturbed \/ (~(streak > 0) /\ ~(stored <= Buffer) /\ stored = cached)
    BY <1>3, Zenon
  <2> QED BY <1>1, <2>1, PromptParts
<1>5. Order'
  BY <1>1, <1>2, <1>3, <1>4, PromptParts DEF Order, Enough
<1>6. Polling'
  BY <1>1, <1>2, <1>4, PromptParts DEF Order, Polling, Due, Slack, SlackLeft, Enough
<1>7. NoPolling'
  BY <1>1, <1>2, <1>4, PromptParts DEF Order, NoPolling, Enough
<1> QED BY <1>5, <1>6, <1>7

\* Another CR's exchange only makes the cached token younger.
LEMMA OtherExchangeTokenInv ==
    ASSUME TokenInv, App, Prompt, OtherExchange
    PROVE  (Order /\ Polling /\ NoPolling)'
<1>1. TypeOK /\ Order /\ Polling /\ NoPolling
  BY DEF TokenInv
<1>2. /\ setting' = setting /\ cached' = TokenLife /\ cached <= Buffer
      /\ stored' = stored /\ mounted' = mounted
      /\ lag' = lag /\ pc' = pc /\ took' = took /\ timer' = timer /\ status' = status
      /\ streak' = streak /\ disturbed' = disturbed /\ saved' = saved
  BY DEF OtherExchange, hostVars, recVars, retryVars
<1>3. stored <= TokenLife
  BY <1>1, TimeAssumption DEF TypeOK
<1>5. Order'
  BY <1>1, <1>2, <1>3, PromptParts DEF Order, Enough
<1>6. Polling'
  BY <1>1, <1>2, PromptParts DEF Order, Polling, Due, Slack, SlackLeft, Enough
<1>7. NoPolling'
  BY <1>1, <1>2, PromptParts DEF Order, NoPolling, Enough
<1> QED BY <1>5, <1>6, <1>7

\* A restart reconciles at once.
LEMMA CrashTokenInv ==
    ASSUME TokenInv, App, Prompt, Crash
    PROVE  (Order /\ Polling /\ NoPolling)'
<1>1. TypeOK /\ Order /\ Polling /\ NoPolling
  BY DEF TokenInv
<1>2. /\ setting' = setting /\ cached' = 0 /\ stored' = stored /\ mounted' = mounted
      /\ lag' = lag /\ pc' = "idle" /\ took' = FALSE /\ timer' = 0 /\ status' = saved
      /\ streak' = 0 /\ saved' = saved
  BY DEF Crash, hostVars
<1>3. disturbed' = (disturbed \/ pc # "idle")
  BY DEF Crash
<1>4. ~disturbed' => ~disturbed /\ pc = "idle" /\ status' = status
  BY <1>1, <1>2, <1>3 DEF Order
<1>5. Order'
  BY <1>1, <1>2, <1>4, PromptParts DEF Order, Enough
<1>6. Polling'
  BY <1>1, <1>2, <1>4, PromptParts DEF Order, Polling, Due, Slack, SlackLeft, Enough
<1>7. NoPolling'
  BY <1>1, <1>2, <1>4, PromptParts DEF Order, NoPolling, Enough
<1> QED BY <1>5, <1>6, <1>7

\* A reconcile that answers from the status leaves a due date that counts its age.
LEMMA ResolveFromStatusTokenInv ==
    ASSUME TokenInv, App, Prompt, ResolveFromStatus
    PROVE  (Order /\ Polling /\ NoPolling)'
<1>1. TypeOK /\ Order /\ Polling /\ NoPolling
  BY DEF TokenInv
<1>2. /\ setting' = setting /\ cached' = cached /\ stored' = stored /\ mounted' = mounted
      /\ lag' = lag /\ pc = "idle" /\ pc' = "resolved" /\ took' = took /\ status' = status
      /\ streak' = streak /\ disturbed' = disturbed
      /\ status.ok /\ status.age < setting.poll
  BY DEF ResolveFromStatus, Starts, Reusable, hostVars, tokenVars
<1>5. Order'
  BY <1>1, <1>2, PromptParts DEF Order, Enough
<1>6. Polling'
  BY <1>1, <1>2, PromptParts DEF Order, Polling, Due, Slack, SlackLeft, Enough
<1>7. NoPolling'
  BY <1>1, <1>2, PromptParts DEF NoPolling
<1> QED BY <1>5, <1>6, <1>7

\* One that asks the remote has a token with the buffer left.
LEMMA ResolveFromRemoteTokenInv ==
    ASSUME TokenInv, App, Prompt, ResolveFromRemote
    PROVE  (Order /\ Polling /\ NoPolling)'
<1>1. TypeOK /\ Order /\ Polling /\ NoPolling
  BY DEF TokenInv
<1>2. /\ setting' = setting /\ stored' = stored /\ mounted' = mounted
      /\ lag' = lag /\ pc = "idle" /\ pc' = "resolved" /\ took' = took
      /\ streak' = streak /\ disturbed' = disturbed
      /\ ~(status.ok /\ status.age < setting.poll)
  BY DEF ResolveFromRemote, Starts, Reusable, hostVars
<1>3. cached' = TokenUsed(cached)
  BY DEF ResolveFromRemote, CachedAfterUse
<1>4. cached' \in Nat /\ cached' > Buffer /\ stored <= cached'
  BY <1>1, <1>3, PromptParts DEF Order, TokenUsed, TypeOK
<1>5. status'.ok = TRUE
  BY DEF ResolveFromRemote, StatusAfter
<1>6. Order'
  BY <1>1, <1>2, <1>4, <1>5, PromptParts DEF Order, Enough
<1>7. setting.poll > 0 /\ ~disturbed => stored >= Enough + SlackLeft /\ ~took
  BY <1>1, <1>2, PromptParts DEF Order, Polling, Due, Slack, SlackLeft, Enough
<1>8. Polling'
  BY <1>1, <1>2, <1>4, <1>7, PromptParts DEF Polling, SlackLeft, Enough, Order
<1>9. NoPolling'
  BY <1>1, <1>2, <1>4, PromptParts DEF NoPolling, Enough
<1> QED BY <1>6, <1>8, <1>9

\* A failure disturbs.
LEMMA FailureTokenInv ==
    ASSUME TokenInv, App, Prompt, NEW kind, NEW requested, RecordFailure(kind, requested),
           UNCHANGED <<setting, stored, mounted, lag>>,
           cached' \in {cached, CachedAfterUse}, status' = saved'
    PROVE  (Order /\ Polling /\ NoPolling)'
<1>1. TypeOK /\ Order /\ Polling /\ NoPolling
  BY DEF TokenInv
<1>2. streak' \in Nat \ {0} /\ pc' = "idle" /\ took' = FALSE /\ disturbed' = TRUE
  BY <1>1, RecordFailureType
<1>3. cached' = 0 \/ stored <= cached'
  <2>1. TokenUsed(cached) \in Nat /\ TokenUsed(cached) >= cached
        /\ TokenUsed(cached) >= stored
    BY <1>1, PromptParts DEF Order, TokenUsed, TypeOK
  <2> QED BY <1>1, <2>1 DEF Order, CachedAfterUse
<1>4. mounted' <= stored'
  BY <1>1 DEF Order
<1>5. Order'
  BY <1>2, <1>3, <1>4 DEF Order
<1>6. Polling' /\ NoPolling'
  BY <1>2 DEF Polling, NoPolling
<1> QED BY <1>5, <1>6

\* The cached token is stored.
LEMMA PublishTokenInv ==
    ASSUME TokenInv, App, Prompt, Publish
    PROVE  (Order /\ Polling /\ NoPolling)'
<1>1. TypeOK /\ Order /\ Polling /\ NoPolling
  BY DEF TokenInv
<1>2. /\ setting' = setting /\ cached' = cached /\ mounted' = mounted
      /\ lag' = lag /\ pc = "resolved" /\ pc' = "published" /\ took' = took
      /\ timer' = timer /\ status' = status /\ streak' = streak /\ disturbed' = disturbed
      /\ stored' = IF cached > 0 THEN cached ELSE stored
  BY DEF Publish, Published, hostVars, retryVars
<1>3. stored' >= stored /\ stored' \in Nat
  BY <1>1, <1>2, PromptParts DEF Order
<1>4. Order'
  <2>1. ~disturbed => mounted + lag >= Enough
    BY <1>1, <1>2, PromptParts
       DEF Order, Polling, NoPolling, Due, Slack, SlackLeft, Enough
  <2> QED BY <1>1, <1>2, <1>3, <2>1, PromptParts DEF Order, Enough
<1>5. Polling'
  BY <1>1, <1>2, <1>3, PromptParts DEF Order, Polling, Due, Slack, SlackLeft, Enough
<1>6. NoPolling'
  BY <1>1, <1>2, PromptParts DEF NoPolling
<1> QED BY <1>4, <1>5, <1>6

\* Or it is not, which disturbs.
LEMMA PublishFailsTokenInv ==
    ASSUME TokenInv, App, Prompt, PublishFails
    PROVE  (Order /\ Polling /\ NoPolling)'
<1>1. TypeOK /\ Order /\ Polling /\ NoPolling
  BY DEF TokenInv
<1>2. /\ setting' = setting /\ cached' = cached /\ mounted' = mounted
      /\ lag' = lag /\ pc = "resolved" /\ pc' = "published" /\ took' = took
      /\ timer' = timer /\ status' = status /\ streak' = streak /\ disturbed' = TRUE
      /\ stored' \in {stored, IF cached > 0 THEN cached ELSE stored}
  BY DEF PublishFails, Published, hostVars, retryVars
<1>3. stored' >= stored /\ stored' \in Nat /\ (cached = 0 \/ stored' <= cached)
  BY <1>1, <1>2, PromptParts DEF Order
<1>4. Order'
  BY <1>1, <1>2, <1>3, PromptParts DEF Order
<1>5. Polling' /\ NoPolling'
  BY <1>1, <1>2 DEF Polling, NoPolling
<1> QED BY <1>4, <1>5

\* The reconcile ends and names the next one's time.
LEMMA RequeueTokenInv ==
    ASSUME TokenInv, App, Prompt, Requeue
    PROVE  (Order /\ Polling /\ NoPolling)'
<1>1. TypeOK /\ Order /\ Polling /\ NoPolling
  BY DEF TokenInv
<1>2. /\ setting' = setting /\ cached' = cached /\ stored' = stored /\ mounted' = mounted
      /\ lag' = lag /\ pc = "published" /\ pc' = "idle" /\ took' = FALSE
      /\ status' = status /\ saved' = status /\ streak' = 0
  BY DEF Requeue, hostVars, tokenVars
<1>3. disturbed' = (disturbed /\ (mounted <= Buffer \/ stored # cached))
  BY DEF Requeue
<1>4. ~disturbed' => ~disturbed \/ (mounted > Buffer /\ stored = cached)
  <2>1. ~disturbed' => ~disturbed \/ (~(mounted <= Buffer) /\ stored = cached)
    BY <1>3, Zenon
  <2> QED BY <1>1, <2>1, PromptParts
<1>5. /\ timer' \in Nat
      /\ setting.poll > 0 => timer' <= setting.poll
      /\ setting.poll = 0 /\ cached > Buffer => timer' + Buffer <= cached
  BY <1>1, PromptParts DEF Requeue, RequeueInterval, Lesser
<1>6. Order'
  BY <1>1, <1>2, <1>3, <1>4, PromptParts DEF Order, Enough
<1>7. Polling'
  BY <1>1, <1>2, <1>4, <1>5, PromptParts
     DEF Order, Polling, Due, Slack, SlackLeft, Enough
<1>8. NoPolling'
  BY <1>1, <1>2, <1>4, <1>5, PromptParts DEF Order, NoPolling, Enough
<1> QED BY <1>6, <1>7, <1>8

\* Its last patch fails, which disturbs, and it is repeated at once.
LEMMA StatusPatchFailsTokenInv ==
    ASSUME TokenInv, App, Prompt, StatusPatchFails
    PROVE  (Order /\ Polling /\ NoPolling)'
<1>1. TypeOK /\ Order /\ Polling /\ NoPolling
  BY DEF TokenInv
<1>2. /\ setting' = setting /\ cached' = cached /\ stored' = stored /\ mounted' = mounted
      /\ lag' = lag /\ pc' = "idle" /\ took' = FALSE /\ timer' = 0
      /\ status' = saved /\ saved' = saved /\ streak' = 0 /\ disturbed' = TRUE
  BY DEF StatusPatchFails, hostVars, tokenVars
<1>3. Order'
  BY <1>1, <1>2, PromptParts DEF Order
<1>4. Polling' /\ NoPolling'
  BY <1>2, PromptParts, <1>1 DEF Polling, NoPolling
<1> QED BY <1>3, <1>4

LEMMA NextTokenInv == Prompt /\ TokenInv /\ [Next]_vars => TokenInv'
<1> SUFFICES ASSUME Prompt, TokenInv, [Next]_vars, App' PROVE (Order /\ Polling /\ NoPolling)'
  BY NextTypeOK DEF TokenInv
<1>1. setting' = setting
  BY DEF Next, Environment, Reconcile, AgentStep, Tick, RemoteMoves, KubeletSync,
         OtherExchange, Crash, ResolveFromStatus, ResolveFromRemote, SecretMissing,
         ResolveFails, ApiKeyMissing, Publish, PublishFails, Requeue, StatusPatchFails,
         AgentStarts, CloneInterrupted, AgentRestarts, AgentSyncs, SyncFails, hostVars, vars
<1>2. App
  BY <1>1 DEF App
<1>3. ASSUME UNCHANGED <<tokenVars, recVars>>
      PROVE  (Order /\ Polling /\ NoPolling)'
  BY <1>1, <1>2, <1>3 DEF TokenInv, Order, Polling, NoPolling, Due, Slack, SlackLeft,
     tokenVars, recVars, retryVars
<1>4. CASE UNCHANGED vars
  BY <1>3, <1>4 DEF vars
<1>5. CASE Environment
  BY <1>2, <1>3, <1>5, TickTokenInv, KubeletSyncTokenInv, OtherExchangeTokenInv,
     CrashTokenInv DEF Environment, RemoteMoves
<1>6. CASE Reconcile
  <2>1. ASSUME NEW requested \in BOOLEAN,
               SecretMissing(requested) \/ ResolveFails(requested) \/ ApiKeyMissing(requested)
        PROVE  (Order /\ Polling /\ NoPolling)'
    <3>1. PICK kind : RecordFailure(kind, requested)
      BY <2>1 DEF SecretMissing, ResolveFails, ApiKeyMissing
    <3>2. /\ UNCHANGED <<setting, stored, mounted, lag>>
          /\ cached' \in {cached, CachedAfterUse} /\ status' = saved'
      BY <1>1, <2>1 DEF SecretMissing, ResolveFails, ApiKeyMissing, PatchIgnored, tokenVars
    <3> QED BY <1>2, <3>1, <3>2, FailureTokenInv
  <2> QED BY <1>2, <1>6, <2>1, ResolveFromStatusTokenInv, ResolveFromRemoteTokenInv,
             PublishTokenInv, PublishFailsTokenInv, RequeueTokenInv,
             StatusPatchFailsTokenInv DEF Reconcile
<1>7. CASE AgentStep
  BY <1>3, <1>7 DEF AgentStep, AgentStarts, CloneInterrupted, AgentRestarts, AgentSyncs,
                    SyncFails
<1> QED BY <1>4, <1>5, <1>6, <1>7 DEF Next

\* If the buffer is longer than the window and the kubelet's lag, the token in the
\* agent's mount has not expired as long as the reconciles succeed: for any polling
\* interval, any life of tokens, restarts, other CRs and slow reconciles
\* (gatewaysync_controller.go:466-475, 504-542, 654-667, 808-841).
THEOREM AgentTokenValidHolds ==
    ASSUME Prompt
    PROVE  Spec => []AgentTokenValid
<1>1. TokenInv => AgentTokenValid
  <2> SUFFICES ASSUME TokenInv, App, ~disturbed PROVE mounted > 0
    BY DEF AgentTokenValid
  <2>1. TypeOK /\ Order /\ Polling /\ NoPolling
    BY DEF TokenInv
  <2>2. stored >= Enough /\ Enough > 0 /\ Enough > lag
    BY <2>1, PromptParts DEF Polling, NoPolling, Due, Slack, SlackLeft, Enough, TypeOK, Order
  <2> QED BY <2>1, <2>2, PromptParts DEF Order, Enough
<1>2. TokenInv /\ [Next]_vars => TokenInv'
  BY NextTokenInv
<1> QED BY <1>1, <1>2, InitTokenInv, PTL DEF Spec

---------------------------------------------------------------------------
(* The next reconcile.                                                     *)

\* A reconcile without polling ends with a token that has more than the buffer left,
\* from which requeueInterval computes a time; every other end of one names a time
\* anyway.
AwakeInv ==
    /\ TypeOK
    /\ App /\ setting.poll = 0 /\ pc # "idle" => cached > Buffer
    /\ NeverAsleep

LEMMA InitAwakeInv == Init => AwakeInv
BY InitTypeOK, TimeAssumption DEF Init, AwakeInv, NeverAsleep

LEMMA NextAwakeInv == Punctual /\ AwakeInv /\ [Next]_vars => AwakeInv'
<1> SUFFICES ASSUME Punctual, AwakeInv, [Next]_vars PROVE AwakeInv'
  OBVIOUS
<1> DEFINE Renewed == App /\ setting.poll = 0 /\ pc # "idle" => cached > Buffer
<1>1. TypeOK' /\ TypeOK /\ Renewed /\ NeverAsleep
  BY NextTypeOK DEF AwakeInv
<1> SUFFICES Renewed' /\ NeverAsleep'
  BY <1>1 DEF AwakeInv
<1>2. /\ TokenLife \in Nat /\ Buffer \in Nat /\ Asleep \in Nat
      /\ Buffer < TokenLife /\ TokenLife < Asleep
      /\ setting.poll \in Nat /\ setting.poll < Asleep
      /\ App /\ setting.poll = 0 => ~setting.slow
      /\ cached \in 0..TokenLife /\ timer \in 0..Asleep
  BY <1>1, SettingParts, TimeAssumption DEF TypeOK, Punctual, App
<1>3. ASSUME UNCHANGED <<setting, cached, pc, timer>> PROVE Renewed' /\ NeverAsleep'
  BY <1>1, <1>3 DEF App, NeverAsleep
<1>4. CASE UNCHANGED vars
  BY <1>3, <1>4 DEF vars, hostVars, tokenVars, recVars
<1>5. CASE Tick
  <2>1. setting' = setting /\ pc' = pc
    BY <1>5 DEF Tick, hostVars
  <2>2. Renewed'
    BY <1>1, <1>2, <1>5, <2>1 DEF Tick, App
  <2>3. NeverAsleep'
    BY <1>1, <1>2, <1>5, <2>1 DEF Tick, NeverAsleep, App
  <2> QED BY <2>2, <2>3
<1>6. CASE RemoteMoves \/ KubeletSync
  BY <1>3, <1>6 DEF RemoteMoves, KubeletSync, hostVars, tokenVars, recVars
<1>7. CASE OtherExchange
  BY <1>1, <1>2, <1>7 DEF OtherExchange, hostVars, recVars, NeverAsleep, App
<1>8. CASE Crash
  BY <1>2, <1>8 DEF Crash, NeverAsleep
<1>9. CASE ResolveFromStatus
  BY <1>1, <1>2, <1>9 DEF ResolveFromStatus, Reusable, hostVars, NeverAsleep, App, TypeOK
<1>10. CASE ResolveFromRemote
  <2>1. App => cached' > Buffer
    BY <1>10, <1>2, TokenUsedParts DEF ResolveFromRemote, CachedAfterUse
  <2> QED BY <1>10, <2>1 DEF ResolveFromRemote, hostVars, NeverAsleep, App
<1>11. ASSUME NEW requested \in BOOLEAN,
              SecretMissing(requested) \/ ResolveFails(requested) \/ ApiKeyMissing(requested)
       PROVE  Renewed' /\ NeverAsleep'
  <2>1. PICK kind : RecordFailure(kind, requested)
    BY <1>11 DEF SecretMissing, ResolveFails, ApiKeyMissing
  <2>2. pc' = "idle" /\ timer' < Asleep /\ timer' \in 0..Asleep
    BY <1>1, <2>1, RecordFailureType
  <2> QED BY <1>2, <2>2 DEF NeverAsleep
<1>12. CASE Publish \/ PublishFails
  BY <1>1, <1>12 DEF Publish, PublishFails, hostVars, NeverAsleep, App
<1>13. CASE Requeue
  <2>1. pc = "published" /\ pc' = "idle" /\ setting' = setting
    BY <1>13 DEF Requeue, hostVars
  <2>2. App => timer' < Asleep
    BY <1>1, <1>2, <1>13, <2>1 DEF Requeue, RequeueInterval, Lesser
  <2> QED BY <1>2, <2>1, <2>2 DEF NeverAsleep, App
<1>14. CASE StatusPatchFails
  BY <1>2, <1>14 DEF StatusPatchFails, NeverAsleep
<1>15. CASE AgentStep
  BY <1>3, <1>15 DEF AgentStep, AgentStarts, CloneInterrupted, AgentRestarts, AgentSyncs,
                     SyncFails, hostVars, tokenVars, recVars
<1> QED BY <1>4, <1>5, <1>6, <1>7, <1>8, <1>9, <1>10, <1>11, <1>12, <1>13, <1>14,
           <1>15 DEF Next, Environment, Reconcile

\* Unless a reconcile without polling takes so long that its token comes within the
\* buffer, there is always a next one on the timer: after successes, failures, watch
\* events that take the timer's place, and restarts (gatewaysync_controller.go:824-841).
THEOREM NeverAsleepHolds ==
    ASSUME Punctual
    PROVE  Spec => []NeverAsleep
<1>1. AwakeInv => NeverAsleep
  BY DEF AwakeInv
<1>2. AwakeInv /\ [Next]_vars => AwakeInv'
  BY NextAwakeInv
<1> QED BY <1>1, <1>2, InitAwakeInv, PTL DEF Spec

---------------------------------------------------------------------------
(* The published commit.                                                   *)

\* Every ref is a name, and no remote has a branch and a tag of that name.
Unambiguous ==
    \A s \in Settings :
        /\ s.ref \in Names
        /\ \A r \in s.first \cup s.next : ~Ambiguous(r, s.ref)

\* A resolved commit: not asked for in the future, and still the ref's as long as
\* the remote has not moved.
Fresh(x) ==
    /\ x.at \in 0..moves
    /\ x.commit # NotFound /\ x.at = moves => x.commit = MatchRef(remote, setting.ref)

Statuses == [commit: Commits \cup {NotFound}, ok: BOOLEAN, age: Nat, at: Nat]

IInv ==
    /\ setting \in Settings
    /\ remote \in setting.first \cup setting.next
    /\ moves \in Nat
    /\ status \in Statuses /\ saved \in Statuses
    /\ Fresh(status) /\ Fresh(saved) /\ Fresh(meta)

\* IInv holds to begin with.
LEMMA InitIInv == Init => IInv
BY DEF Init, IInv, Statuses, Fresh

SameCommit(x, y) == x.commit = y.commit /\ x.at = y.at

\* Steps that leave refs and what was resolved from them.
LEMMA QuietStep ==
    ASSUME IInv, UNCHANGED <<hostVars, meta>>, status' \in Statuses, saved' \in Statuses,
           SameCommit(status', status) \/ SameCommit(status', saved),
           SameCommit(saved', saved) \/ SameCommit(saved', status)
    PROVE  IInv'
BY DEF IInv, Fresh, SameCommit, hostVars

\* Time passes: only ages are about that.
LEMMA TickIInv ==
    ASSUME IInv, Tick
    PROVE  IInv'
<1>1. ASSUME NEW s \in Statuses PROVE Aged(s) \in Statuses /\ SameCommit(Aged(s), s)
  <2>1. PICK a \in Nat : a = Lesser(s.age + 1, setting.poll)
    BY SettingParts DEF IInv, Statuses, Lesser
  <2>2. Aged(s) = [s EXCEPT !.age = a]
    BY <2>1 DEF Aged
  <2> QED BY <2>2 DEF Statuses, SameCommit
<1>2. status' = Aged(status) /\ saved' = Aged(saved) /\ UNCHANGED <<hostVars, meta>>
  BY DEF Tick
<1>3. /\ status' \in Statuses /\ SameCommit(status', status)
      /\ saved' \in Statuses /\ SameCommit(saved', saved)
  BY <1>1, <1>2 DEF IInv
<1> QED BY <1>2, <1>3, QuietStep

\* The remote moves: what was resolved before is no longer of this time.
LEMMA RemoteMovesIInv ==
    ASSUME IInv, RemoteMoves
    PROVE  IInv'
<1>1. /\ setting' = setting /\ remote' \in setting.next
      /\ moves' = moves + 1
      /\ status' = status /\ saved' = saved /\ meta' = meta
  BY DEF RemoteMoves, recVars
<1>2. Fresh(status)' /\ Fresh(saved)'
  BY <1>1 DEF IInv, Fresh
<1>3. Fresh(meta)'
  BY <1>1 DEF IInv, Fresh
<1> QED BY <1>1, <1>2, <1>3 DEF IInv

\* The ref is resolved at the remote.
LEMMA ResolveFromRemoteIInv ==
    ASSUME IInv, ResolveFromRemote
    PROVE  IInv'
<1> DEFINE c == MatchRef(remote, setting.ref)
<1>1. c \in Commits \cup {NotFound}
  BY SettingParts, MatchRefType DEF IInv
<1>2. PICK a \in Nat :
         status' = [commit |-> c, ok |-> TRUE, at |-> moves, age |-> a]
  <2>1. status.age \in Nat
    BY DEF IInv, Statuses
  <2> QED BY <2>1 DEF ResolveFromRemote, StatusAfter
<1>3. UNCHANGED <<setting, remote, moves, saved, meta>>
  BY DEF ResolveFromRemote, hostVars
<1> HIDE DEF c
<1>4. status' \in Statuses /\ status'.commit = c /\ status'.at = moves
  BY <1>1, <1>2 DEF IInv, Statuses
<1>5. Fresh(status)' /\ Fresh(saved)' /\ Fresh(meta)'
  BY <1>3, <1>4 DEF IInv, Fresh, c
<1> QED BY <1>3, <1>4, <1>5 DEF IInv

\* The metadata gets what the status has.
LEMMA PublishIInv ==
    ASSUME IInv, Publish
    PROVE  IInv'
<1>1. /\ meta'.commit = status.commit /\ meta'.at = status.at
      /\ UNCHANGED <<setting, remote, moves, status, saved>>
  BY DEF Publish, hostVars
<1> QED BY <1>1 DEF IInv, Fresh

\* A failed reconcile patches what it has, or not.
LEMMA PatchIgnoredIInv ==
    ASSUME IInv, NEW s \in Statuses, SameCommit(s, status), PatchIgnored(s),
           UNCHANGED <<hostVars, meta>>
    PROVE  IInv'
<1>1. saved' = saved \/ saved' = s
  BY DEF PatchIgnored
<1>2. status' = saved' /\ saved' \in Statuses
  BY <1>1 DEF PatchIgnored, IInv
<1>3. SameCommit(saved', saved) \/ SameCommit(saved', status)
  BY <1>1 DEF SameCommit
<1> QED BY <1>2, <1>3, QuietStep

\* A failed resolution only marks the status.
LEMMA FailureIInv ==
    ASSUME IInv, NEW requested,
           SecretMissing(requested) \/ ResolveFails(requested) \/ ApiKeyMissing(requested)
    PROVE  IInv'
<1>1. /\ [status EXCEPT !.ok = FALSE] \in Statuses
      /\ SameCommit([status EXCEPT !.ok = FALSE], status)
      /\ status \in Statuses /\ SameCommit(status, status)
  BY DEF IInv, Statuses, SameCommit
<1>2. UNCHANGED <<hostVars, meta>>
  BY DEF SecretMissing, ResolveFails, ApiKeyMissing
<1> QED BY <1>1, <1>2, PatchIgnoredIInv DEF SecretMissing, ResolveFails, ApiKeyMissing

\* IInv is kept by every step.
LEMMA NextIInv == IInv /\ [Next]_vars => IInv'
<1> SUFFICES ASSUME IInv, [Next]_vars PROVE IInv'
  OBVIOUS
<1>1. ASSUME UNCHANGED <<hostVars, meta>>, status' \in {status, saved},
             saved' \in {saved, status}
      PROVE  IInv'
  <2>1. status' \in Statuses /\ saved' \in Statuses
    BY <1>1 DEF IInv
  <2>2. /\ SameCommit(status', status) \/ SameCommit(status', saved)
        /\ SameCommit(saved', saved) \/ SameCommit(saved', status)
    BY <1>1 DEF SameCommit
  <2> QED BY <1>1, <2>1, <2>2, QuietStep
<1>2. CASE UNCHANGED vars
  BY <1>1, <1>2 DEF vars, recVars
<1>3. CASE Environment
  BY <1>1, <1>3, TickIInv, RemoteMovesIInv
     DEF Environment, KubeletSync, OtherExchange, Crash, recVars
<1>4. CASE Reconcile
  BY <1>1, <1>4, ResolveFromRemoteIInv, FailureIInv, PublishIInv
     DEF Reconcile, ResolveFromStatus, PublishFails, Requeue, StatusPatchFails
<1>5. CASE AgentStep
  BY <1>1, <1>5 DEF AgentStep, AgentStarts, CloneInterrupted, AgentRestarts,
                    AgentSyncs, SyncFails, recVars
<1> QED BY <1>2, <1>3, <1>4, <1>5 DEF Next

\* The inductive invariant holds.
LEMMA Invariant == Spec => []IInv
BY InitIInv, NextIInv, PTL DEF Spec

\* For branches and both kinds of tags, if no name is a branch's and a tag's: as
\* long as the remote has not moved, an agent that may read the repository checks
\* out the published commit, into a new clone, an old one, or one that was
\* interrupted and that git can fetch into (client.go:68-102, 250-261, 349-376,
\* gatewaysync_controller.go:459-542).
THEOREM SyncFindsThatCommitHolds ==
    ASSUME Unambiguous
    PROVE  Spec => []SyncFindsThatCommit
<1>1. IInv => SyncFindsThatCommit
  <2> SUFFICES ASSUME IInv, meta.commit # NotFound, meta.at = moves, Authorized,
                      tree # Broken
               PROVE  CloneOrFetch = meta.commit
    BY DEF SyncFindsThatCommit
  <2>1. /\ remote \in Remotes /\ setting.ref \in Names
        /\ ~Ambiguous(remote, setting.ref)
    BY SettingParts DEF IInv, Unambiguous
  <2>2. meta.commit = MatchRef(remote, setting.ref)
    BY DEF IInv, Fresh
  <2> QED BY <2>1, <2>2, MatchRefAgreesWithGit DEF CloneOrFetch
<1> QED BY <1>1, Invariant, PTL

=============================================================================
