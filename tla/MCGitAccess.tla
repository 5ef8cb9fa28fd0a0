---------------------------- MODULE MCGitAccess ----------------------------
(* Small instances of GitAccess.                                           *)
EXTENDS GitAccess

CONSTANTS main, v1, c1, c2, t1

MCNames == {main, v1}
MCCommits == {c1, c2}
MCTagObjects == {t1}

None == [n \in {} |-> c1]
At(n, x) == [m \in {n} |-> x]

\* A branch, and a tag of either kind beside it.
Branch(c) == [heads |-> At(main, c), tags |-> None, peeled |-> None]
Light(c) == [Branch(c1) EXCEPT !.tags = At(v1, c)]
Annotated(c) == [Branch(c1) EXCEPT !.tags = At(v1, t1), !.peeled = At(v1, c)]
AnyKind == UNION {{Branch(c), Light(c), Annotated(c)} : c \in MCCommits}
Branches == {Branch(c) : c \in MCCommits}

GitKinds == {"gitSecret", "resolve"}

WithApp(poll, shared, slow, agent, failing) ==
    [auth |-> "githubApp", poll |-> poll, shared |-> shared, slow |-> slow,
     agent |-> agent, ref |-> main, first |-> {Branch(c1)}, next |-> Branches,
     moves |-> 1, kinds |-> GitKinds, failures |-> failing, errors |-> 0]

WithoutApp(ref, first, next, kinds, moving, failing, erring) ==
    [auth |-> "other", poll |-> 2, shared |-> FALSE, slow |-> FALSE,
     agent |-> TRUE, ref |-> ref, first |-> {first}, next |-> next,
     moves |-> moving, kinds |-> kinds, failures |-> failing, errors |-> erring]

\* With an app: polling every minute, every two minutes, and not at all.
\* Without: refs of every kind that move, and failures in a row.
MCSettings ==
    {WithApp(2, TRUE, TRUE, FALSE, 1), WithApp(4, TRUE, FALSE, FALSE, 1),
     WithApp(0, FALSE, FALSE, TRUE, 1),
     WithoutApp(main, Branch(c1), Branches, GitKinds, 2, 7, 2),
     WithoutApp(v1, Branch(c1), AnyKind, FailureKinds, 2, 1, 2),
     WithoutApp(main, Branch(c1), Branches, GitKinds, 1, 1, 40)}

\* The agent's int64 overflows.
MCLongStreak == {WithoutApp(main, Branch(c1), Branches, GitKinds, 1, 1, 64)}
\* One polling interval longer than the buffer.
MCRarePolling == {WithApp(20, FALSE, FALSE, FALSE, 0)}
\* No polling, and a reconcile that takes its time.
MCNoPolling == {WithApp(0, FALSE, TRUE, FALSE, 0)}
\* spec.git.ref is a commit.
MCCommitRef == {WithoutApp(c1, Branch(c1), Branches, GitKinds, 0, 0, 0)}
=============================================================================
