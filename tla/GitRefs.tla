------------------------------ MODULE GitRefs ------------------------------
(***************************************************************************)
(* How a ref becomes a commit.  The controller matches it against the refs *)
(* that the remote advertises (matchRef); the agent lets git clone or git  *)
(* fetch find it.  The two must agree: the agent syncs when the commit in   *)
(* the metadata changes and reports the commit that it has checked out.    *)
(*                                                                         *)
(* A remote is a record of partial functions from short names: "heads" to  *)
(* commits, "tags" to commits or, for annotated tags, to tag objects, and   *)
(* "peeled" from the annotated tags to the commits behind them.            *)
(***************************************************************************)
EXTENDS Functions

CONSTANTS
    Names,       \* short names of branches and tags
    Commits,     \* full commit SHAs
    TagObjects,  \* full SHAs of annotated tag objects
    NotFound     \* no such ref

ASSUME ShaAssumption ==
    /\ Names \cap Commits = {}
    /\ NotFound \notin Commits \cup TagObjects
    /\ Commits \cap TagObjects = {}

Partial(S) == UNION {[D -> S] : D \in SUBSET Names}

\* What a remote can advertise: exactly the annotated tags are peeled.
Remotes ==
    {r \in [heads: Partial(Commits), tags: Partial(Commits \cup TagObjects),
            peeled: Partial(Commits)] :
        DOMAIN r.peeled = {n \in DOMAIN r.tags : r.tags[n] \in TagObjects}}

\* Faulty variant of MatchRef: annotated tags are not peeled.
MatchRefUnpeeled(remote, ref) ==
    IF ref \in Commits THEN ref
    ELSE IF ref \in DOMAIN remote.tags THEN remote.tags[ref]
    ELSE IF ref \in DOMAIN remote.heads THEN remote.heads[ref]
    ELSE NotFound

\* matchRef: a full SHA stands for itself, known to the remote or not.
MatchRef(remote, ref) ==
    IF ref \in Commits THEN ref
    ELSE IF ref \in DOMAIN remote.peeled THEN remote.peeled[ref]
    ELSE IF ref \in DOMAIN remote.tags THEN remote.tags[ref]
    ELSE IF ref \in DOMAIN remote.heads THEN remote.heads[ref]
    ELSE NotFound

\* git checks out the commit behind a tag object.
TagCommit(remote, n) ==
    IF n \in DOMAIN remote.peeled THEN remote.peeled[n] ELSE remote.tags[n]

\* git clone --depth=1 --branch ref: a branch, else a tag, never a SHA.
Clone(remote, ref) ==
    IF ref \in DOMAIN remote.heads THEN remote.heads[ref]
    ELSE IF ref \in DOMAIN remote.tags THEN TagCommit(remote, ref)
    ELSE NotFound

\* git fetch --depth=1 origin ref, and git checkout FETCH_HEAD: a SHA that the
\* remote has, else a tag, else a branch.
Fetch(remote, has, ref) ==
    IF ref \in Commits THEN IF ref \in has THEN ref ELSE NotFound
    ELSE IF ref \in DOMAIN remote.tags THEN TagCommit(remote, ref)
    ELSE IF ref \in DOMAIN remote.heads THEN remote.heads[ref]
    ELSE NotFound

\* A name of a branch and of a tag at once.
Ambiguous(remote, ref) == ref \in DOMAIN remote.heads \cap DOMAIN remote.tags

=============================================================================
