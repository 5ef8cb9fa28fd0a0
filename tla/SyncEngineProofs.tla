-------------------------- MODULE SyncEngineProofs --------------------------
(***************************************************************************)
(* Proofs about module SyncEngine, for any trees, profiles, gateway writes, *)
(* faults and crashes:                                                      *)
(*   - types, and that the engine touches only what its mappings are        *)
(*     responsible for, and nothing when it runs dry (invariant IInv);      *)
(*   - a sync that succeeds leaves exactly what the commit says, and a dry   *)
(*     run reports what it would do (invariant ExactInv, which follows the   *)
(*     staging directory mapping by mapping and the live tree path by path). *)
(***************************************************************************)
EXTENDS SyncEngine, SequenceTheorems, TLAPS

---------------------------------------------------------------------------
(* Paths and file trees.                                                   *)

\* The paths of the walk are sequences of names.
LEMMA PathsAreSeqs == Paths \subseteq Seq(STRING)
BY WalkAssumption DEF Paths

\* Being above is transitive.
LEMMA AboveTransitive ==
    ASSUME NEW q \in Seq(STRING), NEW p \in Seq(STRING), NEW r \in Seq(STRING),
           Above(q, p), Above(p, r)
    PROVE  Above(q, r)
<1>1. Len(q) < Len(r)
  BY DEF Above
<1>2. ASSUME NEW k \in DOMAIN q
      PROVE  q[k] = r[k]
  <2>1. k \in DOMAIN p
    BY DEF Above
  <2> QED BY <2>1 DEF Above
<1> QED BY <1>1, <1>2 DEF Above

\* Two paths on the way to a third are on the way to each other.
LEMMA AboveComparable ==
    ASSUME NEW q \in Seq(STRING), NEW r \in Seq(STRING), NEW p \in Seq(STRING),
           AtOrAbove(q, p), AtOrAbove(r, p)
    PROVE  AtOrAbove(q, r) \/ Above(r, q)
<1>1. PICK x \in Nat, y \in Nat : x = Len(q) /\ y = Len(r)
  OBVIOUS
<1>2. /\ \A k \in 1..x : q[k] = p[k]
      /\ \A k \in 1..y : r[k] = p[k]
  <2>1. q = p \/ \A k \in DOMAIN q : q[k] = p[k]
    BY DEF AtOrAbove, Above
  <2>2. r = p \/ \A k \in DOMAIN r : r[k] = p[k]
    BY DEF AtOrAbove, Above
  <2>3. DOMAIN q = 1..x /\ DOMAIN r = 1..y
    BY <1>1
  <2> QED BY <2>1, <2>2, <2>3
<1>3. CASE x < y
  BY <1>1, <1>2, <1>3 DEF AtOrAbove, Above
<1>4. CASE y < x
  BY <1>1, <1>2, <1>4 DEF Above
<1>5. CASE x = y
  <2>1. Len(q) = Len(r) /\ \A k \in 1..Len(q) : q[k] = r[k]
    BY <1>1, <1>2, <1>5
  <2>2. q = r
    BY <2>1, SeqEqual
  <2> QED BY <2>2 DEF AtOrAbove
<1> QED BY <1>3, <1>4, <1>5

\* No path is above itself.
LEMMA AboveIrreflexive ==
    ASSUME NEW p \in Seq(STRING)
    PROVE  ~Above(p, p)
BY DEF Above

\* A path that fits can be put into a file tree.
LEMMA PutIsFileTree ==
    ASSUME NEW fs, IsFileTree(fs), NEW p \in Paths,
           NEW w \in FileContents \cup {Dir}, Fits(fs, p, w)
    PROVE  IsFileTree(Put(fs, p, w))
<1> DEFINE parents == {q \in Paths : Above(q, p)}
           new == Put(fs, p, w)
<1>1. DOMAIN new = DOMAIN fs \cup parents \cup {p}
  BY DEF Put
<1>2. \A q \in DOMAIN new :
         new[q] = IF q = p THEN w ELSE IF q \in DOMAIN fs THEN fs[q] ELSE Dir
  BY DEF Put
<1> HIDE DEF new
<1>3. DOMAIN new \subseteq Paths
  BY <1>1 DEF IsFileTree
<1>4. \A q \in DOMAIN new : new[q] \in FileContents \cup {Dir}
  BY <1>1, <1>2 DEF IsFileTree
<1>5. ASSUME NEW q \in Paths, NEW r \in DOMAIN new, Above(q, r)
      PROVE  q \in DOMAIN new /\ new[q] = Dir
  <2>1. CASE r = p
    <3>1. q \in parents /\ q # p
      BY <1>5, <2>1, PathsAreSeqs, AboveIrreflexive
    <3> QED BY <1>1, <1>2, <1>5, <2>1, <3>1 DEF Fits
  <2>2. CASE r \in DOMAIN fs
    <3>1. q \in DOMAIN fs /\ fs[q] = Dir
      BY <1>5, <2>2 DEF IsFileTree
    <3>2. q = p => w = Dir
      BY <3>1 DEF Fits
    <3> QED BY <1>1, <1>2, <3>1, <3>2
  <2>3. CASE r \in parents
    <3>1. Above(q, p)
      BY <1>5, <2>3, PathsAreSeqs, AboveTransitive
    <3>2. q \in parents /\ q # p
      BY <3>1, PathsAreSeqs, AboveIrreflexive
    <3> QED BY <1>1, <1>2, <3>1, <3>2 DEF Fits
  <2> QED BY <1>1, <2>1, <2>2, <2>3
<1>6. IsFileTree(new)
  BY <1>3, <1>4, <1>5 DEF IsFileTree
<1> QED BY <1>6 DEF new

\* The file q differs between two trees.
FileDiffers(q, old, new) ==
    \/ (q \in Files(old)) # (q \in Files(new))
    \/ q \in Files(old) /\ new[q] # old[q]

\* Putting a path changes no other file, and none at all if it is a directory.
LEMMA PutChangesOne ==
    ASSUME NEW fs, IsFileTree(fs), NEW p \in Paths, NEW w, Fits(fs, p, w),
           NEW q, FileDiffers(q, fs, Put(fs, p, w))
    PROVE  q = p /\ w # Dir
<1> DEFINE new == Put(fs, p, w)
<1>1. DOMAIN fs \subseteq DOMAIN new /\ p \in DOMAIN new
  BY DEF Put
<1>2. \A r \in DOMAIN new :
         new[r] = IF r = p THEN w ELSE IF r \in DOMAIN fs THEN fs[r] ELSE Dir
  BY DEF Put
<1> HIDE DEF new
<1>3. FileDiffers(q, fs, new)
  BY DEF new
<1>4. q = p
  BY <1>1, <1>2, <1>3, ContentAssumption DEF FileDiffers, Files
<1>5. ASSUME w = Dir PROVE FALSE
  <2>1. p \notin Files(new)
    BY <1>1, <1>2, <1>5, ContentAssumption DEF Files
  <2>2. p \notin Files(fs)
    BY <1>5, ContentAssumption DEF Fits, Files
  <2> QED BY <1>3, <1>4, <2>1, <2>2 DEF FileDiffers
<1> QED BY <1>4, <1>5

\* The directories on the way to a path.
LEMMA UpToIs ==
    ASSUME NEW p \in Paths
    PROVE  \A q : q \in UpTo[p] <=> q \in Paths /\ AtOrAbove(q, p)
BY DEF UpTo

\* What is below a path at or below a third is below that, too.
LEMMA AtOrAboveTransitive ==
    ASSUME NEW q \in Seq(STRING), NEW p \in Seq(STRING), NEW r \in Seq(STRING),
           AtOrAbove(q, p), AtOrAbove(p, r)
    PROVE  AtOrAbove(q, r)
BY AboveTransitive DEF AtOrAbove

\* The links, and where they lead to.
LEMMA LinkPaths ==
    ASSUME NEW l \in DOMAIN Links
    PROVE  l \in Paths /\ Links[l] \in Paths /\ l \in Seq(STRING) /\ Links[l] \in Seq(STRING)
BY LinkAssumption, PathsAreSeqs

\* What is behind a link, or where one leads to, stays so further down.
LEMMA LinkedIsClosed ==
    ASSUME NEW q \in Paths, NEW p \in Paths, AtOrAbove(q, p)
    PROVE  /\ q \in Behind => p \in Behind
           /\ q \in Linked => p \in Linked
<1>1. q \in Seq(STRING) /\ p \in Seq(STRING)
  BY PathsAreSeqs
<1>2. \A l \in DOMAIN Links :
         /\ AtOrAbove(l, q) => AtOrAbove(l, p)
         /\ AtOrAbove(Links[l], q) => AtOrAbove(Links[l], p)
  BY <1>1, LinkPaths, AtOrAboveTransitive
<1> QED BY <1>2 DEF Behind, Linked

\* The elements of a sequence from d + 1 on.
LEMMA TailElements ==
    ASSUME NEW S, NEW r \in Seq(S), NEW d \in Nat, NEW n \in Nat, n = Len(r), d < n
    PROVE  /\ SubSeq(r, d + 1, n) \in Seq(S)
           /\ Len(SubSeq(r, d + 1, n)) = n - d
           /\ \A k \in 1..(n - d) : SubSeq(r, d + 1, n)[k] = r[d + k]
OBVIOUS

\* The elements of a concatenation.
LEMMA ConcatElements ==
    ASSUME NEW S, NEW a \in Seq(S), NEW t \in Seq(S),
           NEW x \in Nat, x = Len(a), NEW y \in Nat, y = Len(t)
    PROVE  /\ a \o t \in Seq(S)
           /\ Len(a \o t) = x + y
           /\ \A k \in 1..x : (a \o t)[k] = a[k]
           /\ \A k \in 1..(x + y) : k > x => (a \o t)[k] = t[k - x]
OBVIOUS

\* What is reached through a link lies where that leads to.
LEMMA RealOfBehind ==
    ASSUME NEW p \in Behind
    PROVE  \E l \in DOMAIN Links : AtOrAbove(l, p) /\ AtOrAbove(Links[l], Real[p])
<1> DEFINE l == CHOOSE q \in DOMAIN Links : AtOrAbove(q, p)
<1>1. l \in DOMAIN Links /\ AtOrAbove(l, p)
  BY DEF Behind
<1>2. p \in Paths /\ p \in Seq(STRING)
  BY PathsAreSeqs DEF Behind
<1>3. Real[p] = Links[l] \o SubSeq(p, Len(l) + 1, Len(p))
  BY <1>2 DEF Real
<1> HIDE DEF l
<1>4. PICK a \in Seq(STRING), b \in Seq(STRING) : a = Links[l] /\ b = l
  BY <1>1, LinkPaths
<1>5. PICK x \in Nat, d \in Nat, n \in Nat : x = Len(a) /\ d = Len(b) /\ n = Len(p)
  BY <1>2
<1>6. CASE b = p
  <2>1. SubSeq(p, n + 1, n) = <<>>
    BY <1>2, <1>5
  <2>2. a \o <<>> = a
    OBVIOUS
  <2>3. Real[p] = a
    BY <1>3, <1>4, <1>5, <1>6, <2>1, <2>2
  <2> QED BY <1>1, <1>4, <2>3 DEF AtOrAbove
<1>7. CASE b # p
  <2>1. d < n
    BY <1>1, <1>4, <1>5, <1>7 DEF AtOrAbove, Above
  <2> DEFINE t == SubSeq(p, d + 1, n)
  <2>2. t \in Seq(STRING) /\ Len(t) = n - d
    BY <1>2, <1>5, <2>1, TailElements
  <2>3. PICK y \in Nat : y = n - d /\ y > 0
    BY <2>1
  <2> HIDE DEF t
  <2>4. /\ Len(a \o t) = x + y
        /\ \A k \in 1..x : (a \o t)[k] = a[k]
    <3>1. t \in Seq(STRING) /\ y = Len(t)
      BY <2>2, <2>3
    <3> QED BY <1>5, <3>1, ConcatElements
  <2>5. Above(a, a \o t)
    BY <1>5, <2>3, <2>4 DEF Above
  <2>6. Real[p] = a \o t
    BY <1>3, <1>4, <1>5 DEF t
  <2> QED BY <1>1, <1>4, <2>5, <2>6 DEF AtOrAbove
<1> QED BY <1>6, <1>7

\* Where the operating system ends up: never behind a link, and elsewhere than
\* at p itself only where a link leads to.
LEMMA RealPath ==
    ASSUME NEW p \in Paths
    PROVE  /\ Real[p] \in Paths \ Behind
           /\ p \notin Behind => Real[p] = p
           /\ p \in Behind => Real[p] \in Linked
<1>1. Real[p] \in Paths
  BY LinkAssumption
<1>2. CASE p \notin Behind
  BY <1>1, <1>2 DEF Real
<1>3. CASE p \in Behind
  <2>1. PICK l \in DOMAIN Links : AtOrAbove(Links[l], Real[p])
    BY <1>3, RealOfBehind
  <2>2. ASSUME NEW k \in DOMAIN Links, AtOrAbove(k, Real[p])
        PROVE  FALSE
    <3>1. AtOrAbove(k, Links[l]) \/ Above(Links[l], k)
      BY <1>1, <2>1, <2>2, LinkPaths, PathsAreSeqs, AboveComparable
    <3> QED BY <3>1, LinkAssumption DEF AtOrAbove
  <2> QED BY <1>1, <1>3, <2>1, <2>2 DEF Behind, Linked
<1> QED BY <1>2, <1>3

\* The links stay where they are when something is put beside them.
LEMMA PutIsLive ==
    ASSUME NEW fs, IsLive(fs), NEW p \in Paths \ Behind,
           NEW w \in FileContents \cup {Dir}, Fits(fs, p, w)
    PROVE  IsLive(Put(fs, p, w))
<1> DEFINE parents == {q \in Paths : Above(q, p)}
           new == Put(fs, p, w)
<1>1. DOMAIN new = DOMAIN fs \cup parents \cup {p}
  BY DEF Put
<1>2. \A q \in DOMAIN new :
         new[q] = IF q = p THEN w ELSE IF q \in DOMAIN fs THEN fs[q] ELSE Dir
  BY DEF Put
<1>3. IsFileTree(new)
  BY PutIsFileTree DEF IsLive
<1> HIDE DEF new
<1>4. parents \cap Behind = {}
  BY LinkedIsClosed DEF AtOrAbove
<1>5. DOMAIN new \cap Behind = {}
  BY <1>1, <1>4 DEF IsLive
<1>6. ASSUME NEW l \in DOMAIN Links, NEW q \in Paths, Above(q, l)
      PROVE  q \in DOMAIN new /\ new[q] = Dir
  <2>1. q \in DOMAIN fs /\ fs[q] = Dir
    BY <1>6 DEF IsLive
  <2>2. q = p => w = Dir
    BY <2>1 DEF Fits
  <2> QED BY <1>1, <1>2, <2>1, <2>2
<1>7. IsLive(new)
  BY <1>3, <1>5, <1>6 DEF IsLive
<1> QED BY <1>7 DEF new

\* What is below a managed path is managed.
LEMMA ManagedIsClosed ==
    ASSUME NEW mappings \in Seq(Mapping), NEW q \in Paths, NEW r \in Paths,
           Above(q, r), UnderManagedRoot(q, mappings)
    PROVE  UnderManagedRoot(r, mappings)
<1>1. PICK i \in DOMAIN mappings :
         /\ ~mappings[i].slash /\ mappings[i].dst # <<>>
         /\ AtOrAbove(mappings[i].dst, q)
  BY DEF UnderManagedRoot
<1>2. mappings[i].dst \in Seq(STRING)
  <2>1. mappings[i] \in Mapping
    OBVIOUS
  <2> QED BY <2>1 DEF Mapping
<1>3. AtOrAbove(mappings[i].dst, r)
  BY <1>1, <1>2, PathsAreSeqs, AboveTransitive DEF AtOrAbove
<1> QED BY <1>1, <1>3 DEF UnderManagedRoot

\* Removing an orphan and its empty parents leaves the links where they are, and
\* the other files as they were.
LEMMA WithoutIsLive ==
    ASSUME NEW fs, IsLive(fs), NEW p \in Files(fs),
           NEW mappings \in Seq(Mapping)
    PROVE  /\ IsLive(Without(fs, p, mappings))
           /\ \A q : FileDiffers(q, fs, Without(fs, p, mappings)) => q = p
<1> DEFINE rest == DOMAIN fs \ {p}
           keep == {q \in rest :
                       \/ ~Above(q, p)
                       \/ ~UnderManagedRoot(q, mappings)
                       \/ \E f \in rest \cup DOMAIN Links : Above(q, f) /\ ~Above(f, p)}
           new == Without(fs, p, mappings)
<1>1. DOMAIN new = keep /\ \A q \in keep : new[q] = fs[q]
  BY DEF Without
<1> HIDE DEF new
<1>2. DOMAIN fs \subseteq Paths /\ p \in DOMAIN fs /\ IsFileTree(fs)
  BY DEF IsLive, IsFileTree, Files
<1>3. ASSUME NEW q \in Paths, NEW r \in keep, Above(q, r)
      PROVE  q \in keep /\ fs[q] = Dir
  <2>1. q \in DOMAIN fs /\ fs[q] = Dir /\ q # p
    <3>1. q \in DOMAIN fs /\ fs[q] = Dir
      BY <1>2, <1>3 DEF IsFileTree
    <3> QED BY <3>1, ContentAssumption DEF Files
  <2>2. CASE ~Above(r, p)
    BY <1>3, <2>1, <2>2
  <2>3. CASE Above(r, p) /\ ~UnderManagedRoot(r, mappings)
    <3>1. ~UnderManagedRoot(q, mappings)
      BY <1>2, <1>3, <2>3, ManagedIsClosed
    <3> QED BY <2>1, <3>1
  <2>4. CASE \E f \in rest \cup DOMAIN Links : Above(r, f) /\ ~Above(f, p)
    <3>1. PICK f \in rest \cup DOMAIN Links : Above(r, f) /\ ~Above(f, p)
      BY <2>4
    <3>2. Above(q, f)
      BY <1>2, <1>3, <3>1, PathsAreSeqs, AboveTransitive, LinkAssumption
    <3> QED BY <2>1, <3>1, <3>2
  <2> QED BY <1>3, <2>2, <2>3, <2>4
<1>4. IsFileTree(new)
  BY <1>1, <1>2, <1>3 DEF IsFileTree
<1>6. ASSUME NEW l \in DOMAIN Links, NEW q \in Paths, Above(q, l)
      PROVE  q \in DOMAIN new /\ new[q] = Dir
  <2>1. q \in DOMAIN fs /\ fs[q] = Dir
    BY <1>6 DEF IsLive
  <2>2. q # p
    BY <2>1, ContentAssumption DEF Files
  <2>3. ~Above(l, p)
    <3>1. SUFFICES ASSUME Above(l, p) PROVE FALSE
      OBVIOUS
    <3>2. p \in Behind
      BY <1>2, <3>1 DEF Behind, AtOrAbove
    <3> QED BY <1>2, <3>2 DEF IsLive
  <2> QED BY <1>1, <1>6, <2>1, <2>2, <2>3
<1>7. DOMAIN new \cap Behind = {}
  BY <1>1 DEF IsLive
<1>8. IsLive(new)
  BY <1>4, <1>6, <1>7 DEF IsLive
<1>5. ASSUME NEW q, FileDiffers(q, fs, new), q # p
      PROVE  FALSE
  <2>1. q \in Files(fs) /\ q \notin keep
    BY <1>1, <1>5 DEF FileDiffers, Files
  <2>2. q \in rest /\ Above(q, p)
    BY <1>5, <2>1 DEF Files
  <2>3. fs[q] = Dir
    BY <1>2, <2>2 DEF IsFileTree
  <2> QED BY <2>1, <2>3, ContentAssumption DEF Files
<1> QED BY <1>5, <1>8 DEF new

---------------------------------------------------------------------------
(* Staging.                                                                *)

\* A mapping's fields.
LEMMA MappingFields ==
    ASSUME NEW m \in Mapping
    PROVE  /\ m.source \in Seq(STRING) /\ m.dst \in Seq(STRING)
           /\ m.template \in BOOLEAN
BY DEF Mapping

\* A single file is staged from the mapping's source.
LEMMA OriginOfFile ==
    ASSUME NEW m \in Mapping
    PROVE  Origin(m, m.dst) = m.source
<1>1. SubSeq(m.dst, Len(m.dst) + 1, Len(m.dst)) = <<>>
  BY MappingFields
<1>2. m.source \o <<>> = m.source
  BY MappingFields
<1> QED BY <1>1, <1>2 DEF Origin

\* A common beginning keeps one sequence above another.
LEMMA ConcatKeepsAbove ==
    ASSUME NEW S, NEW a \in Seq(S), NEW t \in Seq(S), NEW u \in Seq(S),
           Above(t, u)
    PROVE  Above(a \o t, a \o u)
<1>1. PICK x \in Nat, y \in Nat, z \in Nat :
         x = Len(a) /\ y = Len(t) /\ z = Len(u)
  OBVIOUS
<1>2. y < z /\ \A k \in 1..y : t[k] = u[k]
  BY <1>1 DEF Above
<1>3. /\ a \o t \in Seq(S)
      /\ Len(a \o t) = x + y
      /\ \A k \in 1..x : (a \o t)[k] = a[k]
      /\ \A k \in 1..(x + y) : k > x => (a \o t)[k] = t[k - x]
  BY <1>1, ConcatElements
<1>4. /\ Len(a \o u) = x + z
      /\ \A k \in 1..x : (a \o u)[k] = a[k]
      /\ \A k \in 1..(x + z) : k > x => (a \o u)[k] = u[k - x]
  BY <1>1, ConcatElements
<1>5. ASSUME NEW k \in DOMAIN (a \o t)
      PROVE  (a \o t)[k] = (a \o u)[k]
  <2>1. k \in 1..(x + y) /\ k \in 1..(x + z)
    BY <1>2, <1>3
  <2>2. CASE k > x
    <3>1. k - x \in 1..y
      BY <2>1, <2>2
    <3> QED BY <1>2, <1>3, <1>4, <2>1, <2>2, <3>1
  <2> QED BY <1>3, <1>4, <2>1, <2>2
<1> QED BY <1>2, <1>3, <1>4, <1>5 DEF Above

\* A common beginning can be cut off.
LEMMA TailKeepsAbove ==
    ASSUME NEW S, NEW q \in Seq(S), NEW p \in Seq(S), NEW d \in Nat,
           d < Len(q), Above(q, p)
    PROVE  Above(SubSeq(q, d + 1, Len(q)), SubSeq(p, d + 1, Len(p)))
<1>1. PICK y \in Nat, z \in Nat : y = Len(q) /\ z = Len(p)
  OBVIOUS
<1>2. d < y /\ y < z /\ \A k \in 1..y : q[k] = p[k]
  BY <1>1 DEF Above
<1> DEFINE t == SubSeq(q, d + 1, y)
           u == SubSeq(p, d + 1, z)
<1>3. /\ t \in Seq(S) /\ Len(t) = y - d
      /\ \A k \in 1..(y - d) : t[k] = q[d + k]
  BY <1>1, <1>2, TailElements
<1>4. /\ u \in Seq(S) /\ Len(u) = z - d
      /\ \A k \in 1..(z - d) : u[k] = p[d + k]
  BY <1>1, <1>2, TailElements
<1> HIDE DEF t, u
<1>5. ASSUME NEW k \in DOMAIN t
      PROVE  t[k] = u[k]
  <2>1. k \in 1..(y - d) /\ k \in 1..(z - d) /\ d + k \in 1..y
    BY <1>2, <1>3
  <2> QED BY <1>2, <1>3, <1>4, <2>1
<1>6. Above(t, u)
  BY <1>2, <1>3, <1>4, <1>5 DEF Above
<1> QED BY <1>1, <1>6 DEF t, u

\* The sources of a path and of what is below it are above each other, too.
LEMMA OriginKeepsAbove ==
    ASSUME NEW m \in Mapping, NEW q \in Seq(STRING), NEW p \in Seq(STRING),
           Above(m.dst, q), Above(q, p)
    PROVE  Above(Origin(m, q), Origin(m, p))
<1>1. PICK d \in Nat : d = Len(m.dst)
  BY MappingFields
<1>2. d < Len(q) /\ Len(q) < Len(p)
  BY <1>1 DEF Above
<1> DEFINE t == SubSeq(q, d + 1, Len(q))
           u == SubSeq(p, d + 1, Len(p))
<1>3. Above(t, u)
  BY <1>2, TailKeepsAbove
<1>4. t \in Seq(STRING) /\ u \in Seq(STRING)
  <2>1. PICK y \in Nat, z \in Nat : y = Len(q) /\ z = Len(p)
    OBVIOUS
  <2> QED BY <1>2, <2>1, TailElements
<1>5. Above(m.source \o t, m.source \o u)
  <2> HIDE DEF t, u
  <2> QED BY <1>3, <1>4, MappingFields, ConcatKeepsAbove
<1> QED BY <1>1, <1>5 DEF Origin

\* The source of a path below the destination is below the mapping's source.
LEMMA OriginIsBelow ==
    ASSUME NEW m \in Mapping, NEW p \in Seq(STRING), Above(m.dst, p)
    PROVE  Above(m.source, Origin(m, p))
<1>1. PICK a \in Seq(STRING), b \in Seq(STRING) : a = m.source /\ b = m.dst
  BY MappingFields
<1>2. PICK d \in Nat, x \in Nat, n \in Nat : d = Len(b) /\ x = Len(a) /\ n = Len(p)
  OBVIOUS
<1>3. d < n
  BY <1>1, <1>2 DEF Above
<1> DEFINE t == SubSeq(p, d + 1, n)
<1>4. t \in Seq(STRING) /\ Len(t) = n - d
  BY <1>2, <1>3, TailElements
<1>5. PICK y \in Nat : y = n - d /\ y > 0
  BY <1>3
<1> HIDE DEF t
<1>6. /\ Len(a \o t) = x + y
      /\ \A k \in 1..x : (a \o t)[k] = a[k]
  <2>1. t \in Seq(STRING) /\ y = Len(t)
    BY <1>4, <1>5
  <2> QED BY <1>2, <2>1, ConcatElements
<1>7. Above(a, a \o t)
  BY <1>2, <1>5, <1>6 DEF Above
<1> QED BY <1>1, <1>2, <1>7 DEF Origin, t

\* What a mapping stages lies under its destination, is neither excluded nor
\* protected, and comes from a file or directory of the commit.
LEMMA StagedIsManaged ==
    ASSUME NEW m \in Mapping, NEW tree \in Trees, NEW excluded,
           NEW p \in Staged(m, tree, excluded)
    PROVE  /\ p \in Paths
           /\ ~Skipped(p, excluded)
           /\ AtOrAbove(m.dst, p)
           /\ Origin(m, p) \in DOMAIN tree
           /\ Found(tree, Origin(m, p)) \in Contents \cup {Dir}
<1>1. CASE Type(m, tree) = "file"
  <2>1. p = m.dst /\ p \in Paths /\ ~Skipped(p, excluded)
    BY <1>1 DEF Staged
  <2>2. IsFile(tree, m.source)
    BY <1>1 DEF Type
  <2> QED BY <2>1, <2>2, OriginOfFile DEF IsFile, AtOrAbove
<1>2. CASE Type(m, tree) # "file"
  <2>1. /\ p \in Paths /\ Above(m.dst, p)
        /\ Origin(m, p) \in DOMAIN tree /\ tree[Origin(m, p)] \notin DOMAIN LeadsTo
        /\ WalkReaches(m, p, excluded)
    BY <1>2 DEF Staged
  <2>2. ~Skipped(p, excluded)
    BY <2>1 DEF WalkReaches, AtOrAbove
  <2>3. Found(tree, Origin(m, p)) \in Contents \cup {Dir}
    BY <2>1, TreeAssumption DEF Found
  <2> QED BY <2>1, <2>2, <2>3 DEF AtOrAbove
<1> QED BY <1>1, <1>2

\* What is staged at p is a content or a directory.
LEMMA StagedAsType ==
    ASSUME NEW m \in Mapping, NEW tree \in Trees, NEW excluded,
           NEW p \in Staged(m, tree, excluded),
           StagedAs(m, tree, p) # Unrenderable
    PROVE  StagedAs(m, tree, p) \in FileContents \cup {Dir}
<1> DEFINE c == Found(tree, Origin(m, p))
<1>1. c \in Contents \cup {Dir}
  BY StagedIsManaged
<1>2. StagedAs(m, tree, p) = IF m.template /\ c \in Contents THEN Render[c] ELSE c
  BY DEF StagedAs
<1> QED BY <1>1, <1>2, ContentAssumption DEF FileContents

\* A staged path above another staged path is a directory.
LEMMA StagedParentIsDir ==
    ASSUME NEW m \in Mapping, NEW tree \in Trees, NEW excluded,
           NEW q \in Staged(m, tree, excluded),
           NEW p \in Staged(m, tree, excluded), Above(q, p)
    PROVE  StagedAs(m, tree, q) = Dir
<1>1. q \in Seq(STRING) /\ p \in Seq(STRING)
  BY StagedIsManaged, PathsAreSeqs
<1>2. Type(m, tree) # "file"
  <2>1. Type(m, tree) = "file" => q = m.dst /\ p = m.dst
    BY DEF Staged
  <2> QED BY <1>1, <2>1, AboveIrreflexive
<1>3. Above(m.dst, q)
  BY <1>2 DEF Staged
<1>4. Above(Origin(m, q), Origin(m, p))
  BY <1>1, <1>3, OriginKeepsAbove
<1>5. Origin(m, q) \in DOMAIN tree /\ Origin(m, p) \in DOMAIN tree
  BY StagedIsManaged
<1>6. tree[Origin(m, q)] = Dir
  BY <1>4, <1>5, TreeAssumption
<1>7. Found(tree, Origin(m, q)) = Dir
  BY <1>6, ContentAssumption DEF Found
<1> QED BY <1>7, ContentAssumption DEF StagedAs, FileContents

\* Staging a mapping keeps the staging directory a file tree.
LEMMA StagedOntoIsFileTree ==
    ASSUME NEW m \in Mapping, NEW tree \in Trees, NEW excluded,
           IsFileTree(staging), Stageable(m, tree, excluded)
    PROVE  IsFileTree(StagedOnto(staging, m, tree, excluded))
<1> DEFINE fs == staging
           new == Staged(m, tree, excluded)
           parents == {q \in Paths : \E p \in new : Above(q, p)}
           out == StagedOnto(fs, m, tree, excluded)
<1>1. DOMAIN out = DOMAIN fs \cup parents \cup new
  BY DEF StagedOnto
<1>2. \A p \in DOMAIN out :
         out[p] = IF p \in new THEN StagedAs(m, tree, p)
                  ELSE IF p \in DOMAIN fs THEN fs[p] ELSE Dir
  BY DEF StagedOnto
<1>3. \A p \in new : /\ p \in Paths
                     /\ StagedAs(m, tree, p) \in FileContents \cup {Dir}
                     /\ Fits(fs, p, StagedAs(m, tree, p))
  BY StagedIsManaged, StagedAsType DEF Stageable
<1>4. \A q, p \in new : Above(q, p) => StagedAs(m, tree, q) = Dir
  BY StagedParentIsDir
<1> HIDE DEF new, out
<1>5. ASSUME NEW q \in Paths, NEW n \in new, Above(q, n)
      PROVE  q \in DOMAIN out /\ out[q] = Dir
  BY <1>1, <1>2, <1>3, <1>4, <1>5 DEF Fits
<1>6. ASSUME NEW q \in Paths, NEW p \in DOMAIN out, Above(q, p)
      PROVE  q \in DOMAIN out /\ out[q] = Dir
  <2>1. CASE p \in new
    BY <1>5, <1>6, <2>1
  <2>2. CASE p \in parents
    <3>1. PICK n \in new : Above(p, n)
      BY <2>2
    <3>2. Above(q, n)
      BY <1>3, <1>6, <2>2, <3>1, PathsAreSeqs, AboveTransitive
    <3> QED BY <1>5, <3>2
  <2>3. CASE p \in DOMAIN fs
    <3>1. q \in DOMAIN fs /\ fs[q] = Dir
      BY <1>6, <2>3 DEF IsFileTree
    <3>2. q \in new => StagedAs(m, tree, q) = Dir
      BY <1>3, <3>1 DEF Fits
    <3> QED BY <1>1, <1>2, <3>1, <3>2
  <2> QED BY <1>1, <2>1, <2>2, <2>3
<1>7. DOMAIN out \subseteq Paths
  BY <1>1, <1>3 DEF IsFileTree
<1>8. \A p \in DOMAIN out : out[p] \in FileContents \cup {Dir}
  BY <1>1, <1>2, <1>3 DEF IsFileTree
<1>9. IsFileTree(out)
  BY <1>6, <1>7, <1>8 DEF IsFileTree
<1> QED BY <1>9 DEF out

---------------------------------------------------------------------------
(* The inductive invariant.                                                *)

\* A job carries the profile that its spec resolves to.
LEMMA JobParts ==
    ASSUME NEW j, IsJob(j)
    PROVE  /\ j.tree \in Trees
           /\ j.profile = Resolve(j.spec)
           /\ j.profile.mappings = j.spec.mappings
           /\ j.profile.mappings \in Seq(Mapping)
           /\ j.profile.excluded = j.spec.defaults.excluded \cup j.spec.excluded
           /\ ~j.profile.dryRun =>
                 /\ TRUE \notin j.spec.dryRun
                 /\ j.spec.dryRun = Inherit => ~j.spec.defaults.dryRun
<1>1. j.tree \in Trees /\ j.spec \in Specs /\ j = Job(j.tree, j.spec)
  BY DEF IsJob
<1>2. j.profile = Resolve(j.spec)
  BY <1>1 DEF Job
<1>3. /\ j.profile.mappings = j.spec.mappings
      /\ j.profile.excluded = j.spec.defaults.excluded \cup j.spec.excluded
      /\ j.profile.dryRun = Setting(j.spec.dryRun, j.spec.defaults.dryRun)
  BY <1>2 DEF Resolve
<1>4. j.spec.mappings \in Seq(Mapping) /\ j.spec.defaults.dryRun \in BOOLEAN
  BY <1>1, SpecAssumption
<1>5. ASSUME ~j.profile.dryRun
      PROVE  /\ TRUE \notin j.spec.dryRun
             /\ j.spec.dryRun = Inherit => ~j.spec.defaults.dryRun
  BY <1>3, <1>5 DEF Setting, Inherit
<1> QED BY <1>1, <1>2, <1>3, <1>4, <1>5

\* The job that Begin takes up.
LEMMA WantedIsJob ==
    ASSUME TypeOK
    PROVE  IsJob(Wanted)
BY DEF TypeOK, Wanted, IsJob, Job

\* p is a file that the profile's mappings put somewhere allowed.
Allowed(p, profile) ==
    /\ ~Skipped(p, profile.excluded)
    /\ \E i \in DOMAIN profile.mappings : AtOrAbove(profile.mappings[i].dst, p)

\* The file q may be changed: it is allowed itself, or is written where a link in
\* the place of an allowed file leads to.
Touchable(q, new, profile) ==
    \/ Allowed(q, profile)
    \/ q \in Files(new) /\ \E r \in Paths : Real[r] = q /\ Allowed(r, profile)

\* The staging directory of a running sync holds only allowed files; a merge
\* walks what is staged, and only a sync that is not dry merges or cleans.
StagingAllowed ==
    pc # "idle" => \A p \in Files(staging) : Allowed(p, job.profile)

IInv ==
    /\ TypeOK
    /\ StagingAllowed
    /\ pc = "merge" => todo \subseteq DOMAIN staging
    /\ pc \in {"merge", "clean"} => ~job.profile.dryRun
    /\ pc = "stage" => next >= 1

\* The empty directory.
LEMMA NoTreeIsFileTree == IsFileTree(NoTree) /\ Files(NoTree) = {}
BY DEF NoTree, IsFileTree, Files

\* IInv holds to begin with.
LEMMA InitIInv == Init => IInv
<1> SUFFICES ASSUME Init PROVE IInv
  OBVIOUS
<1>1. TypeOK
  BY NoTreeIsFileTree, LiveAssumption, BoundAssumption DEF Init, TypeOK, NoDiff
<1> QED BY <1>1 DEF Init, IInv, StagingAllowed

\* While a sync runs its job is one.
LEMMA RunningJob ==
    ASSUME TypeOK, pc # "idle"
    PROVE  IsJob(job)
BY DEF TypeOK

\* Staging one mapping adds only allowed files.
LEMMA StagedOntoAllowed ==
    ASSUME IInv, pc = "stage", next <= Len(job.profile.mappings),
           Stageable(job.profile.mappings[next], job.tree, job.profile.excluded)
    PROVE  LET new == StagedOnto(staging, job.profile.mappings[next], job.tree,
                                 job.profile.excluded)
           IN  /\ IsFileTree(new)
               /\ \A p \in Files(new) : Allowed(p, job.profile)
<1> DEFINE m == job.profile.mappings[next]
           ex == job.profile.excluded
           new == StagedOnto(staging, m, job.tree, ex)
<1>1. IsJob(job) /\ IsFileTree(staging)
  BY RunningJob DEF IInv, TypeOK
<1>2. next \in DOMAIN job.profile.mappings /\ m \in Mapping /\ job.tree \in Trees
  <2>1. job.profile.mappings \in Seq(Mapping) /\ job.tree \in Trees
    BY <1>1, JobParts
  <2>2. next \in 1..Len(job.profile.mappings)
    BY <2>1 DEF IInv, TypeOK
  <2> QED BY <2>1, <2>2
<1>3. IsFileTree(new)
  BY <1>1, <1>2, StagedOntoIsFileTree
<1>4. ASSUME NEW p \in Files(new)
      PROVE  Allowed(p, job.profile)
  <2>1. CASE p \in Staged(m, job.tree, ex)
    BY <1>2, <2>1, StagedIsManaged DEF Allowed
  <2>2. CASE p \notin Staged(m, job.tree, ex)
    <3>1. p \in DOMAIN staging /\ new[p] = staging[p]
      BY <2>2, ContentAssumption DEF Files, StagedOnto
    <3>2. p \in Files(staging)
      BY <3>1 DEF Files
    <3> QED BY <3>2 DEF IInv, StagingAllowed
  <2> QED BY <2>1, <2>2
<1> QED BY <1>3, <1>4

\* The walk comes to what it has still to visit.
LEMMA ComingIsToDo == Coming \subseteq todo
BY DEF Coming

\* An allowed path is written, whether it is a link or not.
LEMMA WriteAllowed ==
    ASSUME IsLive(live), NEW p \in Paths, NEW w \in FileContents \cup {Dir}, Room(p, w),
           NEW profile, w # Dir => Allowed(p, profile)
    PROVE  LET new == Put(live, Real[p], w)
           IN  /\ IsLive(new)
               /\ \A q : FileDiffers(q, live, new) => Touchable(q, new, profile)
<1> DEFINE new == Put(live, Real[p], w)
<1>1. Real[p] \in Paths \ Behind /\ Fits(live, Real[p], w) /\ IsFileTree(live)
  BY RealPath DEF Room, IsLive
<1>2. IsLive(new)
  BY <1>1, PutIsLive
<1>3. ASSUME NEW q, FileDiffers(q, live, new)
      PROVE  Touchable(q, new, profile)
  <2>1. q = Real[p] /\ w # Dir
    BY <1>1, <1>3, PutChangesOne
  <2>2. q \in Files(new)
    BY <2>1 DEF Put, Files
  <2> QED BY <2>1, <2>2 DEF Touchable
<1> QED BY <1>2, <1>3

\* What an error or a crash may leave behind: only a file differs that may, and
\* only a merge leaves anything.
LEMMA HalfWrittenAllowed ==
    ASSUME IInv, NEW l \in HalfWritten
    PROVE  /\ IsLive(l)
           /\ l # live => pc = "merge"
           /\ \A q : FileDiffers(q, live, l) => Touchable(q, l, job.profile)
<1>1. IsLive(live) /\ todo \subseteq Paths
  BY DEF IInv, TypeOK
<1>2. CASE l = live
  BY <1>1, <1>2 DEF FileDiffers
<1>3. CASE l # live
  <2>1. PICK p \in todo : /\ pc = "merge" /\ p \in Files(staging)
                          /\ Room(p, Torn)
                          /\ l = Put(live, Real[p], Torn)
    BY <1>3, ComingIsToDo DEF HalfWritten
  <2>2. Allowed(p, job.profile)
    BY <2>1 DEF IInv, StagingAllowed
  <2>3. Torn \in FileContents \cup {Dir}
    BY DEF FileContents
  <2> QED BY <1>1, <2>1, <2>2, <2>3, WriteAllowed
<1> QED BY <1>2, <1>3

\* Merging one path: only a file differs that may.
LEMMA MergeAllowed ==
    ASSUME IInv, pc = "merge", NEW p \in todo, Room(p, staging[p])
    PROVE  LET new == Put(live, Real[p], staging[p])
           IN  /\ IsLive(new)
               /\ \A q : FileDiffers(q, live, new) => Touchable(q, new, job.profile)
<1>1. /\ IsLive(live) /\ IsFileTree(staging)
      /\ p \in Paths /\ p \in DOMAIN staging
  BY DEF IInv, TypeOK
<1>2. staging[p] \in FileContents \cup {Dir}
  BY <1>1 DEF IsFileTree
<1>3. staging[p] # Dir => Allowed(p, job.profile)
  <2>1. staging[p] # Dir => p \in Files(staging)
    BY <1>1, <1>2 DEF Files
  <2> QED BY <2>1 DEF IInv, StagingAllowed
<1> QED BY <1>1, <1>2, <1>3, WriteAllowed

\* Removing one orphan: only an allowed file differs.
LEMMA CleanAllowed ==
    ASSUME IInv, pc = "clean", NEW p \in Files(live), Orphan(p, job.profile)
    PROVE  LET new == Without(live, p, job.profile.mappings)
           IN  /\ IsLive(new)
               /\ \A q : FileDiffers(q, live, new) => Touchable(q, new, job.profile)
<1>1. IsLive(live) /\ job.profile.mappings \in Seq(Mapping)
  BY RunningJob, JobParts DEF IInv, TypeOK
<1>2. p \in Paths
  BY <1>1 DEF IsLive, IsFileTree, Files
<1>3. Allowed(p, job.profile)
  <2>1. ~Skipped(p, job.profile.excluded)
    BY <1>2 DEF Orphan, CleanWalkReaches, AtOrAbove
  <2> QED BY <2>1 DEF Allowed, Orphan, UnderManagedRoot
<1> QED BY <1>1, <1>3, WithoutIsLive DEF Touchable

---------------------------------------------------------------------------
(* Every step keeps IInv.                                                  *)

\* An aborted sync leaves nothing that IInv speaks of.
LEMMA AbortIInv ==
    ASSUME IInv, Abort, IsLive(live'), IsFileTree(staging'),
           UNCHANGED <<changes, crashes, writes, diff, dirty>>,
           faults' \in 0..MaxFaults
    PROVE  IInv'
BY DEF IInv, TypeOK, StagingAllowed, Abort, envVars, IsJob

\* IInv is kept by every step.
LEMMA NextIInv == IInv /\ [Next]_vars => IInv'
<1> SUFFICES ASSUME IInv, [Next]_vars PROVE IInv'
  OBVIOUS
<1> USE BoundAssumption
<1>1. CASE Change
  BY <1>1 DEF Change, IInv, TypeOK, StagingAllowed, bounds
<1>2. ASSUME NEW p \in GatewayFiles, GatewayWrites(p)
      PROVE  IInv'
  <2>1. p \in Paths \ Behind /\ GatewayContent \in FileContents \cup {Dir}
    BY GatewayAssumption DEF FileContents
  <2>2. IsLive(live')
    BY <1>2, <2>1, PutIsLive DEF GatewayWrites, IInv, TypeOK
  <2> QED BY <1>2, <2>1, <2>2
          DEF GatewayWrites, IInv, TypeOK, StagingAllowed, envVars
<1>3. CASE Begin
  <2>1. IsJob(job') /\ IsFileTree(staging') /\ Files(staging') = {}
    BY <1>3, WantedIsJob, NoTreeIsFileTree DEF Begin, IInv
  <2>2. diff' = NoDiff /\ pc' = "stage" /\ next' = 1 /\ dirty' = {}
    BY <1>3 DEF Begin
  <2>3. TypeOK'
    BY <1>3, <2>1, <2>2 DEF Begin, IInv, TypeOK, envVars, bounds, NoDiff
  <2> QED BY <2>1, <2>2, <2>3 DEF IInv, StagingAllowed
<1>4. CASE BeginPaused
  BY <1>4, WantedIsJob DEF BeginPaused, IInv, TypeOK, StagingAllowed, envVars, bounds
<1>5. CASE StageMapping
  <2>1. /\ IsFileTree(staging')
        /\ \A p \in Files(staging') : Allowed(p, job.profile)
    BY <1>5, StagedOntoAllowed DEF StageMapping
  <2> QED BY <1>5, <2>1
          DEF StageMapping, IInv, TypeOK, StagingAllowed, envVars, bounds
<1>6. CASE StageFails
  BY <1>6, AbortIInv DEF StageFails, IInv, TypeOK, Abort, envVars, bounds
<1>7. CASE StagingDone
  <2>1. DOMAIN staging \subseteq Paths
    BY DEF IInv, TypeOK, IsFileTree
  <2> QED BY <1>7, <2>1
          DEF StagingDone, IInv, TypeOK, StagingAllowed, envVars, bounds
<1>8. CASE Merge
  <2>1. IsLive(live')
    BY <1>8, MergeAllowed, ComingIsToDo DEF Merge
  <2> QED BY <1>8, <2>1
          DEF Merge, IInv, TypeOK, StagingAllowed, envVars, bounds
<1>9. CASE MergeFails
  BY <1>9, AbortIInv DEF MergeFails, IInv, TypeOK, Abort, envVars, bounds
<1>10. CASE MergeDone
  BY <1>10 DEF MergeDone, IInv, TypeOK, StagingAllowed, envVars, bounds
<1>11. CASE Clean
  <2>1. IsLive(live')
    <3>1. IsLive(live)
      BY DEF IInv, TypeOK
    <3> QED BY <1>11, <3>1, CleanAllowed DEF Clean
  <2> QED BY <1>11, <2>1
          DEF Clean, IInv, TypeOK, StagingAllowed, envVars, bounds
<1>12. CASE DryRun
  <2>1. DOMAIN staging \subseteq Paths /\ DOMAIN live \subseteq Paths
    BY DEF IInv, TypeOK, IsLive, IsFileTree
  <2>2. DOMAIN diff' = DOMAIN NoDiff /\ \A k \in DOMAIN diff' : diff'[k] \subseteq Paths
    BY <1>12, <2>1 DEF DryRun, NoDiff, Files
  <2> QED BY <1>12, <2>2
          DEF DryRun, IInv, TypeOK, StagingAllowed, envVars, bounds
<1>13. CASE Done
  <2>1. IsJob(job)
    BY <1>13, RunningJob DEF Done, IInv
  <2> QED BY <1>13, <2>1, NoTreeIsFileTree
          DEF Done, IInv, TypeOK, StagingAllowed, envVars, bounds
<1>14. CASE IOError
  <2>1. IsLive(live') /\ IsFileTree(staging')
    BY <1>14, HalfWrittenAllowed DEF IOError, IInv, TypeOK
  <2>2. faults' \in 0..MaxFaults
    BY <1>14 DEF IOError, IInv, TypeOK
  <2> QED BY <1>14, <2>1, <2>2, AbortIInv DEF IOError, Abort, envVars
<1>15. CASE Crash
  <2>1. IsLive(live')
    BY <1>15, HalfWrittenAllowed DEF Crash
  <2> QED BY <1>15, <2>1 DEF Crash, IInv, TypeOK, StagingAllowed, envVars
<1>16. CASE UNCHANGED vars
  BY <1>16 DEF vars, bounds, IInv, TypeOK, StagingAllowed
<1> QED BY <1>1, <1>2, <1>3, <1>4, <1>5, <1>6, <1>7, <1>8, <1>9, <1>10, <1>11,
           <1>12, <1>13, <1>14, <1>15, <1>16 DEF Next, Sync

---------------------------------------------------------------------------
(* The theorems.                                                           *)

\* The inductive invariant holds.
LEMMA Invariant == Spec => []IInv
BY InitIInv, NextIInv, PTL DEF Spec

\* Variables keep their types: the data directory and the staging directory stay
\* file trees, whatever is staged, merged, removed or torn (plan.go:48-391).
THEOREM TypeCorrect == Spec => []TypeOK
<1>1. IInv => TypeOK
  BY DEF IInv
<1> QED BY <1>1, Invariant, PTL

\* A step of the engine changes only allowed files of the data directory, and
\* changes anything only in a sync that is not dry.
LEMMA LiveStep ==
    ASSUME IInv, Next, writes' = writes, live' # live
    PROVE  /\ IsJob(job) /\ ~job.profile.dryRun
           /\ \A q : FileDiffers(q, live, live') => Touchable(q, live', job.profile)
<1>1. \A p \in GatewayFiles : ~GatewayWrites(p)
  BY DEF IInv, TypeOK, GatewayWrites
<1>2. Merge \/ Clean \/ IOError \/ Crash
  BY <1>1 DEF Next, Sync, Change, Begin, BeginPaused, StageMapping, StageFails,
              StagingDone, MergeFails, MergeDone, DryRun, Done
<1>3. CASE Merge
  <2>1. pc = "merge"
    BY <1>3 DEF Merge
  <2>2. \A q : FileDiffers(q, live, live') => Touchable(q, live', job.profile)
    BY <1>3, <2>1, MergeAllowed, ComingIsToDo DEF Merge
  <2> QED BY <2>1, <2>2, RunningJob DEF IInv
<1>4. CASE Clean
  <2>1. pc = "clean"
    BY <1>4 DEF Clean
  <2>2. \A q : FileDiffers(q, live, live') => Touchable(q, live', job.profile)
    BY <1>4, <2>1, CleanAllowed DEF Clean
  <2> QED BY <2>1, <2>2, RunningJob DEF IInv
<1>5. CASE IOError \/ Crash
  <2>1. live' \in HalfWritten
    BY <1>5 DEF IOError, Crash
  <2>2. pc = "merge" /\ \A q : FileDiffers(q, live, live') => Touchable(q, live', job.profile)
    BY <2>1, HalfWrittenAllowed
  <2> QED BY <2>2, RunningJob DEF IInv
<1> QED BY <1>2, <1>3, <1>4, <1>5

\* The engine removes only files under its mappings' destinations, none that is
\* excluded or protected and none through a link, and writes only to such paths or
\* to where links in their place lead, for any commits, profiles, links and gateway
\* writes and wherever it fails or is killed (exclude.go:16-68,
\* plan.go:160-176, 214-260, 286, 320, 329-352, copy.go:30).
THEOREM OnlyManagedTouchedHolds == Spec => OnlyManagedTouched
<1> DEFINE A == writes' = writes =>
                  \A p \in Paths : Differs(p) =>
                     \/ Ours(p)
                     \/ p \in Files(live)' /\ \E r \in Paths : Real[r] = p /\ Ours(r)
<1>1. IInv /\ [Next]_vars => [A]_vars
  <2> SUFFICES ASSUME IInv, Next, writes' = writes, NEW p \in Paths, Differs(p)
               PROVE  \/ Ours(p)
                      \/ p \in Files(live)' /\ \E r \in Paths : Real[r] = p /\ Ours(r)
    OBVIOUS
  <2>1. FileDiffers(p, live, live') /\ live' # live
    BY DEF Differs, FileDiffers, Files
  <2>2. IsJob(job) /\ Touchable(p, live', job.profile)
    BY <2>1, LiveStep
  <2>3. /\ job.profile.mappings = job.spec.mappings
        /\ job.profile.excluded = job.spec.excluded \cup job.spec.defaults.excluded
    BY <2>2, JobParts
  <2>4. \A q : Allowed(q, job.profile) => Ours(q)
    BY <2>3 DEF Allowed, Ours
  <2> QED BY <2>2, <2>4 DEF Touchable, Files
<1>2. Spec => [][A]_vars
  BY <1>1, Invariant, PTL DEF Spec
<1> QED BY <1>2 DEF OnlyManagedTouched

\* A dry run changes nothing in the data directory, whether the profile asks for
\* it or inherits it (plan.go:80-94, gatewaysync_controller.go:434-437).
THEOREM DryRunReadOnlyHolds == Spec => DryRunReadOnly
<1> DEFINE A == writes' = writes /\ live' # live =>
                  /\ TRUE \notin job.spec.dryRun
                  /\ job.spec.dryRun = Inherit => ~job.spec.defaults.dryRun
<1>1. IInv /\ [Next]_vars => [A]_vars
  BY LiveStep, JobParts
<1>2. Spec => [][A]_vars
  BY <1>1, Invariant, PTL DEF Spec
<1> QED BY <1>2 DEF DryRunReadOnly

---------------------------------------------------------------------------
(* Staging and what the commit says.                                       *)

\* No root is the data directory itself or spelled with a slash at its end.
PlainRoots ==
    \A s \in Specs : \A i \in DOMAIN s.mappings :
        ~s.mappings[i].slash /\ s.mappings[i].dst # <<>>

\* No root is excluded or protected, or below such a path.
DestinationsKept ==
    \A s \in Specs : \A i \in DOMAIN s.mappings : \A q \in Paths :
        AtOrAbove(q, s.mappings[i].dst)
            => ~Skipped(q, s.defaults.excluded \cup s.excluded)

\* What the i-th mapping of a job stages.
StagedBy(i, j) == Staged(j.profile.mappings[i], j.tree, j.profile.excluded)

\* A job's mappings.
LEMMA JobMapping ==
    ASSUME NEW j, IsJob(j), NEW i \in DOMAIN j.profile.mappings
    PROVE  j.profile.mappings[i] \in Mapping /\ j.tree \in Trees
<1>1. j.profile.mappings \in Seq(Mapping) /\ j.tree \in Trees
  BY JobParts
<1> QED BY <1>1

\* A mapping of a single file has nothing for the paths below its destination.
LEMMA NothingBelowFile ==
    ASSUME NEW m \in Mapping, NEW tree \in Trees, NEW p \in Seq(STRING),
           IsFile(tree, m.source), Above(m.dst, p)
    PROVE  Origin(m, p) \notin DOMAIN tree
<1> SUFFICES ASSUME Origin(m, p) \in DOMAIN tree PROVE FALSE
  OBVIOUS
<1>1. Above(m.source, Origin(m, p))
  BY OriginIsBelow
<1>2. tree[m.source] = Dir
  BY <1>1, TreeAssumption DEF IsFile
<1>3. Found(tree, m.source) = Dir
  BY <1>2, ContentAssumption DEF Found
<1> QED BY <1>3, ContentAssumption DEF IsFile, FileContents

\* For a managed path, the mappings with a file for it are those that stage one.
LEMMA SourcesAreStaged ==
    ASSUME NEW j, IsJob(j), NEW p \in Paths, Managed(p, j.profile),
           NEW i \in DOMAIN j.profile.mappings
    PROVE  i \in Sources(p, j) <=>
              /\ p \in StagedBy(i, j)
              /\ Found(j.tree, Origin(j.profile.mappings[i], p)) \in Contents
<1> DEFINE m == j.profile.mappings[i]
<1>1. m \in Mapping /\ j.tree \in Trees /\ p \in Seq(STRING)
  BY JobMapping, PathsAreSeqs
<1>2. i \in Sources(p, j) <=> Mapped(m, p, j.tree) /\ IsFile(j.tree, Origin(m, p))
  BY DEF Sources
<1>3. /\ ~Skipped(p, j.profile.excluded)
      /\ WalkReaches(m, p, j.profile.excluded)
  BY UpToIs DEF Managed, WalkReaches, AtOrAbove
<1> HIDE DEF m
<1>4. Origin(m, m.dst) = m.source /\ ~Above(m.dst, m.dst)
  BY <1>1, OriginOfFile, MappingFields, AboveIrreflexive
<1>5. CASE IsFile(j.tree, m.source)
  <2>1. p \in Staged(m, j.tree, j.profile.excluded) <=> p = m.dst
    BY <1>3, <1>5 DEF Staged, Type
  <2>2. Above(m.dst, p) => Origin(m, p) \notin DOMAIN j.tree
    BY <1>1, <1>5, NothingBelowFile
  <2>3. p = m.dst => IsFile(j.tree, Origin(m, p)) /\ Origin(m, p) \in DOMAIN j.tree
    BY <1>4, <1>5 DEF IsFile
  <2>4. Mapped(m, p, j.tree) <=> p = m.dst
    BY <1>5, <2>2, <2>3 DEF Mapped, AtOrAbove
  <2> QED BY <1>2, <2>1, <2>3, <2>4 DEF StagedBy, m, IsFile
<1>6. CASE ~IsFile(j.tree, m.source)
  <2>1. p \in Staged(m, j.tree, j.profile.excluded) <=>
           /\ Above(m.dst, p) /\ Origin(m, p) \in DOMAIN j.tree
           /\ j.tree[Origin(m, p)] \notin DOMAIN LeadsTo
    BY <1>3, <1>6 DEF Staged, Type
  <2>2. Mapped(m, p, j.tree) <=>
           /\ Above(m.dst, p) /\ Origin(m, p) \in DOMAIN j.tree
           /\ j.tree[Origin(m, p)] \notin DOMAIN LeadsTo
    BY <1>4, <1>6 DEF Mapped, AtOrAbove
  <2> QED BY <1>2, <2>1, <2>2 DEF StagedBy, m, IsFile
<1> QED BY <1>5, <1>6

\* What is staged is managed, if the destinations are kept.
LEMMA StagedManaged ==
    ASSUME DestinationsKept, NEW j, IsJob(j), NEW i \in DOMAIN j.profile.mappings,
           NEW p \in StagedBy(i, j)
    PROVE  Managed(p, j.profile)
<1> DEFINE m == j.profile.mappings[i]
           ex == j.profile.excluded
<1>1. m \in Mapping /\ j.tree \in Trees
  BY JobMapping
<1>2. /\ p \in Paths /\ ~Skipped(p, ex) /\ AtOrAbove(m.dst, p)
  BY <1>1, StagedIsManaged DEF StagedBy
<1>3. m.dst \in Seq(STRING) /\ p \in Seq(STRING)
  BY <1>1, <1>2, MappingFields, PathsAreSeqs
<1>4. ASSUME NEW q \in Paths, AtOrAbove(q, p)
      PROVE  ~Skipped(q, ex)
  <2>1. AtOrAbove(q, m.dst) \/ Above(m.dst, q)
    BY <1>2, <1>3, <1>4, PathsAreSeqs, AboveComparable
  <2>2. CASE AtOrAbove(q, m.dst)
    <3>1. j.spec \in Specs /\ j.profile.mappings = j.spec.mappings
          /\ ex = j.spec.defaults.excluded \cup j.spec.excluded
      BY JobParts DEF IsJob
    <3> QED BY <2>2, <3>1 DEF DestinationsKept
  <2>3. CASE Above(m.dst, q)
    <3>1. CASE Type(m, j.tree) = "file"
      <4>1. p = m.dst
        BY <3>1 DEF StagedBy, Staged
      <4>2. AtOrAbove(q, m.dst) /\ q \in Seq(STRING)
        BY <1>4, <4>1, PathsAreSeqs
      <4>3. Above(q, q) \/ Above(m.dst, m.dst)
        BY <1>3, <2>3, <4>2, AboveTransitive DEF AtOrAbove
      <4> QED BY <1>3, <4>2, <4>3, AboveIrreflexive
    <3>2. CASE Type(m, j.tree) # "file"
      <4>1. WalkReaches(m, p, ex)
        BY <3>2 DEF StagedBy, Staged
      <4> QED BY <1>4, <2>3, <4>1 DEF WalkReaches
    <3> QED BY <3>1, <3>2
  <2> QED BY <2>1, <2>2, <2>3
<1> QED BY <1>2, <1>4, UpToIs DEF Managed

\* With plain roots the walk over the data directory gets to every managed path.
LEMMA CleanWalkReachesManaged ==
    ASSUME PlainRoots, NEW j, IsJob(j), NEW p \in Paths, Managed(p, j.profile)
    PROVE  UnderManagedRoot(p, j.profile.mappings) /\ CleanWalkReaches(p, j.profile)
<1>1. PICK i \in DOMAIN j.profile.mappings : AtOrAbove(j.profile.mappings[i].dst, p)
  BY DEF Managed
<1> DEFINE m == j.profile.mappings[i]
<1>2. m \in Mapping /\ m.dst \in Seq(STRING) /\ p \in Seq(STRING)
  BY JobMapping, MappingFields, PathsAreSeqs
<1>3. ~m.slash /\ m.dst # <<>>
  <2>1. j.spec \in Specs /\ j.profile.mappings = j.spec.mappings
    BY JobParts DEF IsJob
  <2> QED BY <2>1 DEF PlainRoots
<1>4. ASSUME NEW q \in Paths, AtOrAbove(q, p)
      PROVE  UnderManagedRoot(q, j.profile.mappings) \/ Above(q, m.dst)
  <2>1. AtOrAbove(m.dst, q) \/ Above(q, m.dst)
    BY <1>1, <1>2, <1>4, PathsAreSeqs, AboveComparable
  <2> QED BY <1>3, <2>1 DEF UnderManagedRoot
<1> QED BY <1>1, <1>3, <1>4, UpToIs DEF UnderManagedRoot, CleanWalkReaches, Managed

\* And it gets to no other.
LEMMA OrphanIsManaged ==
    ASSUME NEW j, NEW p \in Paths, Orphan(p, j.profile)
    PROVE  Managed(p, j.profile)
BY UpToIs DEF Orphan, UnderManagedRoot, CleanWalkReaches, Managed

---------------------------------------------------------------------------
(* The invariant of an exact sync.                                         *)

\* The mappings with a file for p that are staged already.
Earlier(p) == {i \in Sources(p, job) : i < next}

\* p is staged as the last of them has it.
StagedAsLast(p) ==
    IF Earlier(p) = {} THEN p \notin Files(staging)
    ELSE /\ p \in Files(staging)
         /\ \E i \in Earlier(p) :
               /\ \A k \in Earlier(p) : k <= i
               /\ staging[p] = StagedAs(job.profile.mappings[i], job.tree, p)

StagingExact ==
    pc # "idle" => \A p \in Paths : Managed(p, job.profile) => StagedAsLast(p)

\* Nothing is staged but what mappings have, and the directories on the way.
StagingOrigin ==
    pc # "idle" =>
        /\ \A p \in Files(staging) :
              \E i \in DOMAIN job.profile.mappings : p \in StagedBy(i, job)
        /\ \A p \in DOMAIN staging :
              \E i \in DOMAIN job.profile.mappings :
                 \E n \in StagedBy(i, job) : AtOrAbove(p, n)

\* A staged path has come to the data directory; its file may since have been
\* written by the gateway.  Where links give a path two names nothing is claimed.
Merged(p) ==
    /\ p \in Files(staging) =>
          p \in Files(live) /\ (p \notin dirty => live[p] = staging[p])
    /\ p \notin Files(staging) => p \notin Files(live) \/ p \in dirty

LiveMerged ==
    pc \in {"merge", "clean"} =>
        \A p \in DOMAIN staging \ Linked : (pc = "merge" /\ p \in todo) \/ Merged(p)

\* The walk leaves no managed file behind that is not staged.
Cleaned(p) == Managed(p, job.profile) /\ p \notin dirty => p \in Files(staging)

LiveCleaned ==
    pc = "clean" => \A p \in Files(live) \ Linked : p \in todo \/ Cleaned(p)

\* The difference of the two directories, as the dry run computes it.
DiffNow ==
    pc = "diffed" /\ dirty = {} =>
        /\ diff.added = {p \in Files(staging) : Absent(p)}
        /\ diff.modified = {p \in Files(staging) : ~Absent(p) /\ ~Equal(p)}
        /\ diff.deleted = {p \in Files(live) : Orphan(p, job.profile)}

\* Where the sync is, and that it is one not done yet.
Phase ==
    /\ pc \notin {"idle", "stage"} => next > Len(job.profile.mappings)
    /\ pc \in {"diff", "diffed"} => job.profile.dryRun
    /\ pc # "idle" => synced # job
    /\ ~job.profile.paused

ExactInv ==
    /\ IInv
    /\ StagingExact /\ StagingOrigin
    /\ LiveMerged /\ LiveCleaned
    /\ DiffNow
    /\ Phase
    /\ SyncedExactly

LEMMA InitExactInv == Init => ExactInv
<1> SUFFICES ASSUME Init PROVE ExactInv
  OBVIOUS
<1>1. ~NoJob.profile.paused
  BY DEF NoJob, Job, NoSpec, Resolve, Setting, Inherit
<1> QED BY <1>1, InitIInv DEF Init, ExactInv, StagingExact, StagingOrigin, LiveMerged,
           LiveCleaned, DiffNow, Phase, SyncedExactly

\* When all mappings are staged, the staging directory has what the commit says.
LEMMA StagedAsExpected ==
    ASSUME ExactInv, pc \notin {"idle", "stage"}, NEW p \in Paths, Managed(p, job.profile)
    PROVE  /\ Sources(p, job) = {} => p \notin Files(staging)
           /\ Sources(p, job) # {} =>
                 p \in Files(staging) /\ staging[p] = Expected(p, job)
<1>1. IsJob(job) /\ next \in Nat /\ next > Len(job.profile.mappings)
  BY RunningJob DEF ExactInv, IInv, TypeOK, Phase
<1>2. job.profile.mappings \in Seq(Mapping)
  BY <1>1, JobParts
<1>3. \A i \in DOMAIN job.profile.mappings : i \in Nat /\ i < next
  BY <1>1, <1>2
<1>4. Earlier(p) = Sources(p, job) /\ Sources(p, job) \subseteq DOMAIN job.profile.mappings
  BY <1>3 DEF Earlier, Sources
<1>5. StagedAsLast(p)
  BY DEF ExactInv, StagingExact
<1>6. ASSUME Sources(p, job) # {}
      PROVE  p \in Files(staging) /\ staging[p] = Expected(p, job)
  <2>1. p \in Files(staging)
    BY <1>4, <1>5, <1>6 DEF StagedAsLast
  <2>2. PICK i \in Sources(p, job) :
           /\ \A k \in Sources(p, job) : k <= i
           /\ staging[p] = StagedAs(job.profile.mappings[i], job.tree, p)
    BY <1>4, <1>5, <1>6 DEF StagedAsLast
  <2> DEFINE l == CHOOSE x \in Sources(p, job) : \A k \in Sources(p, job) : k <= x
  <2>3. l \in Sources(p, job) /\ \A k \in Sources(p, job) : k <= l
    BY <2>2
  <2> HIDE DEF l
  <2>4. l = i
    <3>1. l <= i /\ i <= l /\ l \in Nat /\ i \in Nat
      BY <1>3, <1>4, <2>2, <2>3
    <3> QED BY <3>1
  <2>5. Found(job.tree, Origin(job.profile.mappings[i], p)) \in Contents
    BY DEF Sources, IsFile
  <2>6. Expected(p, job) =
           IF job.profile.mappings[l].template
           THEN Render[Found(job.tree, Origin(job.profile.mappings[l], p))]
           ELSE Found(job.tree, Origin(job.profile.mappings[l], p))
    BY DEF Expected, l
  <2> QED BY <2>1, <2>2, <2>4, <2>5, <2>6 DEF StagedAs
<1> QED BY <1>4, <1>5, <1>6 DEF StagedAsLast

\* Staging one more mapping: its files win over the earlier ones.
LEMMA StageMappingExact ==
    ASSUME ExactInv, StageMapping
    PROVE  (StagingExact /\ StagingOrigin)'
<1> DEFINE m == job.profile.mappings[next]
           ex == job.profile.excluded
           new == StagedBy(next, job)
           parents == {q \in Paths : \E p \in new : Above(q, p)}
<1>1. /\ pc = "stage" /\ next <= Len(job.profile.mappings)
      /\ Stageable(m, job.tree, ex)
      /\ staging' = StagedOnto(staging, m, job.tree, ex)
      /\ next' = next + 1 /\ UNCHANGED <<job, pc>>
  BY DEF StageMapping
<1>2. /\ IsJob(job) /\ next \in Nat /\ next >= 1
      /\ job.profile.mappings \in Seq(Mapping)
  BY <1>1, RunningJob, JobParts DEF ExactInv, IInv, TypeOK
<1>3. next \in DOMAIN job.profile.mappings /\ m \in Mapping /\ job.tree \in Trees
  BY <1>1, <1>2, JobMapping
<1>4. /\ DOMAIN staging' = DOMAIN staging \cup parents \cup new
      /\ \A p \in DOMAIN staging' :
            staging'[p] = IF p \in new THEN StagedAs(m, job.tree, p)
                          ELSE IF p \in DOMAIN staging THEN staging[p] ELSE Dir
  BY <1>1 DEF StagedOnto, StagedBy
<1>5. \A p \in new : /\ StagedAs(m, job.tree, p) \in FileContents \cup {Dir}
                     /\ Fits(staging, p, StagedAs(m, job.tree, p))
  BY <1>1, <1>3, StagedAsType DEF Stageable, StagedBy
<1>6. Dir \notin FileContents
  BY ContentAssumption
<1> HIDE DEF m, ex, new
<1>7. ASSUME NEW p, p \notin new
      PROVE  /\ p \in Files(staging') <=> p \in Files(staging)
             /\ p \in Files(staging) => staging'[p] = staging[p]
  BY <1>4, <1>6, <1>7 DEF Files
<1>8. ASSUME NEW p \in Paths, Managed(p, job.profile)
      PROVE  StagedAsLast(p)'
  <2>1. StagedAsLast(p)
    BY <1>1, <1>8 DEF ExactInv, StagingExact
  <2>2. next \in Sources(p, job) <=>
           p \in new /\ Found(job.tree, Origin(m, p)) \in Contents
    BY <1>2, <1>3, <1>8, SourcesAreStaged DEF new, m
  <2>3. \A k \in Sources(p, job) : k \in Nat
    BY <1>2 DEF Sources
  <2>4. CASE next \in Sources(p, job)
    <3>1. Earlier(p)' = Earlier(p) \cup {next}
      BY <1>1, <1>2, <2>3, <2>4 DEF Earlier, Sources
    <3>2. \A k \in Earlier(p)' : k <= next
      BY <1>2, <2>3, <3>1 DEF Earlier
    <3>3. p \in Files(staging') /\ staging'[p] = StagedAs(m, job.tree, p)
      <4>1. StagedAs(m, job.tree, p) # Dir
        <5>1. Found(job.tree, Origin(m, p)) \in Contents
          BY <2>2, <2>4
        <5>2. /\ Render[Found(job.tree, Origin(m, p))] \in Contents \cup {Unrenderable}
              /\ StagedAs(m, job.tree, p) # Unrenderable
          BY <1>1, <2>2, <2>4, <5>1, ContentAssumption DEF Stageable, new, StagedBy, m, ex
        <5> QED BY <5>1, <5>2, <1>6 DEF StagedAs, FileContents
      <4> QED BY <1>4, <1>5, <2>2, <2>4, <4>1 DEF Files
    <3> QED BY <1>1, <3>1, <3>2, <3>3 DEF StagedAsLast, m
  <2>5. CASE next \notin Sources(p, job)
    <3>1. Earlier(p)' = Earlier(p)
      BY <1>1, <1>2, <2>3, <2>5 DEF Earlier, Sources
    <3>2. /\ p \in Files(staging') <=> p \in Files(staging)
          /\ p \in Files(staging) => staging'[p] = staging[p]
      <4>1. CASE p \in new
        <5>1. Found(job.tree, Origin(m, p)) = Dir
          BY <1>3, <2>2, <2>5, <4>1, StagedIsManaged DEF new, StagedBy, m
        <5>2. StagedAs(m, job.tree, p) = Dir
          BY <1>6, <5>1 DEF StagedAs, FileContents
        <5>3. p \notin Files(staging') /\ p \notin Files(staging)
          BY <1>4, <1>5, <1>6, <4>1, <5>2 DEF Files, Fits
        <5> QED BY <5>3
      <4> QED BY <1>7, <4>1
    <3> QED BY <1>1, <2>1, <3>1, <3>2 DEF StagedAsLast
  <2> QED BY <2>4, <2>5
<1>9. StagingExact'
  BY <1>1, <1>8 DEF StagingExact
<1>10. StagingOrigin'
  <2>1. ASSUME NEW p \in Files(staging')
        PROVE  \E i \in DOMAIN job.profile.mappings : p \in StagedBy(i, job)
    BY <1>1, <1>3, <1>7, <2>1 DEF ExactInv, StagingOrigin, new
  <2>2. ASSUME NEW p \in DOMAIN staging'
        PROVE  \E i \in DOMAIN job.profile.mappings :
                  \E n \in StagedBy(i, job) : AtOrAbove(p, n)
    <3>1. CASE p \in DOMAIN staging
      BY <1>1, <3>1 DEF ExactInv, StagingOrigin
    <3>2. CASE p \in parents \cup new
      <4>1. \E n \in new : AtOrAbove(p, n)
        BY <3>2 DEF AtOrAbove
      <4> QED BY <1>3, <4>1 DEF new
    <3> QED BY <1>4, <2>2, <3>1, <3>2
  <2> QED BY <1>1, <2>1, <2>2 DEF StagingOrigin, StagedBy, Files
<1> QED BY <1>9, <1>10

\* Steps that leave job, progress and the staging directory.
LEMMA StagingKept ==
    ASSUME ExactInv, UNCHANGED <<job, next, staging>>, pc' = "idle" \/ pc # "idle"
    PROVE  (StagingExact /\ StagingOrigin)'
BY DEF ExactInv, StagingExact, StagingOrigin, StagedAsLast, Earlier, Sources, StagedBy,
       Files, Managed

\* The gateway writes: its file is dirty from now on, and no other is touched.
LEMMA GatewayWritesExact ==
    ASSUME ExactInv, NEW p \in GatewayFiles, GatewayWrites(p)
    PROVE  (LiveMerged /\ LiveCleaned /\ DiffNow /\ Phase /\ SyncedExactly)'
<1>1. /\ UNCHANGED <<job, synced, pc, next, todo, staging>>
      /\ dirty' = dirty \cup {p}
      /\ Fits(live, p, GatewayContent) /\ live' = Put(live, p, GatewayContent)
  BY DEF GatewayWrites
<1>2. p \in Paths /\ GatewayContent \in FileContents
  BY GatewayAssumption DEF FileContents
<1>3. \A q : q # p => ~FileDiffers(q, live, live')
  BY <1>1, <1>2, PutChangesOne DEF ExactInv, IInv, TypeOK, IsLive
<1>4. p \in Files(live')
  BY <1>1, <1>2 DEF Put, Files
<1>5. ASSUME NEW q, q # p
      PROVE  /\ q \in Files(live') <=> q \in Files(live)
             /\ q \in Files(live) => live'[q] = live[q]
             /\ q \in dirty' <=> q \in dirty
  BY <1>1, <1>3, <1>5 DEF FileDiffers
<1>6. LiveMerged'
  <2>1. ASSUME NEW q, Merged(q)
        PROVE  Merged(q)'
    <3>1. CASE q = p
      BY <1>1, <1>4, <3>1 DEF Merged, Files
    <3>2. CASE q # p
      BY <1>1, <1>5, <2>1, <3>2 DEF Merged, Files
    <3> QED BY <3>1, <3>2
  <2> QED BY <1>1, <2>1 DEF ExactInv, LiveMerged
<1>7. LiveCleaned'
  <2>1. ASSUME pc = "clean", NEW q \in Files(live') \ Linked, q \notin todo
        PROVE  Cleaned(q)'
    <3>1. CASE q = p
      BY <1>1, <3>1 DEF Cleaned
    <3>2. CASE q # p
      BY <1>1, <1>5, <2>1, <3>2 DEF ExactInv, LiveCleaned, Cleaned, Files, Managed
    <3> QED BY <3>1, <3>2
  <2> QED BY <1>1, <2>1 DEF LiveCleaned, Files
<1>8. DiffNow'
  BY <1>1 DEF DiffNow
<1>9. Phase'
  BY <1>1 DEF ExactInv, Phase
<1>10. SyncedExactly'
  <2>1. ASSUME NEW q, q # p, AsCommitted(q, job)
        PROVE  AsCommitted(q, job)'
    BY <1>1, <1>5, <2>1 DEF AsCommitted, Sources, Expected, Files
  <2>2. ASSUME pc = "idle", synced # NoJob, synced = job, ~job.profile.dryRun,
               NEW q \in Paths \ (dirty' \cup Linked), Managed(q, job.profile)
        PROVE  AsCommitted(q, job)'
    <3>1. q # p /\ q \in Paths \ (dirty \cup Linked)
      BY <1>1, <2>2
    <3>2. AsCommitted(q, job)
      BY <2>2, <3>1 DEF ExactInv, SyncedExactly
    <3> QED BY <2>1, <3>1, <3>2
  <2> QED BY <1>1, <2>2 DEF SyncedExactly, Managed
<1> QED BY <1>6, <1>7, <1>8, <1>9, <1>10

\* Merging one path.
LEMMA MergeExact ==
    ASSUME ExactInv, Merge
    PROVE  LiveMerged'
<1>1. PICK p \in todo : /\ Room(p, staging[p])
                        /\ live' = Put(live, Real[p], staging[p])
                        /\ todo' = todo \ {p}
  BY ComingIsToDo DEF Merge
<1>2. /\ pc = "merge" /\ pc' = "merge" /\ staging' = staging /\ dirty' = dirty
      /\ p \in Paths /\ p \in DOMAIN staging
      /\ IsFileTree(live) /\ IsFileTree(staging)
  BY DEF Merge, ExactInv, IInv, TypeOK, IsLive
<1>3. \A q : q # Real[p] => ~FileDiffers(q, live, live')
  BY <1>1, <1>2, PutChangesOne, RealPath DEF Room
<1>4. p \notin Linked => Real[p] = p
  BY <1>2, RealPath DEF Linked
<1>5. ASSUME p \notin Linked
      PROVE  Merged(p)'
  <2>1. p \in DOMAIN live' /\ live'[p] = staging[p]
    BY <1>1, <1>4, <1>5 DEF Put
  <2> QED BY <1>2, <2>1 DEF Merged, Files
<1>6. ASSUME NEW q, q \notin Linked, q # p, Merged(q)
      PROVE  Merged(q)'
  <2>1. q # Real[p]
    BY <1>2, <1>4, <1>6, RealPath DEF Linked
  <2> QED BY <1>2, <1>3, <1>6, <2>1 DEF Merged, Files, FileDiffers
<1> QED BY <1>1, <1>2, <1>5, <1>6 DEF ExactInv, LiveMerged

\* The walk over the data directory comes to one path.
LEMMA CleanExact ==
    ASSUME PlainRoots, ExactInv, Clean
    PROVE  (LiveMerged /\ LiveCleaned)'
<1>1. PICK p \in todo :
         /\ IF p \in Files(live) /\ Orphan(p, job.profile)
            THEN \/ live' = Without(live, p, job.profile.mappings)
                 \/ p \in dirty /\ live' = live
            ELSE live' = live
         /\ todo' = todo \ {p}
  BY ComingIsToDo DEF Clean
<1>2. /\ pc = "clean" /\ pc' = "clean" /\ UNCHANGED <<staging, dirty, job>>
      /\ p \in Paths /\ IsLive(live) /\ IsFileTree(live) /\ IsFileTree(staging)
      /\ IsJob(job) /\ job.profile.mappings \in Seq(Mapping)
  BY RunningJob, JobParts DEF Clean, ExactInv, IInv, TypeOK, IsLive
<1>3. \A q \in DOMAIN staging \ Linked : Merged(q)
  BY <1>2 DEF ExactInv, LiveMerged
<1>4. CASE live' = live
  <2>1. LiveMerged'
    BY <1>2, <1>3, <1>4 DEF LiveMerged, Merged, Files
  <2>2. ASSUME p \in Files(live) \ Linked, Managed(p, job.profile), p \notin dirty
        PROVE  p \in Files(staging)
    <3>1. p \in Files(live) /\ Orphan(p, job.profile) => FALSE
      <4>1. p \in Files(live) /\ Orphan(p, job.profile)
                => live' = Without(live, p, job.profile.mappings)
        BY <1>1, <2>2
      <4>2. p \notin DOMAIN Without(live, p, job.profile.mappings)
        BY DEF Without
      <4> QED BY <1>4, <2>2, <4>1, <4>2 DEF Files
    <3>2. ~Missing(staging, p)
      BY <1>2, <2>2, <3>1, CleanWalkReachesManaged DEF Orphan
    <3>3. CASE p \in DOMAIN staging
      BY <1>3, <2>2, <3>3 DEF Merged
    <3>4. CASE \E q \in DOMAIN staging : Above(q, p) /\ staging[q] # Dir
      <4>1. PICK q \in DOMAIN staging : Above(q, p) /\ staging[q] # Dir
        BY <3>4
      <4>2. q \in Files(staging) /\ q \in Paths /\ q \in DOMAIN staging
        BY <1>2, <4>1 DEF IsFileTree, Files
      <4>5. q \notin Linked
        BY <1>2, <2>2, <4>1, <4>2, LinkedIsClosed DEF AtOrAbove
      <4>3. q \in Files(live)
        BY <1>3, <4>2, <4>5 DEF Merged
      <4>4. live[q] = Dir
        BY <1>2, <2>2, <4>1, <4>2 DEF IsFileTree, Files
      <4> QED BY <4>3, <4>4, ContentAssumption DEF Files
    <3> QED BY <3>2, <3>3, <3>4 DEF Missing
  <2>3. LiveCleaned'
    <3>1. ASSUME NEW q \in Files(live) \ Linked, q \notin todo'
          PROVE  Cleaned(q)
      BY <1>1, <1>2, <2>2, <3>1 DEF ExactInv, LiveCleaned, Cleaned
    <3> QED BY <1>2, <1>4, <3>1 DEF LiveCleaned, Cleaned, Files, Managed
  <2> QED BY <2>1, <2>3
<1>5. CASE live' # live
  <2>1. /\ p \in Files(live) /\ Orphan(p, job.profile)
        /\ live' = Without(live, p, job.profile.mappings)
    BY <1>1, <1>5
  <2>2. \A q : q # p => ~FileDiffers(q, live, live')
    BY <1>2, <2>1, WithoutIsLive
  <2>3. p \notin DOMAIN staging
    BY <2>1 DEF Orphan, Missing
  <2>4. ASSUME NEW q \in DOMAIN staging \ Linked
        PROVE  Merged(q)'
    BY <1>2, <1>3, <2>2, <2>3 DEF Merged, Files, FileDiffers
  <2>5. LiveMerged'
    BY <1>2, <2>4 DEF LiveMerged
  <2>6. p \notin Files(live')
    BY <2>1 DEF Without, Files
  <2>7. ASSUME NEW q \in Files(live') \ Linked, q \notin todo'
        PROVE  Cleaned(q)
    <3>1. q # p /\ q \in Files(live)
      BY <2>2, <2>6, <2>7 DEF FileDiffers
    <3> QED BY <1>1, <1>2, <2>7, <3>1 DEF ExactInv, LiveCleaned
  <2>8. LiveCleaned'
    BY <1>2, <2>7 DEF LiveCleaned, Cleaned, Files, Managed
  <2> QED BY <2>5, <2>8
<1> QED BY <1>4, <1>5

\* A sync ends: what was staged is what the commit says, all of it has come to the
\* data directory, and nothing else that is managed is left there.
LEMMA DoneExact ==
    ASSUME ExactInv, Done
    PROVE  SyncedExactly'
<1>1. /\ UNCHANGED <<job, live, dirty>>
      /\ pc = "diffed" \/ (pc = "clean" /\ todo = {})
  BY DEF Done
<1>2. CASE pc = "diffed"
  BY <1>1, <1>2 DEF ExactInv, Phase, SyncedExactly
<1>3. CASE pc = "clean" /\ todo = {}
  <2>1. ASSUME NEW p \in Paths \ (dirty \cup Linked), Managed(p, job.profile)
        PROVE  AsCommitted(p, job)
    <3>1. CASE Sources(p, job) = {}
      <4>1. p \notin Files(staging)
        BY <1>3, <2>1, <3>1, StagedAsExpected
      <4> QED BY <1>3, <2>1, <3>1, <4>1 DEF ExactInv, LiveCleaned, Cleaned, AsCommitted
    <3>2. CASE Sources(p, job) # {}
      <4>1. p \in Files(staging) /\ staging[p] = Expected(p, job)
        BY <1>3, <2>1, <3>2, StagedAsExpected
      <4>2. Merged(p)
        BY <1>3, <4>1 DEF ExactInv, LiveMerged, Files
      <4> QED BY <2>1, <3>2, <4>1, <4>2 DEF Merged, AsCommitted
    <3> QED BY <3>1, <3>2
  <2>2. ASSUME NEW p \in Paths \ (dirty' \cup Linked), Managed(p, job.profile)
        PROVE  AsCommitted(p, job)'
    <3>1. AsCommitted(p, job)
      BY <1>1, <2>1, <2>2
    <3> QED BY <1>1, <3>1 DEF AsCommitted
  <2> QED BY <1>1, <2>2 DEF SyncedExactly, Managed
<1> QED BY <1>1, <1>2, <1>3

\* A sync that is given up, in any way, is not the one synced last.
LEMMA AbortExact ==
    ASSUME ExactInv, pc # "idle", Abort, UNCHANGED staging
    PROVE  ( /\ StagingExact /\ StagingOrigin /\ LiveMerged /\ LiveCleaned /\ DiffNow
             /\ Phase /\ SyncedExactly )'
BY DEF ExactInv, Abort, StagingExact, StagingOrigin, LiveMerged, LiveCleaned, DiffNow,
       Phase, SyncedExactly

\* Every step keeps ExactInv.
LEMMA NextExactInv == PlainRoots /\ ExactInv /\ [Next]_vars => ExactInv'
<1> SUFFICES ASSUME PlainRoots, ExactInv, [Next]_vars
             PROVE  ( /\ StagingExact /\ StagingOrigin /\ LiveMerged /\ LiveCleaned
                      /\ DiffNow /\ Phase /\ SyncedExactly )'
  BY NextIInv DEF ExactInv
<1>1. ASSUME UNCHANGED <<job, synced, pc, next, todo, staging, live, diff, dirty>>
      PROVE  ( /\ StagingExact /\ StagingOrigin /\ LiveMerged /\ LiveCleaned
               /\ DiffNow /\ Phase /\ SyncedExactly )'
  <2>1. (StagingExact /\ StagingOrigin)'
    BY <1>1, StagingKept DEF ExactInv, StagingExact, StagingOrigin
  <2>2. (LiveMerged /\ LiveCleaned)'
    BY <1>1 DEF ExactInv, LiveMerged, LiveCleaned, Merged, Cleaned, Files, Managed
  <2>3. DiffNow' /\ Phase'
    BY <1>1 DEF ExactInv, DiffNow, Phase, Files, Absent, Equal, Missing, Orphan,
                UnderManagedRoot, CleanWalkReaches
  <2>4. SyncedExactly'
    BY <1>1 DEF ExactInv, SyncedExactly, Managed, AsCommitted
  <2> QED BY <2>1, <2>2, <2>3, <2>4
<1>2. CASE UNCHANGED vars
  BY <1>1, <1>2 DEF vars
<1>3. CASE Change
  BY <1>1, <1>3 DEF Change
<1>4. ASSUME NEW p \in GatewayFiles, GatewayWrites(p)
      PROVE  ( /\ StagingExact /\ StagingOrigin /\ LiveMerged /\ LiveCleaned
               /\ DiffNow /\ Phase /\ SyncedExactly )'
  <2>1. UNCHANGED <<job, next, staging, pc>>
    BY <1>4 DEF GatewayWrites
  <2>2. (StagingExact /\ StagingOrigin)'
    BY <2>1, StagingKept DEF StagingExact, StagingOrigin
  <2> QED BY <1>4, <2>2, GatewayWritesExact
<1>5. CASE Begin
  <2>1. /\ pc' = "stage" /\ next' = 1 /\ job' = Wanted /\ synced' = synced
        /\ staging' = NoTree /\ synced # Wanted /\ ~Resolve(spec).paused
    BY <1>5 DEF Begin
  <2>2. IsJob(job') /\ ~job'.profile.paused
    BY <2>1, WantedIsJob DEF ExactInv, IInv, Wanted, Job
  <2>3. Files(staging') = {} /\ DOMAIN staging' = {}
    BY <2>1, NoTreeIsFileTree DEF NoTree
  <2>4. \A p : Earlier(p)' = {}
    <3>1. job'.profile.mappings \in Seq(Mapping)
      BY <2>2, JobParts
    <3>2. \A i \in DOMAIN job'.profile.mappings : i \in Nat /\ ~(i < 1)
      BY <3>1
    <3> QED BY <2>1, <3>2 DEF Earlier, Sources
  <2>5. (StagingExact /\ StagingOrigin)'
    BY <2>3, <2>4 DEF StagingExact, StagingOrigin, StagedAsLast, Files
  <2> QED BY <2>1, <2>2, <2>5 DEF LiveMerged, LiveCleaned, DiffNow, Phase, SyncedExactly
<1>6. CASE BeginPaused
  <2>1. /\ pc' = "idle" /\ job' = job /\ synced' = Wanted /\ Resolve(spec).paused
    BY <1>6 DEF BeginPaused
  <2>2. synced' # job' /\ ~job'.profile.paused
    BY <2>1 DEF ExactInv, Phase, Wanted, Job
  <2> QED BY <2>1, <2>2 DEF StagingExact, StagingOrigin, LiveMerged, LiveCleaned, DiffNow,
             Phase, SyncedExactly
<1>7. CASE StageMapping
  <2>1. pc' = "stage" /\ UNCHANGED <<job, synced>> /\ pc = "stage"
    BY <1>7 DEF StageMapping
  <2> QED BY <1>7, <2>1, StageMappingExact
          DEF ExactInv, LiveMerged, LiveCleaned, DiffNow, Phase, SyncedExactly
<1>8. CASE StageFails \/ MergeFails \/ IOError
  BY <1>8, AbortExact DEF StageFails, MergeFails, IOError
<1>9. CASE StagingDone
  <2>1. /\ pc = "stage" /\ UNCHANGED <<job, synced, next, staging>>
        /\ next > Len(job.profile.mappings)
        /\ pc' = IF job.profile.dryRun THEN "diff" ELSE "merge"
        /\ todo' = DOMAIN staging
    BY <1>9 DEF StagingDone
  <2>2. (StagingExact /\ StagingOrigin)'
    BY <2>1, StagingKept
  <2> QED BY <2>1, <2>2
          DEF ExactInv, LiveMerged, LiveCleaned, DiffNow, Phase, SyncedExactly
<1>10. CASE Merge
  <2>1. pc = "merge" /\ pc' = "merge" /\ UNCHANGED <<job, synced, next, staging>>
    BY <1>10 DEF Merge
  <2>2. (StagingExact /\ StagingOrigin)'
    BY <2>1, StagingKept
  <2> QED BY <1>10, <2>1, <2>2, MergeExact
          DEF ExactInv, LiveCleaned, DiffNow, Phase, SyncedExactly
<1>11. CASE MergeDone
  <2>1. /\ pc = "merge" /\ pc' = "clean" /\ todo = {} /\ todo' = Paths
        /\ UNCHANGED <<job, synced, next, staging, live, dirty>>
    BY <1>11 DEF MergeDone
  <2>2. (StagingExact /\ StagingOrigin)'
    BY <2>1, StagingKept
  <2>3. LiveMerged'
    BY <2>1 DEF ExactInv, LiveMerged, Merged, Files
  <2>4. LiveCleaned'
    BY <2>1 DEF ExactInv, IInv, TypeOK, IsLive, IsFileTree, LiveCleaned, Files
  <2> QED BY <2>1, <2>2, <2>3, <2>4 DEF ExactInv, DiffNow, Phase, SyncedExactly
<1>12. CASE Clean
  <2>1. pc = "clean" /\ pc' = "clean" /\ UNCHANGED <<job, synced, next, staging>>
    BY <1>12 DEF Clean
  <2>2. (StagingExact /\ StagingOrigin)'
    BY <2>1, StagingKept
  <2> QED BY <1>12, <2>1, <2>2, CleanExact DEF ExactInv, DiffNow, Phase, SyncedExactly
<1>13. CASE DryRun
  <2>1. /\ pc = "diff" /\ pc' = "diffed"
        /\ UNCHANGED <<job, synced, next, staging, live>>
    BY <1>13 DEF DryRun
  <2>2. (StagingExact /\ StagingOrigin)'
    BY <2>1, StagingKept
  <2>3. DiffNow'
    BY <1>13, <2>1 DEF DryRun, DiffNow, Files, Absent, Equal, Missing, Orphan,
                       UnderManagedRoot, CleanWalkReaches
  <2> QED BY <2>1, <2>2, <2>3 DEF ExactInv, LiveMerged, LiveCleaned, Phase, SyncedExactly
<1>14. CASE Done
  <2>1. pc' = "idle" /\ job' = job
    BY <1>14 DEF Done
  <2> QED BY <1>14, <2>1, DoneExact
          DEF ExactInv, StagingExact, StagingOrigin, LiveMerged, LiveCleaned, DiffNow, Phase
<1>15. CASE Crash
  <2>1. pc' = "idle" /\ job' = NoJob /\ synced' = NoJob
    BY <1>15 DEF Crash
  <2>2. ~NoJob.profile.paused
    BY DEF NoJob, Job, NoSpec, Resolve, Setting, Inherit
  <2> QED BY <2>1, <2>2 DEF StagingExact, StagingOrigin, LiveMerged, LiveCleaned, DiffNow,
             Phase, SyncedExactly
<1> QED BY <1>2, <1>3, <1>4, <1>5, <1>6, <1>7, <1>8, <1>9, <1>10, <1>11, <1>12, <1>13,
           <1>14, <1>15 DEF Next, Sync

\* With plain roots the invariant of an exact sync holds.
LEMMA ExactInvariant ==
    ASSUME PlainRoots
    PROVE  Spec => []ExactInv
<1>1. ExactInv /\ [Next]_vars => ExactInv'
  BY NextExactInv
<1> QED BY <1>1, InitExactInv, PTL DEF Spec

\* With plain roots, a sync that succeeds leaves every managed path exactly as the
\* commit says: later mappings over earlier ones, orphans gone, and nothing left of
\* earlier attempts that failed or were killed; but for what the gateway wrote
\* meanwhile and what links give two names (plan.go:48-114, 150-216, 266-391).
THEOREM SyncedExactlyHolds ==
    ASSUME PlainRoots
    PROVE  Spec => []SyncedExactly
<1>1. ExactInv => SyncedExactly
  BY DEF ExactInv
<1> QED BY <1>1, ExactInvariant, PTL

---------------------------------------------------------------------------
(* The dry run.                                                            *)

\* A staged entry is one that the commit has.
LEMMA StagedMapped ==
    ASSUME NEW j, IsJob(j), NEW i \in DOMAIN j.profile.mappings, NEW p \in StagedBy(i, j)
    PROVE  p \in Paths /\ Mapped(j.profile.mappings[i], p, j.tree)
<1> DEFINE m == j.profile.mappings[i]
<1>1. m \in Mapping /\ j.tree \in Trees
  BY JobMapping
<1>2. /\ p \in Paths /\ AtOrAbove(m.dst, p) /\ Origin(m, p) \in DOMAIN j.tree
  BY <1>1, StagedIsManaged DEF StagedBy
<1>3. CASE Type(m, j.tree) = "file"
  <2>1. p = m.dst /\ IsFile(j.tree, m.source)
    BY <1>3 DEF StagedBy, Staged, Type
  <2> QED BY <1>2, <2>1 DEF Mapped
<1>4. CASE Type(m, j.tree) # "file"
  <2>1. Above(m.dst, p) /\ j.tree[Origin(m, p)] \notin DOMAIN LeadsTo
    BY <1>4 DEF StagedBy, Staged
  <2>2. ~Above(m.dst, m.dst)
    BY <1>1, MappingFields, AboveIrreflexive
  <2> QED BY <1>2, <2>1, <2>2 DEF Mapped
<1> QED BY <1>3, <1>4

\* The data directory has room for whatever is staged, unless it is blocked.
LEMMA StagedFits ==
    ASSUME DestinationsKept, ~Blocked(job), IsJob(job),
           NEW i \in DOMAIN job.profile.mappings, NEW p \in StagedBy(i, job)
    PROVE  Fits(live, Real[p], Found(job.tree, Origin(job.profile.mappings[i], p)))
<1>1. Room(p, Found(job.tree, Origin(job.profile.mappings[i], p)))
  BY StagedManaged, StagedMapped DEF Blocked
<1> QED BY <1>1 DEF Room

\* A staged file, and room for it.
LEMMA StagedFile ==
    ASSUME DestinationsKept, ExactInv, ~Blocked(job), pc \notin {"idle", "stage"},
           NEW p \in Files(staging)
    PROVE  /\ p \in Paths /\ Managed(p, job.profile)
           /\ Sources(p, job) # {} /\ staging[p] = Expected(p, job)
           /\ p \notin Behind =>
                 /\ p \in DOMAIN live => live[p] # Dir
                 /\ \A q \in DOMAIN live : Above(q, p) => live[q] = Dir
<1>1. IsJob(job)
  BY RunningJob DEF ExactInv, IInv
<1>2. PICK i \in DOMAIN job.profile.mappings : p \in StagedBy(i, job)
  BY DEF ExactInv, StagingOrigin
<1>3. p \in Paths /\ Managed(p, job.profile)
  BY <1>1, <1>2, StagedManaged, StagedMapped
<1>4. Sources(p, job) # {} /\ staging[p] = Expected(p, job)
  BY <1>3, StagedAsExpected
<1>5. PICK k \in Sources(p, job) : k \in DOMAIN job.profile.mappings
  BY <1>4 DEF Sources
<1>6. /\ p \in StagedBy(k, job)
      /\ Found(job.tree, Origin(job.profile.mappings[k], p)) \in Contents
  BY <1>1, <1>3, <1>5, SourcesAreStaged
<1>7. p \notin Behind =>
         Fits(live, p, Found(job.tree, Origin(job.profile.mappings[k], p)))
  BY <1>1, <1>3, <1>5, <1>6, StagedFits, RealPath
<1> QED BY <1>3, <1>4, <1>6, <1>7, ContentAssumption DEF Fits, FileContents

\* A managed path with a source is a staged file.
LEMMA SourceIsStaged ==
    ASSUME ExactInv, pc \notin {"idle", "stage"}, NEW p \in Paths,
           Managed(p, job.profile), Sources(p, job) # {}
    PROVE  p \in Files(staging) /\ staging[p] = Expected(p, job)
BY StagedAsExpected

\* A managed file without a source is missing in the staging directory.
LEMMA SourcelessIsMissing ==
    ASSUME DestinationsKept, ExactInv, ~Blocked(job), pc \notin {"idle", "stage"},
           NEW p \in Files(live), Managed(p, job.profile), Sources(p, job) = {}
    PROVE  Missing(staging, p)
<1>1. /\ IsJob(job) /\ IsLive(live) /\ IsFileTree(live) /\ IsFileTree(staging)
      /\ p \in Paths /\ p \in DOMAIN live /\ p \notin Behind
  BY RunningJob DEF ExactInv, IInv, TypeOK, IsLive, IsFileTree, Files
<1>2. p \notin Files(staging)
  BY <1>1, StagedAsExpected
<1>3. live[p] # Dir
  BY ContentAssumption DEF Files
<1>4. ASSUME p \in DOMAIN staging PROVE FALSE
  <2>0. PICK i \in DOMAIN job.profile.mappings :
           \E n \in StagedBy(i, job) : AtOrAbove(p, n)
    BY <1>4 DEF ExactInv, StagingOrigin
  <2>1. PICK n \in StagedBy(i, job) : AtOrAbove(p, n)
    BY <2>0
  <2> DEFINE c == Found(job.tree, Origin(job.profile.mappings[i], n))
  <2>7. n \in Paths
    BY <1>1, <2>1, StagedMapped
  <2>8. n \notin Behind
    <3> SUFFICES ASSUME n \in Behind PROVE FALSE
      OBVIOUS
    <3>1. PICK l \in DOMAIN Links : AtOrAbove(l, n)
      BY DEF Behind
    <3>2. AtOrAbove(l, p) \/ Above(p, l)
      BY <1>1, <2>1, <2>7, <3>1, LinkPaths, PathsAreSeqs, AboveComparable
    <3>3. Above(p, l) => live[p] = Dir
      BY <1>1 DEF IsLive
    <3> QED BY <1>1, <1>3, <3>2, <3>3 DEF Behind
  <2>2. Fits(live, n, c)
    BY <1>1, <2>1, <2>7, <2>8, StagedFits, RealPath
  <2>3. p = n
    BY <1>1, <1>3, <2>1, <2>2 DEF Fits, AtOrAbove
  <2>4. c # Dir
    BY <1>1, <1>3, <2>2, <2>3 DEF Fits
  <2>5. c \in Contents \cup {Dir}
    BY <1>1, JobMapping, StagedIsManaged DEF StagedBy
  <2>6. i \in Sources(p, job)
    BY <1>1, <2>1, <2>3, <2>4, <2>5, SourcesAreStaged
  <2> QED BY <2>6
<1>5. ASSUME NEW q \in DOMAIN staging, Above(q, p), staging[q] # Dir
      PROVE  FALSE
  <2>1. q \in Files(staging) /\ q \in Paths
    BY <1>1, <1>5 DEF IsFileTree, Files
  <2>2. q \in DOMAIN live /\ live[q] = Dir
    BY <1>1, <1>5, <2>1 DEF IsFileTree
  <2>3. q \notin Behind
    BY <1>1, <1>5, <2>1, LinkedIsClosed DEF AtOrAbove
  <2> QED BY <2>1, <2>2, <2>3, StagedFile
<1> QED BY <1>4, <1>5 DEF Missing

\* With plain roots that are not excluded, a dry run reports exactly what a sync
\* would add, modify and delete, for any commit, profile and data directory, but
\* where links give a file two names (plan.go:394-477).
THEOREM DryRunPredictsHolds ==
    ASSUME PlainRoots, DestinationsKept
    PROVE  Spec => []DryRunPredicts
<1>1. ExactInv => DryRunPredicts
  <2> SUFFICES ASSUME ExactInv, pc = "diffed", dirty = {}, ~Blocked(job)
               PROVE  DryRunPredicts
    BY DEF DryRunPredicts
  <2> DEFINE plain == Paths \ Linked
             managed == {p \in plain : Managed(p, job.profile)}
  <2>1. /\ IsJob(job) /\ IsFileTree(live) /\ Files(live) \subseteq Paths
        /\ Files(staging) \subseteq Paths
    BY RunningJob DEF ExactInv, IInv, TypeOK, IsLive, IsFileTree, Files
  <2>2. /\ diff.added = {p \in Files(staging) : Absent(p)}
        /\ diff.modified = {p \in Files(staging) : ~Absent(p) /\ ~Equal(p)}
        /\ diff.deleted = {p \in Files(live) : Orphan(p, job.profile)}
    BY DEF ExactInv, DiffNow
  <2>3. ASSUME NEW p \in Files(staging) \cap plain
        PROVE  /\ p \in managed /\ Sources(p, job) # {} /\ staging[p] = Expected(p, job)
               /\ Absent(p) <=> p \notin DOMAIN live
               /\ Equal(p) <=> p \in DOMAIN live /\ live[p] = Expected(p, job)
    <3>1. p \notin Behind /\ p \notin DOMAIN Links /\ Real[p] = p
      <4>1. p \in Paths /\ p \notin Behind
        BY DEF Linked
      <4> QED BY <4>1, RealPath DEF Behind, AtOrAbove
    <3>2. /\ Managed(p, job.profile) /\ Sources(p, job) # {}
          /\ staging[p] = Expected(p, job)
          /\ \A q \in DOMAIN live : Above(q, p) => live[q] = Dir
      BY <3>1, StagedFile
    <3> QED BY <3>1, <3>2 DEF Absent, Equal, Missing
  <2>4. \A p \in managed : Sources(p, job) # {} => p \in Files(staging)
    BY SourceIsStaged
  <2>5. ASSUME NEW p \in Files(live) \cap plain
        PROVE  Orphan(p, job.profile) <=> p \in managed /\ Sources(p, job) = {}
    <3>1. ASSUME Orphan(p, job.profile)
          PROVE  p \in managed /\ Sources(p, job) = {}
      <4>1. p \in managed
        BY <2>1, <3>1, OrphanIsManaged
      <4>2. p \notin Files(staging)
        BY <3>1 DEF Orphan, Missing, Files
      <4> QED BY <2>4, <4>1, <4>2
    <3>2. ASSUME p \in managed, Sources(p, job) = {}
          PROVE  Orphan(p, job.profile)
      BY <2>1, <3>2, CleanWalkReachesManaged, SourcelessIsMissing DEF Orphan
    <3> QED BY <3>1, <3>2
  <2>9. managed \subseteq plain
    OBVIOUS
  <2> HIDE DEF managed, plain
  <2>6. diff.added \cap plain =
           {p \in managed : Sources(p, job) # {} /\ p \notin DOMAIN live}
    BY <2>2, <2>3, <2>4, <2>9
  <2>7. diff.modified \cap plain =
           {p \in managed \cap DOMAIN live :
               Sources(p, job) # {} /\ Expected(p, job) # live[p]}
    BY <2>2, <2>3, <2>4, <2>9
  <2>8. diff.deleted \cap plain =
           {p \in managed \cap Files(live) : Sources(p, job) = {}}
    BY <2>2, <2>5, <2>9
  <2> QED BY <2>6, <2>7, <2>8 DEF managed, plain, DryRunPredicts
<1> QED BY <1>1, ExactInvariant, PTL

=============================================================================
