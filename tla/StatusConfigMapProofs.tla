----------------------- MODULE StatusConfigMapProofs -----------------------
(***************************************************************************)
(* For any number of agents and calls: no write to the status ConfigMap is *)
(* lost, a call gives up only when overtaken, and the protocol implements  *)
(* StatusBoard.                                                            *)
(***************************************************************************)
EXTENDS StatusConfigMap, TLAPS

\* A copy that still carries the current resourceVersion is the current data.
\* This is what makes the read-modify-write safe: versions are never reused.
SnapOK(w) ==
    pc[w] = "update" =>
        /\ snap[w].version <= version
        /\ cm.present /\ cm.version = snap[w].version
            => cm.data = snap[w].data

VersionInv ==
    /\ cm.version <= version
    /\ ~cm.present => cm = Absent
    /\ \A w \in Writers : SnapOK(w)
    /\ \A w \in Writers : pc[w] # "idle" => val[w] \in Values

\* Every failed attempt of a call is paid for by a change of somebody else.
AttemptOK(w) ==
    pc[w] # "idle" =>
        /\ attempt[w] <= interfered[w] + 1
        /\ pc[w] = "create" /\ cm.present => attempt[w] <= interfered[w]
        /\ pc[w] = "update" /\ cm.version # snap[w].version
            => attempt[w] <= interfered[w]

AttemptInv ==
    /\ \A w \in Writers : AttemptOK(w)
    /\ GiveUpJustified

Inv == TypeOK /\ VersionInv /\ NoLostUpdate

\* The absent ConfigMap has the type of a ConfigMap without entries.
LEMMA AbsentType == NoEntries \in Entries /\ Absent \in ConfigMap
  BY DEF NoEntries, Entries, Absent, ConfigMap

\* Both invariants hold before the first call.
LEMMA InitInv == Init => Inv /\ AttemptInv
<1> SUFFICES ASSUME Init PROVE Inv /\ AttemptInv
  OBVIOUS
<1>1. TypeOK
  BY AbsentType DEF Init, TypeOK, Outcomes, NoEntries, Entries
<1>2. VersionInv
  BY DEF Init, VersionInv, SnapOK, Absent
<1>3. NoLostUpdate
  BY DEF Init, NoLostUpdate, Board, Absent
<1>4. AttemptInv
  BY DEF Init, AttemptInv, AttemptOK, GiveUpJustified
<1> QED
  BY <1>1, <1>2, <1>3, <1>4 DEF Inv

\* The data that a stored write leaves behind is the board before it with
\* the writer's entry replaced, and it is well typed.
LEMMA StoredData ==
  ASSUME Inv, NEW w \in Writers, CanCreate(w) \/ CanUpdate(w),
         NEW data,
         data = IF pc[w] = "create"
                THEN [NoEntries EXCEPT ![KeyOf[w]] = val[w]]
                ELSE NewData(w)
  PROVE  /\ data = [Board EXCEPT ![KeyOf[w]] = val[w]]
         /\ data \in Entries
         /\ val[w] \in Values
         /\ KeyOf[w] \in Keys
<1>1. KeyOf[w] \in Keys
  BY WriterAssumption
<1>2. val[w] \in Values
  BY DEF Inv, VersionInv, CanCreate, CanUpdate
<1>3. CASE CanCreate(w)
  <2>1. Board = NoEntries /\ data = [NoEntries EXCEPT ![KeyOf[w]] = val[w]]
    BY <1>3 DEF CanCreate, Board
  <2> QED
    BY <1>1, <1>2, <2>1, AbsentType DEF Entries
<1>4. CASE CanUpdate(w)
  <2>1. Board = cm.data /\ cm.data = snap[w].data
    BY <1>4 DEF CanUpdate, Board, Inv, VersionInv, SnapOK
  <2>2. data = NewData(w)
    BY <1>4 DEF CanUpdate
  <2>3. data = [Board EXCEPT ![KeyOf[w]] = val[w]]
    BY <2>1, <2>2 DEF NewData
  <2>4. Board \in Entries
    BY <2>1 DEF Inv, TypeOK, ConfigMap
  <2> QED
    BY <1>1, <1>2, <2>3, <2>4 DEF Entries
<1> QED
  BY <1>3, <1>4

\* Every step keeps the types.
LEMMA TypeStep == Inv /\ [Next]_vars => TypeOK'
<1> SUFFICES ASSUME Inv, [Next]_vars PROVE TypeOK'
  OBVIOUS
<1> USE DEF TypeOK, Inv
<1>1. ASSUME NEW w \in Writers, NEW v \in Values, Call(w, v)
      PROVE  TypeOK'
  BY <1>1 DEF Call, Outcomes
<1>2. ASSUME NEW w \in Writers, Get(w) PROVE TypeOK'
  BY <1>2 DEF Get
<1>3. ASSUME NEW w \in Writers, GetFails(w) PROVE TypeOK'
  BY <1>3, AbsentType DEF GetFails, Return, Outcomes
<1>4. ASSUME NEW w \in Writers, NEW r \in Outcomes, WriteStored(w, r)
      PROVE  TypeOK'
  <2> DEFINE data == IF pc[w] = "create"
                     THEN [NoEntries EXCEPT ![KeyOf[w]] = val[w]]
                     ELSE NewData(w)
  <2>1. data \in Entries /\ val[w] \in Values /\ KeyOf[w] \in Keys
    BY <1>4, StoredData DEF WriteStored
  <2>2. Store(w, data) /\ Return(w, r) /\ UNCHANGED <<calls, deletes>>
    BY <1>4 DEF WriteStored
  <2> HIDE DEF data
  <2>3. cm' \in ConfigMap /\ version' \in Nat
    BY <2>1, <2>2 DEF Store, ConfigMap
  <2>4. committed' \in Entries
    BY <2>1, <2>2 DEF Store, Entries
  <2>5. interfered' \in [Writers -> Nat]
    BY <2>2 DEF Store
  <2> QED
    BY <2>2, <2>3, <2>4, <2>5, AbsentType DEF Return, Outcomes
<1>5. ASSUME NEW w \in Writers, Retry(w) PROVE TypeOK'
  BY <1>5, AbsentType DEF Retry, Return, Outcomes
<1>6. ASSUME NEW w \in Writers, WriteFails(w) PROVE TypeOK'
  BY <1>6, AbsentType DEF WriteFails, Return, Outcomes
<1>7. CASE CleanupDelete
  BY <1>7, AbsentType DEF CleanupDelete
<1>8. CASE UNCHANGED vars
  BY <1>8 DEF vars
<1> QED
  BY <1>1, <1>2, <1>3, <1>4, <1>5, <1>6, <1>7, <1>8
     DEF Next, Step, Outcomes

\* The facts about a stored write that the other steps need.
LEMMA StoredStep ==
  ASSUME Inv, NEW w \in Writers, NEW r \in Outcomes, WriteStored(w, r)
  PROVE  /\ pc[w] \in {"create", "update"}
         /\ pc' = [pc EXCEPT ![w] = "idle"]
         /\ val' = [val EXCEPT ![w] = NoStatus]
         /\ snap' = [snap EXCEPT ![w] = Absent]
         /\ version' = version + 1
         /\ cm'.present /\ cm'.version = version + 1
         /\ cm'.data = [Board EXCEPT ![KeyOf[w]] = val[w]]
         /\ committed' = [committed EXCEPT ![KeyOf[w]] = val[w]]
         /\ val[w] \in Values
         /\ KeyOf[w] \in Keys
<1> DEFINE data == IF pc[w] = "create"
                   THEN [NoEntries EXCEPT ![KeyOf[w]] = val[w]]
                   ELSE NewData(w)
<1>1. /\ data = [Board EXCEPT ![KeyOf[w]] = val[w]]
      /\ val[w] \in Values /\ KeyOf[w] \in Keys
  BY StoredData DEF WriteStored
<1>2. Store(w, data) /\ Return(w, r)
  BY DEF WriteStored
<1>3. pc[w] \in {"create", "update"}
  BY DEF WriteStored, CanCreate, CanUpdate
<1> HIDE DEF data
<1> QED
  BY <1>1, <1>2, <1>3 DEF Store, Return

\* Every step keeps a copy that carries the current version up to date.
LEMMA VersionStep == Inv /\ [Next]_vars => VersionInv'
<1> SUFFICES ASSUME Inv, [Next]_vars PROVE VersionInv'
  OBVIOUS
<1>1. ASSUME NEW w \in Writers, NEW v \in Values, Call(w, v)
      PROVE  VersionInv'
  BY <1>1 DEF Call, Inv, TypeOK, VersionInv, SnapOK
<1>2. ASSUME NEW w \in Writers, Get(w) PROVE VersionInv'
  BY <1>2 DEF Get, ConfigMap, Inv, TypeOK, VersionInv, SnapOK
<1>3. ASSUME NEW w \in Writers, GetFails(w) PROVE VersionInv'
  BY <1>3 DEF GetFails, Return, Inv, TypeOK, VersionInv, SnapOK
<1>4. ASSUME NEW w \in Writers, NEW r \in Outcomes, WriteStored(w, r)
      PROVE  VersionInv'
  <2>0. /\ pc' = [pc EXCEPT ![w] = "idle"]
        /\ val' = [val EXCEPT ![w] = NoStatus]
        /\ snap' = [snap EXCEPT ![w] = Absent]
        /\ version' = version + 1
        /\ cm'.present /\ cm'.version = version + 1
    BY <1>4, StoredStep
  <2>1. cm'.version <= version' /\ (~cm'.present => cm' = Absent)
    BY <2>0 DEF Inv, TypeOK
  <2>2. ASSUME NEW x \in Writers PROVE SnapOK(x)'
    <3>1. CASE x = w
      BY <2>0, <3>1 DEF Inv, TypeOK, SnapOK
    <3>2. CASE x # w
      <4>1. pc'[x] = pc[x] /\ snap'[x] = snap[x]
        BY <2>0, <3>2 DEF Inv, TypeOK
      <4>2. pc[x] = "update" => snap[x].version <= version
        BY DEF Inv, VersionInv, SnapOK
      <4>3. snap[x].version \in Nat /\ version \in Nat
        BY DEF Inv, TypeOK, ConfigMap
      <4> QED
        BY <2>0, <4>1, <4>2, <4>3 DEF SnapOK
    <3> QED
      BY <3>1, <3>2
  <2>3. ASSUME NEW x \in Writers, pc'[x] # "idle" PROVE val'[x] \in Values
    BY <2>0, <2>3 DEF Inv, TypeOK, VersionInv
  <2> QED
    BY <2>1, <2>2, <2>3 DEF VersionInv
<1>5. ASSUME NEW w \in Writers, Retry(w) PROVE VersionInv'
  BY <1>5 DEF Retry, Return, Inv, TypeOK, VersionInv, SnapOK
<1>6. ASSUME NEW w \in Writers, WriteFails(w) PROVE VersionInv'
  BY <1>6 DEF WriteFails, Return, Inv, TypeOK, VersionInv, SnapOK
<1>7. CASE CleanupDelete
  BY <1>7 DEF CleanupDelete, Absent, Inv, TypeOK, VersionInv, SnapOK
<1>8. CASE UNCHANGED vars
  BY <1>8 DEF vars, Inv, TypeOK, VersionInv, SnapOK
<1> QED
  BY <1>1, <1>2, <1>3, <1>4, <1>5, <1>6, <1>7, <1>8
     DEF Next, Step, Outcomes

\* Every step leaves each gateway's entry as it was last stored.
LEMMA NoLostUpdateStep == Inv /\ [Next]_vars => NoLostUpdate'
<1> SUFFICES ASSUME Inv, [Next]_vars PROVE NoLostUpdate'
  OBVIOUS
<1>1. ASSUME NEW w \in Writers, NEW v \in Values, Call(w, v)
      PROVE  NoLostUpdate'
  BY <1>1 DEF Call, NoLostUpdate, Board, Inv
<1>2. ASSUME NEW w \in Writers, Get(w) PROVE NoLostUpdate'
  BY <1>2 DEF Get, NoLostUpdate, Board, Inv
<1>3. ASSUME NEW w \in Writers, GetFails(w) PROVE NoLostUpdate'
  BY <1>3 DEF GetFails, NoLostUpdate, Board, Inv
<1>4. ASSUME NEW w \in Writers, NEW r \in Outcomes, WriteStored(w, r)
      PROVE  NoLostUpdate'
  <2>1. /\ cm'.present
        /\ cm'.data = [Board EXCEPT ![KeyOf[w]] = val[w]]
        /\ committed' = [committed EXCEPT ![KeyOf[w]] = val[w]]
    BY <1>4, StoredStep
  <2> QED
    BY <2>1 DEF NoLostUpdate, Board, Inv
<1>5. ASSUME NEW w \in Writers, Retry(w) PROVE NoLostUpdate'
  BY <1>5 DEF Retry, NoLostUpdate, Board, Inv
<1>6. ASSUME NEW w \in Writers, WriteFails(w) PROVE NoLostUpdate'
  BY <1>6 DEF WriteFails, NoLostUpdate, Board, Inv
<1>7. CASE CleanupDelete
  BY <1>7 DEF CleanupDelete, Absent, NoLostUpdate, Board, Inv
<1>8. CASE UNCHANGED vars
  BY <1>8 DEF vars, NoLostUpdate, Board, Inv
<1> QED
  BY <1>1, <1>2, <1>3, <1>4, <1>5, <1>6, <1>7, <1>8
     DEF Next, Step, Outcomes

\* The invariant holds in every reachable state.
THEOREM Invariance == Spec => []Inv
<1>1. Init => Inv
  BY InitInv
<1>2. Inv /\ [Next]_vars => Inv'
  BY TypeStep, VersionStep, NoLostUpdateStep DEF Inv
<1> QED
  BY <1>1, <1>2, PTL DEF Spec

\* Every variable keeps its type.
THEOREM TypeCorrect == Spec => []TypeOK
<1>1. Inv => TypeOK
  BY DEF Inv
<1> QED
  BY <1>1, Invariance, PTL

\* WriteStatusConfigMap loses no update, for any number of agents and calls:
\* a status once stored stays until its own gateway replaces it or the
\* ConfigMap is deleted.
THEOREM NoLostUpdateHolds == Spec => []NoLostUpdate
<1>1. Inv => NoLostUpdate
  BY DEF Inv
<1> QED
  BY <1>1, Invariance, PTL

---------------------------------------------------------------------------

\* A stored write of w counts as an interference for every other call.
LEMMA StoredInterferes ==
  ASSUME Inv, NEW w \in Writers, NEW r \in {"ok", "error"},
         WriteStored(w, r)
  PROVE  /\ attempt' = [attempt EXCEPT ![w] = 0]
         /\ outcome' = [outcome EXCEPT ![w] = r]
         /\ interfered' = [x \in Writers |->
                             IF x # w /\ pc[x] # "idle"
                             THEN interfered[x] + 1 ELSE interfered[x]]
  BY DEF WriteStored, Store, Return

\* Every step that costs a call an attempt is a change by somebody else.
LEMMA AttemptStep == Inv /\ AttemptInv /\ [Next]_vars => AttemptInv'
<1> SUFFICES ASSUME Inv, AttemptInv, [Next]_vars PROVE AttemptInv'
  OBVIOUS
<1>0. /\ attempt \in [Writers -> Nat]
      /\ interfered \in [Writers -> Nat]
      /\ pc \in [Writers -> {"idle", "get", "create", "update"}]
      /\ outcome \in [Writers -> Outcomes]
      /\ snap \in [Writers -> ConfigMap]
  BY DEF Inv, TypeOK
<1>1. ASSUME NEW w \in Writers, NEW v \in Values, Call(w, v)
      PROVE  AttemptInv'
  BY <1>0, <1>1 DEF Call, AttemptInv, AttemptOK, GiveUpJustified
<1>2. ASSUME NEW w \in Writers, Get(w) PROVE AttemptInv'
  BY <1>0, <1>2 DEF Get, AttemptInv, AttemptOK, GiveUpJustified
<1>3. ASSUME NEW w \in Writers, GetFails(w) PROVE AttemptInv'
  BY <1>0, <1>3 DEF GetFails, Return, AttemptInv, AttemptOK, GiveUpJustified
<1>4. ASSUME NEW w \in Writers, NEW r \in {"ok", "error"},
             WriteStored(w, r)
      PROVE  AttemptInv'
  <2>1. /\ attempt' = [attempt EXCEPT ![w] = 0]
        /\ outcome' = [outcome EXCEPT ![w] = r]
        /\ interfered' = [x \in Writers |->
                            IF x # w /\ pc[x] # "idle"
                            THEN interfered[x] + 1 ELSE interfered[x]]
    BY <1>4, StoredInterferes
  <2>2. pc' = [pc EXCEPT ![w] = "idle"] /\ snap' = [snap EXCEPT ![w] = Absent]
    BY <1>4, StoredStep DEF Outcomes
  <2>3. ASSUME NEW x \in Writers PROVE AttemptOK(x)'
    <3>1. CASE x = w
      BY <1>0, <2>2, <3>1 DEF AttemptOK
    <3>2. CASE x # w
      BY <1>0, <2>1, <2>2, <3>2 DEF AttemptInv, AttemptOK
    <3> QED
      BY <3>1, <3>2
  <2>4. GiveUpJustified'
    BY <1>0, <2>1, <2>2 DEF AttemptInv, GiveUpJustified
  <2> QED
    BY <2>3, <2>4 DEF AttemptInv
<1>5. ASSUME NEW w \in Writers, Retry(w) PROVE AttemptInv'
  <2>1. attempt[w] <= interfered[w] /\ pc[w] # "idle"
    BY <1>0, <1>5 DEF Retry, AttemptInv, AttemptOK
  <2>2. CASE attempt[w] < MaxAttempts /\ pc' = [pc EXCEPT ![w] = "get"]
             /\ attempt' = [attempt EXCEPT ![w] = @ + 1]
             /\ UNCHANGED <<val, snap, outcome>>
    BY <1>0, <1>5, <2>1, <2>2
       DEF Retry, AttemptInv, AttemptOK, GiveUpJustified
  <2>3. CASE attempt[w] >= MaxAttempts /\ Return(w, "exhausted")
    <3>1. interfered[w] >= MaxAttempts
      BY <1>0, <2>1, <2>3, BoundAssumption
    <3> QED
      BY <1>0, <1>5, <2>3, <3>1
         DEF Retry, Return, AttemptInv, AttemptOK, GiveUpJustified
  <2> QED
    BY <1>5, <2>2, <2>3 DEF Retry
<1>6. ASSUME NEW w \in Writers, WriteFails(w) PROVE AttemptInv'
  BY <1>0, <1>6 DEF WriteFails, Return, AttemptInv, AttemptOK, GiveUpJustified
<1>7. CASE CleanupDelete
  BY <1>0, <1>7, BoundAssumption
     DEF CleanupDelete, Absent, AttemptInv, AttemptOK, GiveUpJustified
<1>8. CASE UNCHANGED vars
  BY <1>8 DEF vars, AttemptInv, AttemptOK, GiveUpJustified
<1> QED
  BY <1>1, <1>2, <1>3, <1>4, <1>5, <1>6, <1>7, <1>8 DEF Next, Step

\* A call of WriteStatusConfigMap fails "after 3 retries" only if others
\* changed the ConfigMap at least three times during it.
THEOREM GiveUpJustifiedHolds == Spec => []GiveUpJustified
<1>1. Init => Inv /\ AttemptInv
  BY InitInv
<1>2. Inv /\ AttemptInv /\ [Next]_vars => AttemptInv'
  BY AttemptStep
<1>3. AttemptInv => GiveUpJustified
  BY DEF AttemptInv
<1> QED
  BY <1>1, <1>2, <1>3, Invariance, PTL DEF Spec

---------------------------------------------------------------------------

\* Every step of the protocol is a step of the board or leaves it alone.
LEMMA BoardStep == Inv /\ [Next]_vars => [SB!Next]_Board
<1> SUFFICES ASSUME Inv, [Next]_vars PROVE [SB!Next]_Board
  OBVIOUS
<1>1. ASSUME NEW w \in Writers, NEW v \in Values, Call(w, v)
      PROVE  UNCHANGED Board
  BY <1>1 DEF Call, Board
<1>2. ASSUME NEW w \in Writers, Get(w) PROVE UNCHANGED Board
  BY <1>2 DEF Get, Board
<1>3. ASSUME NEW w \in Writers, GetFails(w) PROVE UNCHANGED Board
  BY <1>3 DEF GetFails, Board
<1>4. ASSUME NEW w \in Writers, NEW r \in Outcomes, WriteStored(w, r)
      PROVE  SB!Next
  <2>1. /\ cm'.present
        /\ cm'.data = [Board EXCEPT ![KeyOf[w]] = val[w]]
        /\ val[w] \in Values
        /\ KeyOf[w] \in Keys
    BY <1>4, StoredStep
  <2>2. Board' = [Board EXCEPT ![KeyOf[w]] = val[w]]
    BY <2>1 DEF Board
  <2> QED
    BY <2>1, <2>2 DEF SB!Next, SB!Put
<1>5. ASSUME NEW w \in Writers, Retry(w) PROVE UNCHANGED Board
  BY <1>5 DEF Retry, Board
<1>6. ASSUME NEW w \in Writers, WriteFails(w) PROVE UNCHANGED Board
  BY <1>6 DEF WriteFails, Board
<1>7. CASE CleanupDelete
  BY <1>7 DEF CleanupDelete, Board, Absent, NoEntries,
              SB!Next, SB!Clear, SB!EmptyBoard
<1>8. CASE UNCHANGED vars
  BY <1>8 DEF vars, Board
<1> QED
  BY <1>1, <1>2, <1>3, <1>4, <1>5, <1>6, <1>7, <1>8
     DEF Next, Step, Outcomes

\* The read-modify-write protocol implements a board with one independent
\* entry per gateway.
THEOREM ImplementsBoard == Spec => BoardSpec
<1>1. Init => SB!Init
  BY DEF Init, Board, Absent, NoEntries, SB!Init, SB!EmptyBoard
<1>2. Inv /\ [Next]_vars => [SB!Next]_Board
  BY BoardStep
<1> QED
  BY <1>1, <1>2, Invariance, PTL DEF Spec, BoardSpec, SB!Spec

=============================================================================
