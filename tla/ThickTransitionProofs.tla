------------------------ MODULE ThickTransitionProofs ------------------------
(***************************************************************************)
(* Proofs about ThickTransition: for any number of regions, values,        *)
(* snapshots, generations, kills and host losses.                          *)
(*                                                                         *)
(* The content of the volume is where the anchor's phase says it is, so    *)
(* the invariant relates the phase to everything a resumed worker trusts   *)
(* without looking: which table the frontend can have (Fronts), which      *)
(* regions of the destination are zero or hydrated (Hydration), which      *)
(* generations exist and as what (Generations), and what the worker's own  *)
(* request says (Requested).  A worker at a given step is in the phase of  *)
(* that step (Placed), however it got there.                               *)
(***************************************************************************)
EXTENDS ThickTransition, TLAPS

Preparing == {"createNew", "createMeta", "prepared"}
OldLinear == Linear(anchor.old)
OldSuspended == [OldLinear EXCEPT !.suspended = TRUE]

\* The phase a worker's step belongs to.
Placed ==
    /\ pc \in Preparing \cup {"clear", "undoMeta", "undoNew", "undoIntent"}
            => anchor.phase = "MATERIALIZED"
    /\ pc \in {"zero", "initMeta", "front", "sourceMap", "sourceReady"}
            => anchor.phase = "PREPARED"
    /\ pc \in {"suspend", "commit"} => anchor.phase = "SOURCE_READY"
    /\ pc \in {"retag", "publish", "seal", "hydrating"} => anchor.phase = "COMMITTED"
    /\ pc \in {"enable", "handOff", "hydrate"} => anchor.phase = "HYDRATING"
    /\ pc \in {"pivot", "swap", "pivoted"} => anchor.phase = "HYDRATION_COMPLETE"
    /\ pc \in {"detach", "dropMeta", "dropOld", "materialized"}
            => anchor.phase = "LINEAR_PIVOTED"
    /\ pc = "rebuildSource" => anchor.phase \in Cloned
    /\ pc = "rebuildFront" => anchor.phase \in Cloned \cup {"LINEAR_PIVOTED"}

\* How the transition's generations are numbered, and what they are.
Generations ==
    /\ lv[anchor.head].role = "head"
    /\ \A g \in Gen : lv[g].role = "snapshot" => g < anchor.head
    /\ anchor.phase \in Transition =>
        /\ anchor.new = anchor.old + 1
        /\ anchor.head = IF anchor.phase \in PreCommit THEN anchor.old ELSE anchor.new
        /\ lv[anchor.new].role = "head"
        /\ anchor.op \in {"SNAPSHOT", "ROLLBACK"} /\ anchor.snap \in Snap
        /\ anchor.op = "SNAPSHOT" => anchor.source = anchor.old
        /\ anchor.op = "ROLLBACK" =>
              SnapshotLvs(anchor.snap) = {anchor.source} /\ lv[anchor.source].ro
        /\ anchor.op = "SNAPSHOT" /\ (anchor.phase \in PreCommit \/ pc = "retag") =>
              SnapshotLvs(anchor.snap) = {}

\* A request before it is recorded, and while it is worked on.
Requested ==
    /\ job.async => job.op = "SNAPSHOT"
    /\ pc \in Preparing =>
        /\ NewGen \in Gen
        /\ job.op \in {"SNAPSHOT", "ROLLBACK"} /\ job.snap \in Snap
        /\ job.op = "SNAPSHOT" =>
              job.source = anchor.head /\ SnapshotLvs(job.snap) = {}
        /\ job.op = "ROLLBACK" =>
              SnapshotLvs(job.snap) = {job.source} /\ lv[job.source].ro
        /\ ~src
    /\ pc = "createNew" => lv[NewGen].role = "none"
    /\ pc \in {"createMeta", "prepared"} => lv[NewGen].role = "head"
    /\ pc \in {"zero", "initMeta", "front", "sourceMap", "sourceReady", "suspend",
               "commit", "retag", "publish", "seal", "hydrating", "enable", "handOff",
               "rebuildSource", "rebuildFront"}
          => job.op = anchor.op
    /\ pc = "handOff" => job.async
    /\ pc = "retag" => anchor.op = "SNAPSHOT"

\* The tables the frontend can have.
Fronts ==
    /\ anchor.phase = "MATERIALIZED" => front \in {Absent, Linear(anchor.head)}
    /\ anchor.phase = "PREPARED" => front \in {Absent, OldLinear}
    /\ anchor.phase = "SOURCE_READY" => front \in {Absent, OldLinear, OldSuspended}
    /\ anchor.phase = "COMMITTED" => front \in {Absent, OldSuspended, Clone}
    /\ anchor.phase = "HYDRATING" => front \in {Absent, Clone}
    /\ anchor.phase = "HYDRATION_COMPLETE" =>
          front \in {Absent, Clone, [Clone EXCEPT !.suspended = TRUE], Linear(anchor.new)}
    /\ anchor.phase = "LINEAR_PIVOTED" => front \in {Absent, Linear(anchor.new)}
    /\ pc \in {"commit", "retag"} => front = OldSuspended
    /\ pc \in {"seal", "hydrating"} => front = Clone
    /\ pc = "pivoted" => front = Linear(anchor.new)

\* What the clone metadata says is so, and the rest of the destination is zero.
ZeroedBy(h) == \A r \in Region \ h : data[anchor.new][r] = Zero

Hydration ==
    /\ pc = "initMeta" => ZeroedBy({})
    /\ pc \in {"front", "sourceMap", "sourceReady"} => meta.hydrated = {} /\ ZeroedBy({})
    /\ anchor.phase = "PREPARED" /\ src => meta.hydrated = {} /\ ZeroedBy({})
    /\ anchor.phase = "SOURCE_READY" => meta.hydrated = {} /\ ZeroedBy({})
    /\ anchor.phase = "COMMITTED" /\ front = OldSuspended => meta.hydrated = {}
    /\ anchor.phase \in Cloned => ZeroedBy(meta.hydrated)
    /\ anchor.phase = "HYDRATION_COMPLETE" => meta.hydrated = Region

\* The source is sealed before its transition leaves COMMITTED.
Sealing == pc = "hydrating" => lv[anchor.source].ro

ThickInv ==
    /\ TypeOK /\ Placed /\ Generations /\ Requested /\ Fronts /\ Hydration
    /\ Sealing /\ SnapshotsSealed /\ TransitionOwned

-----------------------------------------------------------------------------
(* The types of the values the steps assign                                *)

LEMMA AnchorType ==
    ASSUME anchor \in Anchor
    PROVE  /\ \A ph \in Transition \cup {"MATERIALIZED"} :
                 [anchor EXCEPT !.phase = ph] \in Anchor
           /\ [anchor EXCEPT !.phase = "COMMITTED", !.head = anchor.new] \in Anchor
           /\ anchor.head \in Gen /\ anchor.old \in Gen /\ anchor.new \in Gen
           /\ anchor.source \in Gen
BY DEF Anchor, Transition, Cloned

LEMMA PreparedType ==
    ASSUME anchor \in Anchor, job \in Job, job.op \in {"SNAPSHOT", "ROLLBACK"},
           job.source \in Gen, NewGen \in Gen
    PROVE  [phase |-> "PREPARED", op |-> job.op, snap |-> job.snap,
            head |-> anchor.head, old |-> anchor.head, new |-> NewGen,
            source |-> job.source] \in Anchor
BY DEF Anchor, Job, Transition, PreCommit

LEMMA TableType ==
    ASSUME anchor \in Anchor
    PROVE  Absent \in Table /\ Clone \in Table /\ \A g \in Gen : Linear(g) \in Table
BY ThickAssumption DEF Table, Absent, Linear, Clone, Anchor, Gen

LEMMA SuspendedType == \A f \in Table : [f EXCEPT !.suspended = TRUE] \in Table
BY Zenon DEF Table

LEMMA LvType ==
    /\ NoLv \in Lv /\ [NoLv EXCEPT !.role = "head"] \in Lv
    /\ \A x \in Lv, s \in Snap \cup {Missing} :
          [x EXCEPT !.role = "snapshot", !.snap = s] \in Lv
BY DEF Lv, NoLv

LEMMA SealedType == \A x \in Lv : [x EXCEPT !.ro = TRUE] \in Lv
BY Zenon DEF Lv

LEMMA MetaType ==
    /\ NoMeta \in Meta
    /\ \A h \in SUBSET Region : [present |-> TRUE, hydrated |-> h] \in Meta
    /\ \A m \in Meta, h \in SUBSET Region : [m EXCEPT !.hydrated = h] \in Meta
BY DEF Meta, NoMeta

LEMMA JobType ==
    /\ NoJob \in Job
    /\ \A op \in {"SNAPSHOT", "ROLLBACK"}, s \in Snap \cup {Missing},
          g \in Gen, a \in BOOLEAN :
          [op |-> op, snap |-> s, source |-> g, async |-> a] \in Job
BY ThickAssumption DEF Job, NoJob, Gen

LEMMA DataType ==
    /\ [r \in Region |-> Zero] \in [Region -> Value]
    /\ [r \in Region |-> Junk] \in [Region -> Value]
BY DEF Value

LEMMA NumberFacts == MaxGen \in Nat \ {0} /\ MaxCrash \in Nat /\ Gen \subseteq Nat
BY ThickAssumption DEF Gen

USE DEF ThickInv, Goto, Return, Record, diskVars, runtimeVars,
        Preparing, Transition, PreCommit, Cloned

-----------------------------------------------------------------------------
(* Admission, until the transition is recorded                             *)

LEMMA BeginSnapshotHolds ==
    ASSUME ThickInv, NEW s \in Snap, BeginSnapshot(s)
    PROVE  ThickInv'
<1> USE NumberFacts DEF BeginSnapshot
<1>1. PICK async \in BOOLEAN :
        job' = [op |-> "SNAPSHOT", snap |-> s, source |-> anchor.head, async |-> async]
  OBVIOUS
<1>2. NewGen \in Gen
  BY DEF Admission, NewGen, TypeOK, Anchor, Gen
<1>3. TypeOK'
  BY <1>1, AnchorType, JobType DEF TypeOK, Steps
<1> USE DEF TypeOK, Anchor, Placed, Generations, Gen
<1>4. Placed' /\ Requested' /\ TransitionOwned'
  BY <1>1, <1>2 DEF Requested, TransitionOwned, Admission, SnapshotLvs, NewGen
<1>5. Generations' /\ Sealing' /\ SnapshotsSealed'
  BY DEF Sealing, SnapshotsSealed, SnapshotLvs, Admission
<1>6. Fronts' /\ Hydration'
  BY DEF Fronts, Hydration, ZeroedBy, Linear, Clone, Absent, OldLinear, OldSuspended,
         Admission
<1> QED BY <1>3, <1>4, <1>5, <1>6

LEMMA BeginRollbackHolds ==
    ASSUME ThickInv, NEW s \in Snap, BeginRollback(s)
    PROVE  ThickInv'
<1> USE NumberFacts DEF BeginRollback
<1>1. PICK g \in Gen :
        /\ SnapshotLvs(s) = {g} /\ lv[g].ro
        /\ job' = [op |-> "ROLLBACK", snap |-> s, source |-> g, async |-> FALSE]
  OBVIOUS
<1>2. NewGen \in Gen
  BY DEF Admission, NewGen, TypeOK, Anchor, Gen
<1>3. TypeOK'
  BY <1>1, JobType DEF TypeOK, Steps
<1> USE DEF TypeOK, Anchor, Placed, Generations, Gen
<1>4. Placed' /\ Requested' /\ TransitionOwned'
  BY <1>1, <1>2 DEF Requested, TransitionOwned, Admission, SnapshotLvs, NewGen
<1>5. Generations' /\ Sealing' /\ SnapshotsSealed'
  BY DEF Sealing, SnapshotsSealed, SnapshotLvs, Admission
<1>6. Fronts' /\ Hydration'
  BY DEF Fronts, Hydration, ZeroedBy, Linear, Clone, Absent, OldLinear, OldSuspended,
         Admission
<1> QED BY <1>3, <1>4, <1>5, <1>6

LEMMA CreateNewHolds ==
    ASSUME ThickInv, CreateNew
    PROVE  ThickInv'
<1> USE NumberFacts DEF CreateNew
<1>1. TypeOK'
  BY LvType, DataType DEF TypeOK, Steps
<1> USE DEF TypeOK, Anchor, Job, Placed, Generations, Gen
<1>2. Placed' /\ Requested' /\ TransitionOwned'
  BY DEF Requested, TransitionOwned, SnapshotLvs, NewGen, NoLv, Lv
<1>3. Generations' /\ Sealing' /\ SnapshotsSealed'
  BY DEF Requested, Sealing, SnapshotsSealed, SnapshotLvs, NewGen, NoLv, Lv
<1>4. Fronts' /\ Hydration'
  BY DEF Fronts, Hydration, ZeroedBy, Linear, Clone, Absent, OldLinear, OldSuspended,
         NewGen, Table, Meta
<1> QED BY <1>1, <1>2, <1>3, <1>4

LEMMA CreateMetaHolds ==
    ASSUME ThickInv, CreateMeta
    PROVE  ThickInv'
<1> USE NumberFacts DEF CreateMeta
<1>1. TypeOK'
  BY MetaType DEF TypeOK, Steps
<1> USE DEF TypeOK, Anchor, Job, Placed, Generations, Gen
<1>2. Placed' /\ Requested' /\ TransitionOwned'
  BY DEF Requested, TransitionOwned, SnapshotLvs, NewGen, Lv
<1>3. Generations' /\ Sealing' /\ SnapshotsSealed'
  BY DEF Requested, Sealing, SnapshotsSealed, SnapshotLvs, NewGen, Lv
<1>4. Fronts' /\ Hydration'
  BY DEF Fronts, Hydration, ZeroedBy, Linear, Clone, Absent, OldLinear, OldSuspended,
         NewGen, Table, Meta
<1> QED BY <1>1, <1>2, <1>3, <1>4

LEMMA RecordPreparedHolds ==
    ASSUME ThickInv, RecordPrepared
    PROVE  ThickInv'
<1> USE NumberFacts DEF RecordPrepared
<1>1. TypeOK'
  <2>1. job.source \in Gen
    BY AnchorType DEF Requested, TypeOK, SnapshotLvs
  <2>2. anchor' \in Anchor
    BY <2>1, PreparedType DEF Requested, TypeOK
  <2> QED BY <2>2 DEF TypeOK, Steps
<1> USE DEF TypeOK, Anchor, Job, Placed, Generations, Gen
<1>2. Placed' /\ Requested' /\ TransitionOwned'
  BY DEF Requested, TransitionOwned, SnapshotLvs, NewGen, Lv
<1>3. Generations' /\ Sealing' /\ SnapshotsSealed'
  BY DEF Requested, Sealing, SnapshotsSealed, SnapshotLvs, NewGen, Lv
<1>4. Fronts' /\ Hydration'
  BY DEF Fronts, Hydration, Requested, ZeroedBy, Linear, Clone, Absent, OldLinear,
         OldSuspended, NewGen, Table, Meta
<1> QED BY <1>1, <1>2, <1>3, <1>4

-----------------------------------------------------------------------------
(* PREPARED and SOURCE_READY, up to the commit                             *)

LEMMA ZeroNewHolds ==
    ASSUME ThickInv, ZeroNew
    PROVE  ThickInv'
<1> USE NumberFacts DEF ZeroNew
<1>1. TypeOK'
  BY DataType DEF TypeOK, Steps
<1> USE DEF TypeOK, Anchor, Job, Placed, Generations, Gen
<1>2. Placed' /\ Requested' /\ TransitionOwned'
  BY DEF Requested, TransitionOwned, SnapshotLvs, NewGen, Lv
<1>3. Generations' /\ Sealing' /\ SnapshotsSealed'
  BY DEF Requested, Sealing, SnapshotsSealed, SnapshotLvs, NewGen, Lv
<1>4. Fronts' /\ Hydration'
  BY DEF Fronts, Hydration, ZeroedBy, Linear, Clone, Absent, OldLinear, OldSuspended,
         NewGen, Table, Meta
<1> QED BY <1>1, <1>2, <1>3, <1>4

LEMMA InitMetaHolds ==
    ASSUME ThickInv, InitMeta
    PROVE  ThickInv'
<1> USE NumberFacts DEF InitMeta
<1>1. TypeOK'
  BY MetaType DEF TypeOK, Steps
<1> USE DEF TypeOK, Anchor, Job, Placed, Generations, Gen
<1>2. Placed' /\ Requested' /\ TransitionOwned'
  BY DEF Requested, TransitionOwned, SnapshotLvs, NewGen, Lv
<1>3. Generations' /\ Sealing' /\ SnapshotsSealed'
  BY DEF Requested, Sealing, SnapshotsSealed, SnapshotLvs, NewGen, Lv
<1>4. Fronts' /\ Hydration'
  BY DEF Fronts, Hydration, ZeroedBy, Linear, Clone, Absent, OldLinear, OldSuspended,
         NewGen, Table, Meta
<1> QED BY <1>1, <1>2, <1>3, <1>4

LEMMA EnsureFrontHolds ==
    ASSUME ThickInv, EnsureFront
    PROVE  ThickInv'
<1> USE NumberFacts DEF EnsureFront
<1>1. TypeOK'
  BY AnchorType, TableType DEF TypeOK, Steps
<1> USE DEF TypeOK, Anchor, Job, Placed, Generations, Gen
<1>2. Placed' /\ Requested' /\ TransitionOwned'
  BY DEF Requested, TransitionOwned, SnapshotLvs, NewGen, Lv
<1>3. Generations' /\ Sealing' /\ SnapshotsSealed'
  BY DEF Requested, Sealing, SnapshotsSealed, SnapshotLvs, NewGen, Lv
<1>4. Fronts' /\ Hydration'
  BY DEF Fronts, Hydration, ZeroedBy, Linear, Clone, Absent, OldLinear, OldSuspended,
         NewGen, Table, Meta
<1> QED BY <1>1, <1>2, <1>3, <1>4

LEMMA EnsureSourceHolds ==
    ASSUME ThickInv, EnsureSource
    PROVE  ThickInv'
<1> USE NumberFacts DEF EnsureSource
<1>1. TypeOK'
  BY JobType DEF TypeOK, Steps
<1> USE DEF TypeOK, Anchor, Job, Placed, Generations, Gen
<1>2. Placed' /\ Requested' /\ TransitionOwned'
  BY DEF Requested, TransitionOwned, SnapshotLvs, NewGen, Lv
<1>3. Generations' /\ Sealing' /\ SnapshotsSealed'
  BY DEF Requested, Sealing, SnapshotsSealed, SnapshotLvs, NewGen, Lv
<1>4. Fronts' /\ Hydration'
  BY DEF Fronts, Hydration, ZeroedBy, Linear, Clone, Absent, OldLinear, OldSuspended,
         NewGen, Table, Meta
<1> QED BY <1>1, <1>2, <1>3, <1>4

LEMMA RecordSourceReadyHolds ==
    ASSUME ThickInv, RecordSourceReady
    PROVE  ThickInv'
<1> USE NumberFacts DEF RecordSourceReady
<1>1. TypeOK'
  BY AnchorType DEF TypeOK, Steps
<1> USE DEF TypeOK, Anchor, Job, Placed, Generations, Gen
<1>2. Placed' /\ Requested' /\ TransitionOwned'
  BY DEF Requested, TransitionOwned, SnapshotLvs, NewGen, Lv
<1>3. Generations' /\ Sealing' /\ SnapshotsSealed'
  BY DEF Requested, Sealing, SnapshotsSealed, SnapshotLvs, NewGen, Lv
<1>4. Fronts' /\ Hydration'
  BY DEF Fronts, Hydration, ZeroedBy, Linear, Clone, Absent, OldLinear, OldSuspended,
         NewGen, Table, Meta
<1> QED BY <1>1, <1>2, <1>3, <1>4

LEMMA SuspendHolds ==
    ASSUME ThickInv, Suspend
    PROVE  ThickInv'
<1> USE NumberFacts DEF Suspend
<1>1. TypeOK'
  BY SuspendedType DEF TypeOK, Steps
<1> USE DEF TypeOK, Anchor, Job, Placed, Generations, Gen
<1>2. Placed' /\ Requested' /\ TransitionOwned'
  BY DEF Requested, TransitionOwned, SnapshotLvs, NewGen, Lv
<1>3. Generations' /\ Sealing' /\ SnapshotsSealed'
  BY DEF Requested, Sealing, SnapshotsSealed, SnapshotLvs, NewGen, Lv
<1>4. front \in {OldLinear, OldSuspended}
  BY DEF Fronts, Absent
<1>5. front' = OldSuspended /\ anchor' = anchor
  BY <1>4, Zenon DEF OldSuspended, OldLinear, Linear
<1>6. OldSuspended' = OldSuspended
  BY <1>5 DEF OldSuspended, OldLinear
<1>7. Fronts' /\ Hydration'
  BY <1>5, <1>6 DEF Fronts, Hydration, ZeroedBy
<1> QED BY <1>1, <1>2, <1>3, <1>7

LEMMA CommitHolds ==
    ASSUME ThickInv, Commit
    PROVE  ThickInv'
<1> USE NumberFacts DEF Commit
<1>1. TypeOK'
  BY AnchorType DEF TypeOK, Steps
<1> USE DEF TypeOK, Anchor, Job, Placed, Generations, Gen
<1>2. Placed' /\ Requested' /\ TransitionOwned'
  BY DEF Requested, TransitionOwned, SnapshotLvs, NewGen, Lv
<1>3. Generations' /\ Sealing' /\ SnapshotsSealed'
  BY DEF Requested, Sealing, SnapshotsSealed, SnapshotLvs, NewGen, Lv
<1>4. Fronts' /\ Hydration'
  BY DEF Fronts, Hydration, ZeroedBy, Linear, Clone, Absent, OldLinear, OldSuspended,
         NewGen, Table, Meta
<1> QED BY <1>1, <1>2, <1>3, <1>4

LEMMA RetagHolds ==
    ASSUME ThickInv, Retag
    PROVE  ThickInv'
<1> USE NumberFacts DEF Retag
<1>1. TypeOK'
  <2>1. anchor.snap \in Snap \cup {Missing}
    BY DEF TypeOK, Anchor
  <2>2. lv' \in [Gen -> Lv]
    BY <2>1, LvType DEF TypeOK
  <2> QED BY <2>2 DEF TypeOK, Steps
<1> USE DEF TypeOK, Anchor, Job, Placed, Generations, Gen
<1>2. Placed' /\ Requested' /\ TransitionOwned'
  BY DEF Requested, TransitionOwned, SnapshotLvs, NewGen, Lv
<1>3. Generations' /\ Sealing' /\ SnapshotsSealed'
  BY DEF Requested, Sealing, SnapshotsSealed, SnapshotLvs, NewGen, Lv
<1>4. Fronts' /\ Hydration'
  BY DEF Fronts, Hydration, ZeroedBy, Linear, Clone, Absent, OldLinear, OldSuspended,
         NewGen, Table, Meta
<1> QED BY <1>1, <1>2, <1>3, <1>4

-----------------------------------------------------------------------------
(* COMMITTED and HYDRATING                                                 *)

LEMMA PublishHolds ==
    ASSUME ThickInv, Publish
    PROVE  ThickInv'
<1> USE NumberFacts DEF Publish
<1>1. TypeOK'
  BY TableType DEF TypeOK, Steps
<1> USE DEF TypeOK, Anchor, Job, Placed, Generations, Gen
<1>2. Placed' /\ Requested' /\ TransitionOwned'
  BY DEF Requested, TransitionOwned, SnapshotLvs, NewGen, Lv
<1>3. Generations' /\ Sealing' /\ SnapshotsSealed'
  BY DEF Requested, Sealing, SnapshotsSealed, SnapshotLvs, NewGen, Lv
<1>4. Fronts' /\ Hydration'
  BY DEF Fronts, Hydration, ZeroedBy, Linear, Clone, Absent, OldLinear, OldSuspended,
         NewGen, Table, Meta
<1> QED BY <1>1, <1>2, <1>3, <1>4

LEMMA SealHolds ==
    ASSUME ThickInv, Seal
    PROVE  ThickInv'
<1> USE NumberFacts DEF Seal
<1>1. TypeOK'
  BY SealedType DEF TypeOK, Steps
<1> USE DEF TypeOK, Anchor, Job, Placed, Generations, Gen
<1>2. Placed' /\ Requested' /\ TransitionOwned'
  BY DEF Requested, TransitionOwned, SnapshotLvs, NewGen, Lv
<1>3. Generations' /\ Sealing' /\ SnapshotsSealed'
  BY DEF Requested, Sealing, SnapshotsSealed, SnapshotLvs, NewGen, Lv
<1>4. Fronts' /\ Hydration'
  BY DEF Fronts, Hydration, ZeroedBy, Linear, Clone, Absent, OldLinear, OldSuspended,
         NewGen, Table, Meta
<1> QED BY <1>1, <1>2, <1>3, <1>4

LEMMA RecordHydratingHolds ==
    ASSUME ThickInv, RecordHydrating
    PROVE  ThickInv'
<1> USE NumberFacts DEF RecordHydrating
<1>1. TypeOK'
  BY AnchorType DEF TypeOK, Steps
<1> USE DEF TypeOK, Anchor, Job, Placed, Generations, Gen
<1>2. Placed' /\ Requested' /\ TransitionOwned'
  BY DEF Requested, TransitionOwned, SnapshotLvs, NewGen, Lv
<1>3. Generations' /\ Sealing' /\ SnapshotsSealed'
  BY DEF Requested, Sealing, SnapshotsSealed, SnapshotLvs, NewGen, Lv
<1>4. Fronts' /\ Hydration'
  BY DEF Fronts, Hydration, ZeroedBy, Linear, Clone, Absent, OldLinear, OldSuspended,
         NewGen, Table, Meta
<1> QED BY <1>1, <1>2, <1>3, <1>4

LEMMA EnableHydrationHolds ==
    ASSUME ThickInv, EnableHydration
    PROVE  ThickInv'
<1> USE NumberFacts DEF EnableHydration
<1>1. TypeOK'
  BY JobType DEF TypeOK, Steps
<1> USE DEF TypeOK, Anchor, Job, Placed, Generations, Gen
<1>2. Placed' /\ Requested' /\ TransitionOwned'
  BY DEF Requested, TransitionOwned, SnapshotLvs, NewGen, Lv
<1>3. Generations' /\ Sealing' /\ SnapshotsSealed'
  BY DEF Requested, Sealing, SnapshotsSealed, SnapshotLvs, NewGen, Lv
<1>4. Fronts' /\ Hydration'
  BY DEF Fronts, Hydration, ZeroedBy, Linear, Clone, Absent, OldLinear, OldSuspended,
         NewGen, Table, Meta
<1> QED BY <1>1, <1>2, <1>3, <1>4

LEMMA HandOffHolds ==
    ASSUME ThickInv, HandOff
    PROVE  ThickInv'
<1> USE NumberFacts DEF HandOff
<1>1. TypeOK'
  BY JobType DEF TypeOK, Steps
<1> USE DEF TypeOK, Anchor, Job, Placed, Generations, Gen
<1>2. Placed' /\ Requested' /\ TransitionOwned'
  BY DEF Requested, TransitionOwned, SnapshotLvs, NewGen, NoJob, Lv
<1>3. Generations' /\ Sealing' /\ SnapshotsSealed'
  BY DEF Requested, Sealing, SnapshotsSealed, SnapshotLvs, NewGen, Lv
<1>4. Fronts' /\ Hydration'
  BY DEF Fronts, Hydration, ZeroedBy, Linear, Clone, Absent, OldLinear, OldSuspended,
         NewGen, Table, Meta
<1> QED BY <1>1, <1>2, <1>3, <1>4

LEMMA HydrationCompleteHolds ==
    ASSUME ThickInv, HydrationComplete
    PROVE  ThickInv'
<1> USE NumberFacts DEF HydrationComplete
<1>1. TypeOK'
  BY AnchorType DEF TypeOK, Steps
<1> USE DEF TypeOK, Anchor, Job, Placed, Generations, Gen
<1>2. Placed' /\ Requested' /\ TransitionOwned'
  BY DEF Requested, TransitionOwned, SnapshotLvs, NewGen, Lv
<1>3. Generations' /\ Sealing' /\ SnapshotsSealed'
  BY DEF Requested, Sealing, SnapshotsSealed, SnapshotLvs, NewGen, Lv
<1>4. Fronts' /\ Hydration'
  BY DEF Fronts, Hydration, ZeroedBy, Linear, Clone, Absent, OldLinear, OldSuspended,
         NewGen, Table, Meta
<1> QED BY <1>1, <1>2, <1>3, <1>4

-----------------------------------------------------------------------------
(* HYDRATION_COMPLETE and LINEAR_PIVOTED                                   *)

LEMMA SuspendCloneHolds ==
    ASSUME ThickInv, SuspendClone
    PROVE  ThickInv'
<1> USE NumberFacts DEF SuspendClone
<1>1. TypeOK'
  BY SuspendedType DEF TypeOK, Steps
<1> USE DEF TypeOK, Anchor, Job, Placed, Generations, Gen
<1>2. Placed' /\ Requested' /\ TransitionOwned'
  BY DEF Requested, TransitionOwned, SnapshotLvs, NewGen, Lv
<1>3. Generations' /\ Sealing' /\ SnapshotsSealed'
  BY DEF Requested, Sealing, SnapshotsSealed, SnapshotLvs, NewGen, Lv
<1>4. front \in {Clone, [Clone EXCEPT !.suspended = TRUE]}
  BY DEF Fronts, Absent, Linear
<1>5. front' = [Clone EXCEPT !.suspended = TRUE] /\ anchor' = anchor
  BY <1>4, Zenon DEF Clone
<1>6. Clone' = Clone
  BY <1>5 DEF Clone
<1>7. Fronts' /\ Hydration'
  BY <1>5, <1>6 DEF Fronts, Hydration, ZeroedBy
<1> QED BY <1>1, <1>2, <1>3, <1>7

LEMMA PivotRefusedHolds ==
    ASSUME ThickInv, PivotRefused
    PROVE  ThickInv'
<1> USE NumberFacts DEF PivotRefused
<1>1. TypeOK'
  BY JobType DEF TypeOK, Steps
<1> USE DEF TypeOK, Anchor, Job, Placed, Generations, Gen
<1>2. Placed' /\ Requested' /\ TransitionOwned'
  BY DEF Requested, TransitionOwned, SnapshotLvs, NewGen, NoJob, Lv
<1>3. Generations' /\ Sealing' /\ SnapshotsSealed'
  BY DEF Requested, Sealing, SnapshotsSealed, SnapshotLvs, NewGen, Lv
<1>4. Fronts' /\ Hydration'
  BY DEF Fronts, Hydration, ZeroedBy, Linear, Clone, Absent, OldLinear, OldSuspended,
         NewGen, Table, Meta
<1> QED BY <1>1, <1>2, <1>3, <1>4

LEMMA PublishLinearHolds ==
    ASSUME ThickInv, PublishLinear
    PROVE  ThickInv'
<1> USE NumberFacts DEF PublishLinear
<1>1. TypeOK'
  BY AnchorType, TableType DEF TypeOK, Steps
<1> USE DEF TypeOK, Anchor, Job, Placed, Generations, Gen
<1>2. Placed' /\ Requested' /\ TransitionOwned'
  BY DEF Requested, TransitionOwned, SnapshotLvs, NewGen, Lv
<1>3. Generations' /\ Sealing' /\ SnapshotsSealed'
  BY DEF Requested, Sealing, SnapshotsSealed, SnapshotLvs, NewGen, Lv
<1>4. Fronts' /\ Hydration'
  BY DEF Fronts, Hydration, ZeroedBy, Linear, Clone, Absent, OldLinear, OldSuspended,
         NewGen, Table, Meta
<1> QED BY <1>1, <1>2, <1>3, <1>4

LEMMA RecordPivotedHolds ==
    ASSUME ThickInv, RecordPivoted
    PROVE  ThickInv'
<1> USE NumberFacts DEF RecordPivoted
<1>1. TypeOK'
  BY AnchorType DEF TypeOK, Steps
<1> USE DEF TypeOK, Anchor, Job, Placed, Generations, Gen
<1>2. Placed' /\ Requested' /\ TransitionOwned'
  BY DEF Requested, TransitionOwned, SnapshotLvs, NewGen, Lv
<1>3. Generations' /\ Sealing' /\ SnapshotsSealed'
  BY DEF Requested, Sealing, SnapshotsSealed, SnapshotLvs, NewGen, Lv
<1>4. Fronts' /\ Hydration'
  BY DEF Fronts, Hydration, ZeroedBy, Linear, Clone, Absent, OldLinear, OldSuspended,
         NewGen, Table, Meta
<1> QED BY <1>1, <1>2, <1>3, <1>4

LEMMA DetachSourceHolds ==
    ASSUME ThickInv, DetachSource
    PROVE  ThickInv'
<1> USE NumberFacts DEF DetachSource
<1>1. TypeOK'
  BY JobType DEF TypeOK, Steps
<1> USE DEF TypeOK, Anchor, Job, Placed, Generations, Gen
<1>2. Placed' /\ Requested' /\ TransitionOwned'
  BY DEF Requested, TransitionOwned, SnapshotLvs, NewGen, Lv
<1>3. Generations' /\ Sealing' /\ SnapshotsSealed'
  BY DEF Requested, Sealing, SnapshotsSealed, SnapshotLvs, NewGen, Lv
<1>4. Fronts' /\ Hydration'
  BY DEF Fronts, Hydration, ZeroedBy, Linear, Clone, Absent, OldLinear, OldSuspended,
         NewGen, Table, Meta
<1> QED BY <1>1, <1>2, <1>3, <1>4

LEMMA DropMetaHolds ==
    ASSUME ThickInv, DropMeta
    PROVE  ThickInv'
<1> USE NumberFacts DEF DropMeta
<1>1. TypeOK'
  BY MetaType DEF TypeOK, Steps
<1> USE DEF TypeOK, Anchor, Job, Placed, Generations, Gen
<1>2. Placed' /\ Requested' /\ TransitionOwned'
  BY DEF Requested, TransitionOwned, SnapshotLvs, NewGen, Lv
<1>3. Generations' /\ Sealing' /\ SnapshotsSealed'
  BY DEF Requested, Sealing, SnapshotsSealed, SnapshotLvs, NewGen, Lv
<1>4. Fronts' /\ Hydration'
  BY DEF Fronts, Hydration, ZeroedBy, Linear, Clone, Absent, OldLinear, OldSuspended,
         NewGen, Table, Meta
<1> QED BY <1>1, <1>2, <1>3, <1>4

LEMMA DropOldHolds ==
    ASSUME ThickInv, DropOld
    PROVE  ThickInv'
<1> USE NumberFacts DEF DropOld
<1>1. TypeOK'
  BY LvType, DataType DEF TypeOK, Steps
<1> USE DEF TypeOK, Anchor, Job, Placed, Generations, Gen
<1>2. Placed' /\ Requested' /\ TransitionOwned'
  BY DEF Requested, TransitionOwned, SnapshotLvs, NewGen, NoLv, Lv
<1>3. Generations' /\ Sealing' /\ SnapshotsSealed'
  BY DEF Requested, Sealing, SnapshotsSealed, SnapshotLvs, NewGen, NoLv, Lv
<1>4. Fronts' /\ Hydration'
  BY DEF Fronts, Hydration, ZeroedBy, Linear, Clone, Absent, OldLinear, OldSuspended,
         NewGen, Table, Meta
<1> QED BY <1>1, <1>2, <1>3, <1>4

LEMMA RecordMaterializedHolds ==
    ASSUME ThickInv, RecordMaterialized
    PROVE  ThickInv'
<1> USE NumberFacts DEF RecordMaterialized
<1>1. TypeOK'
  BY AnchorType, JobType DEF TypeOK, Steps
<1> USE DEF TypeOK, Anchor, Job, Placed, Generations, Gen
<1>2. Placed' /\ Requested' /\ TransitionOwned'
  BY DEF Requested, TransitionOwned, SnapshotLvs, NewGen, NoJob, Lv
<1>3. Generations' /\ Sealing' /\ SnapshotsSealed'
  BY DEF Requested, Sealing, SnapshotsSealed, SnapshotLvs, NewGen, Lv
<1>4. Fronts' /\ Hydration'
  BY DEF Fronts, Hydration, ZeroedBy, Linear, Clone, Absent, OldLinear, OldSuspended,
         NewGen, Table, Meta
<1> QED BY <1>1, <1>2, <1>3, <1>4

LEMMA ClearIntentHolds ==
    ASSUME ThickInv, ClearIntent
    PROVE  ThickInv'
<1> USE NumberFacts DEF ClearIntent
<1>1. TypeOK'
  BY JobType DEF TypeOK, Steps
<1> USE DEF TypeOK, Anchor, Job, Placed, Generations, Gen
<1>2. Placed' /\ Requested' /\ TransitionOwned'
  BY DEF Requested, TransitionOwned, SnapshotLvs, NewGen, NoJob, Lv
<1>3. Generations' /\ Sealing' /\ SnapshotsSealed'
  BY DEF Requested, Sealing, SnapshotsSealed, SnapshotLvs, NewGen, Lv
<1>4. Fronts' /\ Hydration'
  BY DEF Fronts, Hydration, ZeroedBy, Linear, Clone, Absent, OldLinear, OldSuspended,
         NewGen, Table, Meta
<1> QED BY <1>1, <1>2, <1>3, <1>4

-----------------------------------------------------------------------------
(* Resuming and undoing                                                    *)

LEMMA ResumeHolds ==
    ASSUME ThickInv, Resume
    PROVE  ThickInv'
<1> USE NumberFacts
<1>1. \/ /\ anchor.phase = "PREPARED" /\ src
         /\ anchor' = [anchor EXCEPT !.phase = "SOURCE_READY"] /\ pc' = "suspend"
      \/ /\ anchor' = anchor
         /\ \/ anchor.phase = "PREPARED" /\ pc' = "zero"
            \/ anchor.phase = "SOURCE_READY" /\ pc' = "suspend"
            \/ anchor.phase = "COMMITTED" /\ pc' = "publish"
            \/ anchor.phase = "HYDRATING" /\ pc' = "enable"
            \/ anchor.phase = "HYDRATION_COMPLETE" /\ pc' = "pivot"
            \/ anchor.phase = "LINEAR_PIVOTED" /\ pc' \in {"detach", "rebuildFront"}
            \/ anchor.phase \in Cloned /\ pc' = "rebuildSource"
  <2>1. CASE anchor.phase = "PREPARED" /\ src
    BY <2>1 DEF Resume
  <2>2. CASE ~(anchor.phase = "PREPARED" /\ src) /\ front.table # "absent"
    BY <2>2 DEF Resume, PhaseStep
  <2>3. CASE ~(anchor.phase = "PREPARED" /\ src) /\ front.table = "absent"
    <3>1. anchor.phase \notin PreCommit
      <4>1. OldFront => front.table = "linear"
        BY DEF OldFront, Linear
      <4>2. anchor.phase \in PreCommit => OldFront
        BY DEF Resume, ResumeRuntime
      <4> QED BY <2>3, <4>1, <4>2
    <3> QED BY <2>3, <3>1 DEF Resume
  <2> QED BY <2>1, <2>2, <2>3
<1>2. /\ pc = "idle" /\ anchor.phase \in Transition
      /\ job' = [op |-> anchor.op, snap |-> anchor.snap, source |-> anchor.source,
                 async |-> FALSE]
      /\ UNCHANGED <<intent, lv, data, meta, front, src, guest, crashes>>
  BY DEF Resume
<1>3. TypeOK'
  <2>1. anchor' \in Anchor
    BY <1>1, AnchorType DEF TypeOK
  <2>2. anchor.op \in {"SNAPSHOT", "ROLLBACK"} /\ anchor.snap \in Snap \cup {Missing}
    BY <1>2 DEF Generations, TypeOK, Anchor
  <2>3. job' \in Job
    BY <1>2, <2>2, AnchorType, JobType DEF TypeOK
  <2>4. pc' \in Steps
    BY <1>1 DEF Steps
  <2> QED BY <1>2, <2>1, <2>3, <2>4 DEF TypeOK
<1> USE DEF TypeOK, Anchor, Placed, Generations, Gen
<1>4. Placed' /\ Requested' /\ TransitionOwned'
  BY <1>1, <1>2 DEF Requested, TransitionOwned
<1>5. Generations' /\ Sealing' /\ SnapshotsSealed'
  <2>1. SnapshotLvs(anchor.snap)' = SnapshotLvs(anchor.snap)
    BY <1>1, <1>2 DEF SnapshotLvs
  <2>2. Generations'
    BY <1>1, <1>2, <2>1
  <2> QED BY <1>1, <1>2, <2>2 DEF Sealing, SnapshotsSealed
<1>6. Fronts' /\ Hydration'
  BY <1>1, <1>2
     DEF Fronts, Hydration, ZeroedBy, Linear, Clone, Absent, OldLinear, OldSuspended
<1> QED BY <1>3, <1>4, <1>5, <1>6

LEMMA RebuildSourceHolds ==
    ASSUME ThickInv, RebuildSource
    PROVE  ThickInv'
<1> USE NumberFacts DEF RebuildSource
<1>1. TypeOK'
  BY JobType DEF TypeOK, Steps
<1> USE DEF TypeOK, Anchor, Job, Placed, Generations, Gen
<1>2. Placed' /\ Requested' /\ TransitionOwned'
  BY DEF Requested, TransitionOwned, SnapshotLvs, NewGen, Lv
<1>3. Generations' /\ Sealing' /\ SnapshotsSealed'
  BY DEF Requested, Sealing, SnapshotsSealed, SnapshotLvs, NewGen, Lv
<1>4. Fronts' /\ Hydration'
  BY DEF Fronts, Hydration, ZeroedBy, Linear, Clone, Absent, OldLinear, OldSuspended,
         NewGen, Table, Meta
<1> QED BY <1>1, <1>2, <1>3, <1>4

LEMMA RebuildFrontHolds ==
    ASSUME ThickInv, RebuildFront
    PROVE  ThickInv'
<1> USE NumberFacts
<1>1. \/ anchor.phase = "COMMITTED" /\ pc' = "publish" /\ front' = Clone
      \/ anchor.phase = "HYDRATING" /\ pc' = "enable" /\ front' = Clone
      \/ anchor.phase = "HYDRATION_COMPLETE" /\ pc' = "pivot" /\ front' = Clone
      \/ anchor.phase = "LINEAR_PIVOTED" /\ pc' = "detach" /\ front' = Linear(anchor.new)
  BY DEF RebuildFront, Placed, PhaseStep
<1>2. /\ pc = "rebuildFront"
      /\ UNCHANGED <<anchor, intent, lv, data, meta, src, guest, job, crashes>>
  BY DEF RebuildFront
<1>3. TypeOK'
  BY <1>1, <1>2, AnchorType, TableType DEF TypeOK, Steps
<1> USE DEF TypeOK, Anchor, Job, Placed, Generations, Gen
<1>4. Placed' /\ Requested' /\ TransitionOwned'
  BY <1>1, <1>2 DEF Requested, TransitionOwned
<1>5. Generations' /\ Sealing' /\ SnapshotsSealed'
  BY <1>1, <1>2 DEF Sealing, SnapshotsSealed, SnapshotLvs
<1>6. Fronts' /\ Hydration'
  BY <1>1, <1>2
     DEF Fronts, Hydration, ZeroedBy, Linear, Clone, Absent, OldLinear, OldSuspended
<1> QED BY <1>3, <1>4, <1>5, <1>6

LEMMA RecoverPrepareHolds ==
    ASSUME ThickInv, RecoverPrepare
    PROVE  ThickInv'
<1> USE NumberFacts DEF RecoverPrepare
<1>1. TypeOK'
  BY JobType DEF TypeOK, Steps
<1> USE DEF TypeOK, Anchor, Job, Placed, Generations, Gen
<1>2. Placed' /\ Requested' /\ TransitionOwned'
  BY DEF Requested, TransitionOwned, SnapshotLvs, NewGen, Lv
<1>3. Generations' /\ Sealing' /\ SnapshotsSealed'
  BY DEF Requested, Sealing, SnapshotsSealed, SnapshotLvs, NewGen, Lv
<1>4. Fronts' /\ Hydration'
  BY DEF Fronts, Hydration, ZeroedBy, Linear, Clone, Absent, OldLinear, OldSuspended,
         NewGen, Table, Meta
<1> QED BY <1>1, <1>2, <1>3, <1>4

LEMMA UndoMetaHolds ==
    ASSUME ThickInv, UndoMeta
    PROVE  ThickInv'
<1> USE NumberFacts DEF UndoMeta
<1>1. TypeOK'
  BY MetaType DEF TypeOK, Steps
<1> USE DEF TypeOK, Anchor, Job, Placed, Generations, Gen
<1>2. Placed' /\ Requested' /\ TransitionOwned'
  BY DEF Requested, TransitionOwned, SnapshotLvs, NewGen, Lv
<1>3. Generations' /\ Sealing' /\ SnapshotsSealed'
  BY DEF Requested, Sealing, SnapshotsSealed, SnapshotLvs, NewGen, Lv
<1>4. Fronts' /\ Hydration'
  BY DEF Fronts, Hydration, ZeroedBy, Linear, Clone, Absent, OldLinear, OldSuspended,
         NewGen, Table, Meta
<1> QED BY <1>1, <1>2, <1>3, <1>4

LEMMA UndoNewHolds ==
    ASSUME ThickInv, UndoNew
    PROVE  ThickInv'
<1> USE NumberFacts DEF UndoNew
<1>1. TypeOK'
  BY LvType, DataType DEF TypeOK, Steps
<1> USE DEF TypeOK, Anchor, Job, Placed, Generations, Gen
<1>2. Placed' /\ Requested' /\ TransitionOwned'
  BY DEF Requested, TransitionOwned, SnapshotLvs, NewGen, NoLv, Lv
<1>3. Generations' /\ Sealing' /\ SnapshotsSealed'
  BY DEF Requested, Sealing, SnapshotsSealed, SnapshotLvs, NewGen, NoLv, Lv
<1>4. Fronts' /\ Hydration'
  BY DEF Fronts, Hydration, ZeroedBy, Linear, Clone, Absent, OldLinear, OldSuspended,
         NewGen, Table, Meta
<1> QED BY <1>1, <1>2, <1>3, <1>4

LEMMA UndoIntentHolds ==
    ASSUME ThickInv, UndoIntent
    PROVE  ThickInv'
<1> USE NumberFacts DEF UndoIntent
<1>1. TypeOK'
  BY JobType DEF TypeOK, Steps
<1> USE DEF TypeOK, Anchor, Job, Placed, Generations, Gen
<1>2. Placed' /\ Requested' /\ TransitionOwned'
  BY DEF Requested, TransitionOwned, SnapshotLvs, NewGen, NoJob, Lv
<1>3. Generations' /\ Sealing' /\ SnapshotsSealed'
  BY DEF Requested, Sealing, SnapshotsSealed, SnapshotLvs, NewGen, Lv
<1>4. Fronts' /\ Hydration'
  BY DEF Fronts, Hydration, ZeroedBy, Linear, Clone, Absent, OldLinear, OldSuspended,
         NewGen, Table, Meta
<1> QED BY <1>1, <1>2, <1>3, <1>4

LEMMA UndoRefusedHolds ==
    ASSUME ThickInv, UndoRefused
    PROVE  ThickInv'
<1> USE NumberFacts DEF UndoRefused
<1>1. TypeOK'
  BY JobType DEF TypeOK, Steps
<1> USE DEF TypeOK, Anchor, Job, Placed, Generations, Gen
<1>2. Placed' /\ Requested' /\ TransitionOwned'
  BY DEF Requested, TransitionOwned, SnapshotLvs, NewGen, NoJob, Lv
<1>3. Generations' /\ Sealing' /\ SnapshotsSealed'
  BY DEF Requested, Sealing, SnapshotsSealed, SnapshotLvs, NewGen, Lv
<1>4. Fronts' /\ Hydration'
  BY DEF Fronts, Hydration, ZeroedBy, Linear, Clone, Absent, OldLinear, OldSuspended,
         NewGen, Table, Meta
<1> QED BY <1>1, <1>2, <1>3, <1>4

-----------------------------------------------------------------------------
(* Activation, the guest, dm-clone and the losses                          *)

LEMMA ActivateHolds ==
    ASSUME ThickInv, Activate
    PROVE  ThickInv'
<1> USE NumberFacts DEF Activate
<1>1. TypeOK'
  BY AnchorType, TableType DEF TypeOK, Steps
<1> USE DEF TypeOK, Anchor, Job, Placed, Generations, Gen
<1>2. Placed' /\ Requested' /\ TransitionOwned'
  BY DEF Requested, TransitionOwned, SnapshotLvs, NewGen, Lv
<1>3. Generations' /\ Sealing' /\ SnapshotsSealed'
  BY DEF Requested, Sealing, SnapshotsSealed, SnapshotLvs, NewGen, Lv
<1>4. Fronts' /\ Hydration'
  BY DEF Fronts, Hydration, ZeroedBy, Linear, Clone, Absent, OldLinear, OldSuspended,
         NewGen, Table, Meta
<1> QED BY <1>1, <1>2, <1>3, <1>4

LEMMA DeactivateHolds ==
    ASSUME ThickInv, Deactivate
    PROVE  ThickInv'
<1> USE NumberFacts DEF Deactivate
<1>1. TypeOK'
  BY TableType DEF TypeOK, Steps
<1> USE DEF TypeOK, Anchor, Job, Placed, Generations, Gen
<1>2. Placed' /\ Requested' /\ TransitionOwned'
  BY DEF Requested, TransitionOwned, SnapshotLvs, NewGen, Lv
<1>3. Generations' /\ Sealing' /\ SnapshotsSealed'
  BY DEF Requested, Sealing, SnapshotsSealed, SnapshotLvs, NewGen, Lv
<1>4. Fronts' /\ Hydration'
  BY DEF Fronts, Hydration, ZeroedBy, Linear, Clone, Absent, OldLinear, OldSuspended,
         NewGen, Table, Meta
<1> QED BY <1>1, <1>2, <1>3, <1>4

LEMMA OpenFrontHolds ==
    ASSUME ThickInv, OpenFront
    PROVE  ThickInv'
<1> USE NumberFacts DEF OpenFront
<1>1. TypeOK'
  BY JobType DEF TypeOK, Steps
<1> USE DEF TypeOK, Anchor, Job, Placed, Generations, Gen
<1>2. Placed' /\ Requested' /\ TransitionOwned'
  BY DEF Requested, TransitionOwned, SnapshotLvs, NewGen, Lv
<1>3. Generations' /\ Sealing' /\ SnapshotsSealed'
  BY DEF Requested, Sealing, SnapshotsSealed, SnapshotLvs, NewGen, Lv
<1>4. Fronts' /\ Hydration'
  BY DEF Fronts, Hydration, ZeroedBy, Linear, Clone, Absent, OldLinear, OldSuspended,
         NewGen, Table, Meta
<1> QED BY <1>1, <1>2, <1>3, <1>4

LEMMA CloseFrontHolds ==
    ASSUME ThickInv, CloseFront
    PROVE  ThickInv'
<1> USE NumberFacts DEF CloseFront
<1>1. TypeOK'
  BY JobType DEF TypeOK, Steps
<1> USE DEF TypeOK, Anchor, Job, Placed, Generations, Gen
<1>2. Placed' /\ Requested' /\ TransitionOwned'
  BY DEF Requested, TransitionOwned, SnapshotLvs, NewGen, Lv
<1>3. Generations' /\ Sealing' /\ SnapshotsSealed'
  BY DEF Requested, Sealing, SnapshotsSealed, SnapshotLvs, NewGen, Lv
<1>4. Fronts' /\ Hydration'
  BY DEF Fronts, Hydration, ZeroedBy, Linear, Clone, Absent, OldLinear, OldSuspended,
         NewGen, Table, Meta
<1> QED BY <1>1, <1>2, <1>3, <1>4

LEMMA GuestIOHolds ==
    ASSUME ThickInv, NEW r \in Region, NEW c \in Value, GuestIO(r, c)
    PROVE  ThickInv'
<1> USE NumberFacts
<1>1. UNCHANGED <<anchor, intent, lv, front, src, guest, pc, job, crashes>>
  BY DEF GuestIO
<1>2. data' \in [Gen -> [Region -> Value]]
  BY DEF GuestIO, TypeOK
<1>3. meta' \in Meta
  BY MetaType DEF GuestIO, TypeOK, Meta
<1>4. TypeOK'
  BY <1>1, <1>2, <1>3 DEF TypeOK
<1> USE DEF TypeOK, Anchor, Placed, Generations, Gen
<1>5. Placed' /\ Requested' /\ TransitionOwned'
  BY <1>1 DEF Requested, TransitionOwned, SnapshotLvs, NewGen
<1>6. Generations' /\ Sealing' /\ SnapshotsSealed'
  BY <1>1 DEF Sealing, SnapshotsSealed, SnapshotLvs
<1>7. Fronts'
  BY <1>1 DEF Fronts, Linear, Clone, Absent, OldLinear, OldSuspended
<1>8. Hydration'
  BY <1>1
     DEF GuestIO, Fronts, Hydration, ZeroedBy, Linear, Clone, Absent, OldLinear,
         OldSuspended, Meta
<1> QED BY <1>4, <1>5, <1>6, <1>7, <1>8

LEMMA HydrateHolds ==
    ASSUME ThickInv, NEW r \in Region, Hydrate(r)
    PROVE  ThickInv'
<1> USE NumberFacts
<1>1. UNCHANGED <<anchor, intent, lv, front, src, guest, pc, job, crashes>>
  BY DEF Hydrate
<1>2. data' \in [Gen -> [Region -> Value]]
  BY AnchorType DEF Hydrate, TypeOK
<1>3. meta' \in Meta
  BY MetaType DEF Hydrate, TypeOK, Meta
<1>4. TypeOK'
  BY <1>1, <1>2, <1>3 DEF TypeOK
<1> USE DEF TypeOK, Anchor, Placed, Generations, Gen
<1>5. Placed' /\ Requested' /\ TransitionOwned'
  BY <1>1 DEF Requested, TransitionOwned, SnapshotLvs, NewGen
<1>6. Generations' /\ Sealing' /\ SnapshotsSealed'
  BY <1>1 DEF Sealing, SnapshotsSealed, SnapshotLvs
<1>7. Fronts'
  BY <1>1 DEF Fronts, Linear, Clone, Absent, OldLinear, OldSuspended
<1>8. Hydration'
  BY <1>1
     DEF Hydrate, Fronts, Hydration, ZeroedBy, Linear, Clone, Absent, OldLinear,
         OldSuspended, Meta
<1> QED BY <1>4, <1>5, <1>6, <1>7, <1>8

LEMMA ForeignIntentHolds ==
    ASSUME ThickInv, ForeignIntent
    PROVE  ThickInv'
<1> USE NumberFacts DEF ForeignIntent
<1>1. TypeOK'
  BY JobType DEF TypeOK, Steps
<1> USE DEF TypeOK, Anchor, Job, Placed, Generations, Gen
<1>2. Placed' /\ Requested' /\ TransitionOwned'
  BY DEF Requested, TransitionOwned, SnapshotLvs, NewGen, Lv
<1>3. Generations' /\ Sealing' /\ SnapshotsSealed'
  BY DEF Requested, Sealing, SnapshotsSealed, SnapshotLvs, NewGen, Lv
<1>4. Fronts' /\ Hydration'
  BY DEF Fronts, Hydration, ZeroedBy, Linear, Clone, Absent, OldLinear, OldSuspended,
         NewGen, Table, Meta
<1> QED BY <1>1, <1>2, <1>3, <1>4

LEMMA KillHolds ==
    ASSUME ThickInv, Kill
    PROVE  ThickInv'
<1> USE NumberFacts DEF Kill
<1>1. TypeOK'
  BY JobType DEF TypeOK, Steps
<1> USE DEF TypeOK, Anchor, Job, Placed, Generations, Gen
<1>2. Placed' /\ Requested' /\ TransitionOwned'
  BY DEF Requested, TransitionOwned, SnapshotLvs, NewGen, NoJob, Lv
<1>3. Generations' /\ Sealing' /\ SnapshotsSealed'
  BY DEF Requested, Sealing, SnapshotsSealed, SnapshotLvs, NewGen, Lv
<1>4. Fronts' /\ Hydration'
  BY DEF Fronts, Hydration, ZeroedBy, Linear, Clone, Absent, OldLinear, OldSuspended,
         NewGen, Table, Meta
<1> QED BY <1>1, <1>2, <1>3, <1>4

LEMMA HostLossHolds ==
    ASSUME ThickInv, HostLoss
    PROVE  ThickInv'
<1> USE NumberFacts DEF HostLoss
<1>1. TypeOK'
  <2>1. crashes' \in 0..MaxCrash
    BY DEF TypeOK
  <2>2. src' \in BOOLEAN /\ guest' \in BOOLEAN
    BY Zenon
  <2> QED BY <2>1, <2>2, TableType, JobType DEF TypeOK, Steps
<1> USE DEF TypeOK, Anchor, Job, Placed, Generations, Gen
<1>2. Placed' /\ Requested' /\ TransitionOwned'
  BY DEF Requested, TransitionOwned, SnapshotLvs, NewGen, NoJob, Lv
<1>3. Generations' /\ Sealing' /\ SnapshotsSealed'
  BY DEF Requested, Sealing, SnapshotsSealed, SnapshotLvs, NewGen, Lv
<1>4. Fronts' /\ Hydration'
  BY DEF Fronts, Hydration, ZeroedBy, Linear, Clone, Absent, OldLinear, OldSuspended,
         NewGen, Table, Meta
<1> QED BY <1>1, <1>2, <1>3, <1>4

-----------------------------------------------------------------------------
(* The invariant                                                           *)

LEMMA InitHolds == Init => ThickInv
<1> SUFFICES ASSUME Init PROVE ThickInv
  OBVIOUS
<1> USE ThickAssumption DEF Init
<1>1. 1 \in Gen
  BY DEF Gen
<1>2. lv \in [Gen -> Lv] /\ data \in [Gen -> [Region -> Value]]
  BY LvType, DataType DEF Value
<1>3. anchor \in Anchor
  BY <1>1 DEF Anchor
<1>4. TypeOK
  <2>1. crashes \in 0..MaxCrash /\ intent \in {"none", "foreign", "fresh", "anchor"}
    OBVIOUS
  <2>2. src \in BOOLEAN /\ guest \in BOOLEAN
    BY Zenon
  <2>3. pc \in Steps
    BY DEF Steps
  <2> QED BY <1>2, <1>3, <2>1, <2>2, <2>3, TableType, MetaType, JobType, Zenon DEF
         TypeOK
<1>5. Placed /\ Requested /\ TransitionOwned
  BY DEF Placed, Requested, TransitionOwned, NoJob
<1>6. Generations /\ Sealing /\ SnapshotsSealed
  BY <1>1 DEF Generations, Sealing, SnapshotsSealed, NoLv
<1>7. Fronts /\ Hydration
  BY DEF Fronts, Hydration
<1> QED BY <1>4, <1>5, <1>6, <1>7

LEMMA NextHolds == ThickInv /\ [Next]_vars => ThickInv'
<1> SUFFICES ASSUME ThickInv, [Next]_vars PROVE ThickInv'
  OBVIOUS
<1>1. CASE WorkerStep
  BY <1>1, CreateNewHolds, CreateMetaHolds, RecordPreparedHolds, ZeroNewHolds,
     InitMetaHolds, EnsureFrontHolds, EnsureSourceHolds, RecordSourceReadyHolds,
     SuspendHolds, CommitHolds, RetagHolds, PublishHolds, SealHolds,
     RecordHydratingHolds, EnableHydrationHolds, HandOffHolds, HydrationCompleteHolds,
     SuspendCloneHolds, PivotRefusedHolds, PublishLinearHolds, RecordPivotedHolds,
     DetachSourceHolds, DropMetaHolds, DropOldHolds, RecordMaterializedHolds,
     ClearIntentHolds, RebuildSourceHolds, RebuildFrontHolds, UndoMetaHolds,
     UndoNewHolds, UndoIntentHolds, UndoRefusedHolds
     DEF WorkerStep
<1>2. CASE Request
  BY <1>2, BeginSnapshotHolds, BeginRollbackHolds, ResumeHolds, RecoverPrepareHolds,
     ActivateHolds, DeactivateHolds, OpenFrontHolds
     DEF Request
<1>3. CASE Environment
  <2>1. CASE GuestStep
    <3>1. ASSUME NEW r \in Region, Discard(r) PROVE ThickInv'
      <4>1. front.gen \in Gen
        BY <3>1
           DEF Discard, GuestIO, Fronts, Linear, Clone, Absent, OldLinear,
               OldSuspended, TypeOK, Anchor
      <4>2. (IF front.table = "clone" /\ r \notin meta.hydrated
             THEN data[front.gen][r] ELSE Zero) \in Value
        BY <4>1 DEF TypeOK, Value
      <4> QED BY <3>1, <4>2, GuestIOHolds DEF Discard
    <3>2. ASSUME NEW r \in Region, NEW v \in Data, Write(r, v) PROVE ThickInv'
      BY <3>2, GuestIOHolds DEF Write, Value
    <3> QED BY <2>1, <3>1, <3>2, CloseFrontHolds DEF GuestStep
  <2> QED BY <1>3, <2>1, HydrateHolds, ForeignIntentHolds, KillHolds, HostLossHolds
          DEF Environment
<1>4. CASE UNCHANGED vars
  BY <1>4
     DEF vars, TypeOK, Placed, Generations, Requested, Fronts, Hydration, Sealing,
         SnapshotsSealed, TransitionOwned, SnapshotLvs, NewGen, OldLinear,
         OldSuspended, Clone, ZeroedBy
<1> QED BY <1>1, <1>2, <1>3, <1>4 DEF Next

\* The inductive invariant holds whatever is killed, lost and resumed.
THEOREM ThickInvariant == Spec => []ThickInv
BY InitHolds, NextHolds, PTL DEF Spec

\* The anchor, the LVs and the mappers stay within their types; in particular no
\* transition is admitted for a generation number beyond the last.
THEOREM ThickTypes == Spec => []TypeOK
BY ThickInvariant, PTL

\* _thick_scope_transition_intent_to_anchor drops the VG intent of a published
\* snapshot alone: every other transition keeps it until it is materialized.
THEOREM ThickOwned == Spec => []TransitionOwned
BY ThickInvariant, PTL

\* No snapshot is writable once its transition has left COMMITTED.
THEOREM ThickSealed == Spec => []SnapshotsSealed
BY ThickInvariant, PTL

\* A complete clone reads as its destination.
LEMMA CloneIsNew ==
    ASSUME TypeOK, meta.hydrated = Region
    PROVE  CloneContent = data[anchor.new]
BY AnchorType DEF CloneContent, TypeOK

\* What an active frontend shows.
LEMMA FrontCases ==
    ASSUME ThickInv, front.table # "absent", ~front.suspended
    PROVE  \/ anchor.phase \notin Cloned /\ front = Linear(anchor.head)
           \/ anchor.phase \in Cloned /\ front = Clone
           \/ anchor.phase = "HYDRATION_COMPLETE" /\ front = Linear(anchor.new)
<1>1. front # OldSuspended
  BY Zenon DEF OldSuspended, OldLinear, Linear
<1>2. front # [Clone EXCEPT !.suspended = TRUE]
  BY Zenon DEF Clone
<1> QED BY <1>1, <1>2

        DEF Fronts, Generations, TypeOK, Anchor, Absent, OldLinear

LEMMA InvServes == ThickInv => FrontServesDisk
<1> SUFFICES ASSUME ThickInv, front.table # "absent", ~front.suspended
             PROVE  Disk = IF front.table = "clone" THEN CloneContent ELSE data[front.gen]
  BY DEF FrontServesDisk
<1>1. CASE anchor.phase \notin Cloned /\ front = Linear(anchor.head)
  BY <1>1 DEF Disk, Linear
<1>2. CASE anchor.phase \in Cloned /\ front = Clone
  BY <1>2 DEF Disk, Clone
<1>3. CASE anchor.phase = "HYDRATION_COMPLETE" /\ front = Linear(anchor.new)
  BY <1>3, CloneIsNew DEF Disk, Linear, Hydration
<1> QED BY <1>1, <1>2, <1>3, FrontCases

\* In every phase, and after every reconstruction of the mappers, the frontend
\* serves the content of the volume.
THEOREM ThickServes == Spec => []FrontServesDisk
BY ThickInvariant, InvServes, PTL

-----------------------------------------------------------------------------
(* The refinement                                                          *)

\* Steps that leave the snapshot LVs and their content alone leave the abstract
\* snapshots alone.
LEMMA SnapshotsKept ==
    ASSUME \A s \in Snap : SnapshotLvs(s)' = SnapshotLvs(s),
           \A g \in Gen : lv[g].role = "snapshot" => data'[g] = data[g]
    PROVE  Snapshots' = Snapshots
<1> DEFINE Old(s) == IF SnapshotLvs(s) = {} THEN Missing
                     ELSE data[CHOOSE g \in SnapshotLvs(s) : TRUE]
           New(s) == IF SnapshotLvs(s)' = {} THEN Missing
                     ELSE data'[CHOOSE g \in SnapshotLvs(s)' : TRUE]
<1>1. ASSUME NEW s \in Snap PROVE New(s) = Old(s)
  <2>1. CASE SnapshotLvs(s) = {}
    BY <2>1
  <2>2. CASE SnapshotLvs(s) # {}
    <3> DEFINE c == CHOOSE g \in SnapshotLvs(s) : TRUE
    <3>1. c \in SnapshotLvs(s)
      BY <2>2
    <3>2. data'[c] = data[c]
      BY <3>1 DEF SnapshotLvs
    <3>3. SnapshotLvs(s)' = SnapshotLvs(s)
      OBVIOUS
    <3> QED BY <2>2, <3>2, <3>3
  <2> QED BY <2>1, <2>2
<1>2. Snapshots = [s \in Snap |-> Old(s)]
  BY DEF Snapshots
<1>3. Snapshots' = [s \in Snap |-> New(s)]
  BY DEF Snapshots
<1> HIDE DEF Old, New
<1> QED BY <1>1, <1>2, <1>3

LEMMA OneSnapshot ==
    ASSUME NEW s \in Snap, NEW g \in Gen, SnapshotLvs(s) = {g}
    PROVE  Snapshots[s] = data[g]
BY DEF Snapshots

Stutter == Disk' = Disk /\ Snapshots' = Snapshots

LEMMA NothingStored ==
    ASSUME UNCHANGED <<anchor, lv, data, meta>>
    PROVE  Stutter
<1>1. Disk' = Disk
  BY DEF Disk, CloneContent
<1>2. Snapshots' = Snapshots
  BY SnapshotsKept DEF SnapshotLvs
<1> QED BY <1>1, <1>2 DEF Stutter

\* The commit of a snapshot shows nothing; that of a rollback is the rollback.
LEMMA CommitRefines ==
    ASSUME ThickInv, Commit
    PROVE  [Volume!Next]_<<Disk, Snapshots>>
<1> USE NumberFacts
<1>1. /\ anchor.phase = "SOURCE_READY" /\ meta.hydrated = {} /\ anchor.head = anchor.old
      /\ anchor' = [anchor EXCEPT !.phase = "COMMITTED", !.head = anchor.new]
      /\ UNCHANGED <<lv, data, meta>>
  BY DEF Commit, Placed, Hydration, Generations
<1>2. anchor'.phase = "COMMITTED" /\ anchor'.source = anchor.source
  BY <1>1 DEF TypeOK, Anchor
<1>3. Disk' = data[anchor.source]
  <2>1. Disk' = [r \in Region |-> data[anchor.source][r]]
    BY <1>1, <1>2 DEF Disk, CloneContent
  <2> QED BY <2>1, AnchorType DEF TypeOK
<1>4. Disk = data[anchor.old]
  BY <1>1 DEF Disk
<1>5. Snapshots' = Snapshots
  BY <1>1, SnapshotsKept DEF SnapshotLvs
<1>6. CASE anchor.op = "SNAPSHOT"
  BY <1>1, <1>3, <1>4, <1>5, <1>6 DEF Generations
<1>7. CASE anchor.op = "ROLLBACK"
  <2>1. SnapshotLvs(anchor.snap) = {anchor.source} /\ anchor.source \in Gen
    BY <1>1, <1>7, AnchorType DEF Generations, TypeOK
  <2>2. anchor.snap \in Snap
    BY <1>1 DEF Generations
  <2>3. Snapshots[anchor.snap] = data[anchor.source]
    BY <2>1, <2>2, OneSnapshot
  <2>4. Snapshots[anchor.snap] # Missing
    <3>1. data[anchor.source] \in [Region -> Value]
      BY <2>1 DEF TypeOK
    <3> QED BY <2>3, <3>1, ThickAssumption DEF Value
  <2> QED BY <1>3, <1>5, <2>2, <2>3, <2>4 DEF Volume!Next, Volume!Rollback
<1>8. anchor.op \in {"SNAPSHOT", "ROLLBACK"}
  BY <1>1 DEF Generations
<1> QED BY <1>6, <1>7, <1>8

LEMMA NewIsNotOld ==
    ASSUME ThickInv, anchor.phase \in Transition
    PROVE  anchor.new # anchor.old
<1>1. anchor.old \in Nat
  BY AnchorType, NumberFacts DEF TypeOK
<1> QED BY <1>1 DEF Generations

\* The source of a transition is not its destination.
LEMMA SourceIsOlder ==
    ASSUME ThickInv, anchor.phase \in Transition
    PROVE  anchor.source # anchor.new
<1>1. CASE anchor.op = "SNAPSHOT"
  BY <1>1, NewIsNotOld DEF Generations
<1>2. CASE anchor.op = "ROLLBACK"
  BY <1>2 DEF Generations, SnapshotLvs
<1> QED BY <1>1, <1>2 DEF Generations

\* The snapshot appears, with the content at the cutover.
LEMMA RetagRefines ==
    ASSUME ThickInv, Retag
    PROVE  [Volume!Next]_<<Disk, Snapshots>>
<1> USE NumberFacts
<1>1. /\ anchor.phase = "COMMITTED" /\ anchor.source = anchor.old
      /\ SnapshotLvs(anchor.snap) = {} /\ anchor.snap \in Snap /\ anchor.old \in Gen
      /\ front = OldSuspended
  BY AnchorType

        DEF Retag, Placed, Requested, Generations, Fronts, TypeOK
<1>2. PICK s \in Snap, o \in Gen : s = anchor.snap /\ o = anchor.old
  BY <1>1
<1>3. /\ UNCHANGED <<anchor, data, meta>>
      /\ lv[o].role = "head"
      /\ lv' = [lv EXCEPT ![o].role = "snapshot", ![o].snap = s]
  BY <1>2 DEF Retag
<1>4. Disk' = Disk
  BY <1>3 DEF Disk, CloneContent
<1>5. Disk = data[o]
  <2>1. meta.hydrated = {}
    BY <1>1 DEF Hydration
  <2>2. Disk = [r \in Region |-> data[o][r]]
    BY <1>1, <1>2, <2>1 DEF Disk, CloneContent
  <2> QED BY <2>2 DEF TypeOK
<1>6. SnapshotLvs(s)' = {o}
  BY <1>1, <1>2, <1>3 DEF SnapshotLvs, TypeOK, Lv
<1>7. \A q \in Snap \ {s} : SnapshotLvs(q)' = SnapshotLvs(q)
  BY <1>1, <1>3 DEF SnapshotLvs, TypeOK, Lv
<1>8. Snapshots[s] = Missing
  BY <1>1, <1>2 DEF Snapshots
<1>9. Snapshots' = [Snapshots EXCEPT ![s] = Disk]
  <2>1. Snapshots'[s] = data[o]
    BY <1>3, <1>6 DEF Snapshots
  <2>2. ASSUME NEW q \in Snap \ {s} PROVE Snapshots'[q] = Snapshots[q]
    <3>1. SnapshotLvs(q)' = SnapshotLvs(q)
      BY <1>7
    <3> QED BY <1>3, <3>1 DEF Snapshots
  <2>3. DOMAIN Snapshots = Snap /\ DOMAIN Snapshots' = Snap
    BY DEF Snapshots
  <2>4. Snapshots' = [q \in Snap |-> Snapshots'[q]]
    BY DEF Snapshots
  <2>5. Snapshots = [q \in Snap |-> Snapshots[q]]
    BY DEF Snapshots
  <2> QED BY <1>5, <2>1, <2>2, <2>4, <2>5
<1> QED BY <1>4, <1>8, <1>9 DEF Volume!Next, Volume!TakeSnapshot

\* An active frontend writes to the HEAD.
LEMMA ActiveFront ==
    ASSUME ThickInv, front.table # "absent", ~front.suspended
    PROVE  /\ front.gen = anchor.head /\ anchor.head \in Gen
           /\ lv[anchor.head].role = "head"
           /\ \/ anchor.phase \notin Cloned /\ front.table = "linear"
              \/ anchor.phase \in Cloned /\ front.table = "clone"
              \/ /\ anchor.phase \in Cloned /\ front.table = "linear"
                 /\ meta.hydrated = Region
           /\ anchor.phase \in Cloned => anchor.new = anchor.head
<1>1. \/ anchor.phase \notin Cloned /\ front = Linear(anchor.head)
      \/ anchor.phase \in Cloned /\ front = Clone
      \/ anchor.phase = "HYDRATION_COMPLETE" /\ front = Linear(anchor.new)
  BY FrontCases
<1>2. anchor.phase \in Cloned => anchor.new = anchor.head
  BY DEF Generations
<1>3. anchor.head \in Gen /\ lv[anchor.head].role = "head"
  BY AnchorType DEF TypeOK, Generations
<1> QED BY <1>1, <1>2, <1>3 DEF Linear, Clone, Hydration

\* A write or a discard is a write of the abstract disk, whichever table serves it.
LEMMA GuestIORefines ==
    ASSUME ThickInv, NEW r \in Region, NEW c \in Data \cup {Zero}, GuestIO(r, c)
    PROVE  [Volume!Next]_<<Disk, Snapshots>>
<1>1. /\ front.table # "absent" /\ ~front.suspended
      /\ UNCHANGED <<anchor, lv, front>>
  BY DEF GuestIO
<1>2. PICK h \in Gen : h = anchor.head
  BY AnchorType DEF TypeOK
<1>3. /\ front.gen = h /\ lv[h].role = "head"
      /\ anchor.phase \in Cloned => anchor.new = h
      /\ data' = [data EXCEPT ![h][r] = c]
  BY <1>1, <1>2, ActiveFront DEF GuestIO
<1>4. Disk' = [Disk EXCEPT ![r] = c]
  <2>1. CASE anchor.phase \notin Cloned
    BY <1>1, <1>2, <1>3, <2>1 DEF Disk, TypeOK
  <2>2. CASE anchor.phase \in Cloned
    <3>1. meta'.hydrated = meta.hydrated \cup {r}
      BY <1>1, <2>2, ActiveFront DEF GuestIO, TypeOK, Meta
    <3>2. ASSUME NEW q \in Region
          PROVE  CloneContent'[q] = IF q = r THEN c ELSE CloneContent[q]
      <4>1. anchor.source \in Gen /\ anchor.source # h
        BY <1>3, <2>2, AnchorType, SourceIsOlder DEF TypeOK
      <4> QED BY <1>1, <1>3, <2>2, <3>1, <4>1 DEF CloneContent, TypeOK
    <3>3. CloneContent' = [CloneContent EXCEPT ![r] = c]
      BY <3>2 DEF CloneContent
    <3> QED BY <1>1, <2>2, <3>3 DEF Disk
  <2> QED BY <2>1, <2>2
<1>5. Snapshots' = Snapshots
  BY <1>1, <1>3, SnapshotsKept DEF SnapshotLvs, TypeOK
<1> QED BY <1>4, <1>5 DEF Volume!Next, Volume!Write

\* A region that dm-clone copies reads as before.
LEMMA HydrateRefines ==
    ASSUME ThickInv, NEW r \in Region, Hydrate(r)
    PROVE  Stutter
<1> USE NumberFacts
<1>1. /\ anchor.phase = "HYDRATING" /\ r \notin meta.hydrated
      /\ meta' = [meta EXCEPT !.hydrated = @ \cup {r}]
      /\ data' = [data EXCEPT ![anchor.new][r] = data[anchor.source][r]]
      /\ UNCHANGED <<anchor, lv>>
  BY DEF Hydrate
<1>2. /\ anchor.new \in Gen /\ anchor.source \in Gen
      /\ lv[anchor.new].role = "head" /\ anchor.source # anchor.new
  BY <1>1, AnchorType, SourceIsOlder DEF Generations, TypeOK
<1>3. meta'.hydrated = meta.hydrated \cup {r}
  BY <1>1 DEF TypeOK, Meta
<1>4. \A q \in Region : CloneContent'[q] = CloneContent[q]
  BY <1>1, <1>2, <1>3 DEF CloneContent, TypeOK
<1>5. Disk' = Disk
  <2>1. CloneContent' = CloneContent
    BY <1>4 DEF CloneContent
  <2> QED BY <1>1, <2>1 DEF Disk
<1>6. Snapshots' = Snapshots
  BY <1>1, <1>2, SnapshotsKept DEF SnapshotLvs, TypeOK
<1> QED BY <1>5, <1>6 DEF Stutter

\* A step that touches no generation but an unpublished one.
LEMMA OutOfSight ==
    ASSUME ThickInv, NEW g \in Gen, g # anchor.head, lv[g].role # "snapshot",
           anchor.phase \notin Cloned,
           NEW x \in Lv, x.role # "snapshot", NEW d \in [Region -> Value],
           lv' = [lv EXCEPT ![g] = x], data' = [data EXCEPT ![g] = d],
           anchor' = anchor
    PROVE  Stutter
<1>1. Disk' = Disk
  BY AnchorType DEF Disk, TypeOK
<1>2. \A s \in Snap : SnapshotLvs(s)' = SnapshotLvs(s)
  BY DEF SnapshotLvs, TypeOK
<1>3. Snapshots' = Snapshots
  BY <1>2, SnapshotsKept DEF TypeOK
<1> QED BY <1>1, <1>3 DEF Stutter

\* The phase advances and the content stays where it is.
LEMMA RecordRefines ==
    ASSUME ThickInv, UNCHANGED <<lv, data, meta>>,
           \/ anchor' = anchor
           \/ /\ anchor.phase \notin Cloned /\ anchor'.phase \notin Cloned
              /\ anchor'.head = anchor.head
           \/ /\ anchor.phase \in Cloned /\ anchor'.phase \in Cloned
              /\ anchor'.new = anchor.new /\ anchor'.source = anchor.source
           \/ /\ anchor.phase = "HYDRATION_COMPLETE" /\ anchor'.phase \notin Cloned
              /\ anchor'.head = anchor.head
    PROVE  Stutter
<1>1. Snapshots' = Snapshots
  BY SnapshotsKept DEF SnapshotLvs
<1>2. CASE anchor' = anchor
  BY <1>2, NothingStored
<1>3. CASE /\ anchor.phase \notin Cloned /\ anchor'.phase \notin Cloned
           /\ anchor'.head = anchor.head
  BY <1>1, <1>3 DEF Disk, Stutter
<1>4. CASE /\ anchor.phase \in Cloned /\ anchor'.phase \in Cloned
           /\ anchor'.new = anchor.new /\ anchor'.source = anchor.source
  BY <1>1, <1>4 DEF Disk, CloneContent, Stutter
<1>5. CASE /\ anchor.phase = "HYDRATION_COMPLETE" /\ anchor'.phase \notin Cloned
           /\ anchor'.head = anchor.head
  <2>1. Disk = data[anchor.new] /\ anchor.new = anchor.head
    BY <1>5, CloneIsNew DEF Disk, Hydration, Generations
  <2> QED BY <1>1, <1>5, <2>1 DEF Disk, Stutter
<1> QED BY <1>2, <1>3, <1>4, <1>5

\* The metadata LV is created, cleared and removed out of sight.
LEMMA MetaRefines ==
    ASSUME anchor.phase \notin Cloned, UNCHANGED <<anchor, lv, data>>
    PROVE  Stutter
<1>1. Disk' = Disk
  BY DEF Disk
<1> QED BY <1>1, SnapshotsKept DEF SnapshotLvs, Stutter

LEMMA SealRefines ==
    ASSUME ThickInv, Seal
    PROVE  Stutter
<1>1. UNCHANGED <<anchor, data, meta>> /\ lv' = [lv EXCEPT ![anchor.source].ro = TRUE]
  BY DEF Seal
<1>2. \A s \in Snap : SnapshotLvs(s)' = SnapshotLvs(s)
  BY <1>1 DEF SnapshotLvs, TypeOK, Lv
<1>3. Disk' = Disk
  BY <1>1 DEF Disk, CloneContent
<1> QED BY <1>1, <1>2, <1>3, SnapshotsKept DEF Stutter

LEMMA WorkerRefines ==
    ASSUME ThickInv, WorkerStep
    PROVE  [Volume!Next]_<<Disk, Snapshots>>
<1> USE NumberFacts
<1>0. SUFFICES Stutter \/ Commit \/ Retag
  BY CommitRefines, RetagRefines DEF Stutter
<1>1. CASE \/ EnsureFront \/ EnsureSource \/ Suspend \/ Publish
           \/ EnableHydration \/ HandOff \/ SuspendClone \/ PivotRefused \/ PublishLinear \/ DetachSource \/ ClearIntent
           \/ RebuildSource \/ RebuildFront \/ UndoIntent \/ UndoRefused
  BY <1>1, NothingStored
     DEF EnsureFront, EnsureSource, Suspend, Publish, EnableHydration, HandOff,
         SuspendClone, PivotRefused, PublishLinear, DetachSource, ClearIntent,
         RebuildSource, RebuildFront, UndoIntent, UndoRefused
<1>2. CASE RecordPrepared
  BY <1>2, RecordRefines DEF RecordPrepared, Placed
<1>3. CASE RecordSourceReady \/ RecordMaterialized
  BY <1>3, RecordRefines
     DEF RecordSourceReady, RecordMaterialized, Placed, TypeOK, Anchor
<1>4. CASE RecordHydrating \/ HydrationComplete
  BY <1>4, RecordRefines
     DEF RecordHydrating, HydrationComplete, Placed, TypeOK, Anchor
<1>5. CASE RecordPivoted
  BY <1>5, RecordRefines DEF RecordPivoted, Placed, TypeOK, Anchor
<1>6. CASE CreateMeta \/ InitMeta \/ DropMeta \/ UndoMeta
  BY <1>6, MetaRefines
     DEF CreateMeta, InitMeta, DropMeta, UndoMeta, Placed
<1>7. CASE Seal
  BY <1>7, SealRefines
<1>8. CASE CreateNew \/ UndoNew
  <2>1. /\ anchor.phase \notin Cloned /\ anchor' = anchor
        /\ NewGen # anchor.head
        /\ NewGen \in Gen => lv[NewGen].role # "snapshot"
    BY <1>8
       DEF CreateNew, UndoNew, Placed, Generations, NewGen, TypeOK, Anchor, Gen
  <2>2. PICK x \in Lv : x.role # "snapshot" /\ lv' = [lv EXCEPT ![NewGen] = x]
    BY <1>8, LvType DEF CreateNew, UndoNew, NoLv
  <2>3. data' = [data EXCEPT ![NewGen] = [r \in Region |-> Junk]]
    BY <1>8 DEF CreateNew, UndoNew
  <2>4. CASE NewGen \in Gen
    BY <2>1, <2>2, <2>3, <2>4, DataType, OutOfSight
  <2>5. CASE NewGen \notin Gen
    <3>1. lv' = lv /\ data' = data
      BY <2>2, <2>3, <2>5 DEF TypeOK
    <3> QED BY <2>1, <3>1, MetaRefines
  <2> QED BY <2>4, <2>5
<1>9. CASE ZeroNew
  <2>1. /\ anchor.new \in Gen /\ anchor.new # anchor.head /\ anchor.phase \notin Cloned
        /\ lv[anchor.new].role = "head" /\ lv[anchor.new] \in Lv
    BY <1>9, AnchorType, NewIsNotOld
       DEF ZeroNew, Placed, Generations, TypeOK
  <2>2. lv' = [lv EXCEPT ![anchor.new] = lv[anchor.new]]
    BY <1>9, <2>1 DEF ZeroNew, TypeOK
  <2> QED BY <1>9, <2>1, <2>2, DataType, OutOfSight DEF ZeroNew
<1>10. CASE DropOld
  <2>1. /\ anchor.old \in Gen /\ anchor.old # anchor.head /\ anchor.phase \notin Cloned
        /\ lv[anchor.old].role # "snapshot"
    BY <1>10, AnchorType, NewIsNotOld
       DEF DropOld, Placed, Generations, TypeOK
  <2> QED BY <1>10, <2>1, LvType, DataType, OutOfSight DEF DropOld, NoLv
<1> QED
  BY <1>1, <1>2, <1>3, <1>4, <1>5, <1>6, <1>7, <1>8, <1>9, <1>10 DEF WorkerStep

LEMMA RequestRefines ==
    ASSUME ThickInv, Request
    PROVE  Stutter
<1>1. CASE \E s \in Snap : BeginSnapshot(s) \/ BeginRollback(s)
  BY <1>1, NothingStored DEF BeginSnapshot, BeginRollback
<1>2. CASE RecoverPrepare \/ Activate \/ Deactivate \/ OpenFront
  BY <1>2, NothingStored DEF RecoverPrepare, Activate, Deactivate, OpenFront
<1>3. CASE Resume
  <2>1. UNCHANGED <<lv, data, meta>>
    BY <1>3 DEF Resume
  <2>2. CASE anchor.phase = "PREPARED" /\ src
    BY <1>3, <2>1, <2>2, RecordRefines DEF Resume, TypeOK, Anchor
  <2>3. CASE ~(anchor.phase = "PREPARED" /\ src)
    BY <1>3, <2>1, <2>3, NothingStored DEF Resume
  <2> QED BY <2>2, <2>3
<1> QED BY <1>1, <1>2, <1>3 DEF Request

LEMMA EnvironmentRefines ==
    ASSUME ThickInv, Environment
    PROVE  [Volume!Next]_<<Disk, Snapshots>>
<1>1. ASSUME NEW r \in Region, Discard(r) PROVE [Volume!Next]_<<Disk, Snapshots>>
  <2> DEFINE c == IF front.table = "clone" /\ r \notin meta.hydrated
                  THEN data[front.gen][r] ELSE Zero
  <2>1. c = Zero
    <3>1. CASE front.table = "clone" /\ r \notin meta.hydrated
      <4>1. front.gen = anchor.new /\ anchor.phase \in Cloned
        BY <1>1, <3>1, ActiveFront DEF Discard, GuestIO
      <4> QED BY <3>1, <4>1 DEF Hydration, ZeroedBy
    <3>2. CASE ~(front.table = "clone" /\ r \notin meta.hydrated)
      BY <3>2
    <3> QED BY <3>1, <3>2
  <2>2. GuestIO(r, Zero)
    BY <1>1, <2>1 DEF Discard
  <2> QED BY <2>2, GuestIORefines
<1>2. ASSUME NEW r \in Region, NEW v \in Data, Write(r, v)
      PROVE  [Volume!Next]_<<Disk, Snapshots>>
  BY <1>2, GuestIORefines DEF Write
<1>3. ASSUME NEW r \in Region, Hydrate(r) PROVE Stutter
  BY <1>3, HydrateRefines
<1>4. CASE CloseFront \/ ForeignIntent \/ Kill \/ HostLoss
  BY <1>4, NothingStored DEF CloseFront, ForeignIntent, Kill, HostLoss, Stutter
<1> QED BY <1>1, <1>2, <1>3, <1>4 DEF Environment, GuestStep, Stutter

\* The transitions implement a disk with immutable snapshots: an interrupted or
\* resumed worker is a stuttering step, Retag takes the snapshot, Commit of a
\* rollback restores one, and only the guest writes.
THEOREM ThickImplements == Spec => ImplementsVolume
<1>1. Init => Volume!Init
  <2> SUFFICES ASSUME Init PROVE Volume!Init
    OBVIOUS
  <2>1. 1 \in Gen
    BY ThickAssumption DEF Gen
  <2>2. Disk = [r \in Region |-> Zero]
    BY <2>1 DEF Init, Disk
  <2>3. \A s \in Snap : SnapshotLvs(s) = {}
    BY DEF Init, SnapshotLvs, NoLv
  <2>4. Snapshots = [s \in Snap |-> Missing]
    BY <2>3 DEF Snapshots
  <2> QED BY <2>2, <2>4 DEF Volume!Init
<1>2. ThickInv /\ [Next]_vars => [Volume!Next]_<<Disk, Snapshots>>
  <2> SUFFICES ASSUME ThickInv, [Next]_vars PROVE [Volume!Next]_<<Disk, Snapshots>>
    OBVIOUS
  <2>1. CASE UNCHANGED vars
    BY <2>1, NothingStored DEF vars, Stutter
  <2> QED BY <2>1, WorkerRefines, RequestRefines, EnvironmentRefines DEF Next, Stutter
<1> QED BY <1>1, <1>2, ThickInvariant, PTL DEF Spec, ImplementsVolume, Volume!Spec
=============================================================================
