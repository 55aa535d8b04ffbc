---------------------------- MODULE ThickTransition ----------------------------
(***************************************************************************)
(* Snapshot and rollback of one Thick Generations volume.                  *)
(*                                                                         *)
(* A volume is a set of fully allocated generation LVs, one of them the    *)
(* HEAD, and an anchor LV whose signed tags record the phase of the        *)
(* current transition.  The guest reads and writes a device-mapper         *)
(* frontend.  A snapshot or a rollback creates a new generation, cuts the  *)
(* frontend over to a dm-clone of the immutable source, hydrates it,       *)
(* pivots the frontend to the new generation alone and cleans up.  The     *)
(* worker may be killed between any two of its commands and the host may   *)
(* be lost; the anchor, the generations, the clone metadata and the VG     *)
(* intent survive, the mappers do not, and thick-resume continues.         *)
(*                                                                         *)
(* One executor works on a volume at a time (the per-volume executor lock, *)
(* and PVE's lock of the VM); thick-resume runs elsewhere only when the    *)
(* worker's host is lost, so one host is modelled and its loss forgets the *)
(* mappers.  A command that fails ends the worker like a kill before it.   *)
(***************************************************************************)
EXTENDS Naturals, FiniteSets

CONSTANTS
    Region,     \* dm-clone regions of the disk
    Data,       \* what the guest writes
    Zero,       \* a zeroed or discarded region
    Junk,       \* what a fresh LV's extents held before
    Snap,       \* snapshot names
    Missing,    \* no such snapshot
    MaxGen,     \* bound on the generations (99,999,999 in the code)
    MaxCrash    \* bound on kills and host losses

ASSUME ThickAssumption ==
    /\ MaxGen \in Nat \ {0}
    /\ MaxCrash \in Nat
    /\ Zero \notin Data /\ Junk \notin Data \cup {Zero}
    /\ Missing \notin Snap /\ Missing \notin [Region -> Data \cup {Zero, Junk}]

VARIABLES
    anchor,     \* the signed anchor
    intent,     \* the VG's OPEN intent
    lv,         \* lv[g]: role, snapshot name and permission of generation g
    data,       \* data[g]: content of generation g
    meta,       \* the dm-clone metadata LV: present, and the hydrated regions
    front,      \* the frontend mapper: its table, and whether it is suspended
    src,        \* the read-only source mapper exists
    guest,      \* QEMU has the frontend open
    pc,         \* where the worker is
    job,        \* its request: operation, snapshot, source; and asynchronous
    crashes

runtimeVars == <<front, src, guest>>
diskVars == <<lv, data, meta>>
vars == <<anchor, intent, diskVars, runtimeVars, pc, job, crashes>>

Gen == 1..MaxGen
Value == Data \cup {Zero, Junk}

PreCommit == {"PREPARED", "SOURCE_READY"}
Cloned == {"COMMITTED", "HYDRATING", "HYDRATION_COMPLETE"}
Transition == PreCommit \cup Cloned \cup {"LINEAR_PIVOTED"}

Steps == {"idle", "createNew", "createMeta", "prepared", "zero", "initMeta",
          "front", "sourceMap", "sourceReady", "suspend", "commit", "retag", "publish",
          "seal", "hydrating", "enable", "handOff", "hydrate", "pivot", "swap",
          "pivoted", "detach", "dropMeta", "dropOld", "materialized", "clear",
          "rebuildSource", "rebuildFront", "undoMeta", "undoNew", "undoIntent"}

NoLv == [role |-> "none", snap |-> Missing, ro |-> FALSE]
NoMeta == [present |-> FALSE, hydrated |-> {}]
Absent == [table |-> "absent", gen |-> 0, suspended |-> FALSE]
Linear(g) == [table |-> "linear", gen |-> g, suspended |-> FALSE]
Clone == [table |-> "clone", gen |-> anchor.new, suspended |-> FALSE]
NoJob == [op |-> "none", snap |-> Missing, source |-> 0, async |-> FALSE]

Anchor == [phase : Transition \cup {"MATERIALIZED"},
           op : {"ALLOC", "SNAPSHOT", "ROLLBACK"}, snap : Snap \cup {Missing},
           head : Gen, old : Gen, new : Gen, source : Gen]
Lv == [role : {"none", "head", "snapshot"}, snap : Snap \cup {Missing}, ro : BOOLEAN]
Meta == [present : BOOLEAN, hydrated : SUBSET Region]
Table == [table : {"absent", "linear", "clone"}, gen : 0..MaxGen, suspended : BOOLEAN]
Job == [op : {"none", "SNAPSHOT", "ROLLBACK"}, snap : Snap \cup {Missing},
        source : 0..MaxGen, async : BOOLEAN]

TypeOK ==
    /\ anchor \in Anchor
    /\ intent \in {"none", "foreign", "fresh", "anchor"}
    /\ lv \in [Gen -> Lv]
    /\ data \in [Gen -> [Region -> Value]]
    /\ meta \in Meta
    /\ front \in Table
    /\ src \in BOOLEAN
    /\ guest \in BOOLEAN
    /\ pc \in Steps
    /\ job \in Job
    /\ crashes \in 0..MaxCrash

\* _thick_alloc_image left one zeroed HEAD behind a MATERIALIZED anchor.
Init ==
    /\ anchor = [phase |-> "MATERIALIZED", op |-> "ALLOC", snap |-> Missing,
                 head |-> 1, old |-> 1, new |-> 1, source |-> 1]
    /\ intent = "none"
    /\ lv = [g \in Gen |-> IF g = 1 THEN [NoLv EXCEPT !.role = "head"] ELSE NoLv]
    /\ data = [g \in Gen |-> [r \in Region |-> IF g = 1 THEN Zero ELSE Junk]]
    /\ meta = NoMeta
    /\ front = Absent
    /\ src = FALSE
    /\ guest = FALSE
    /\ pc = "idle"
    /\ job = NoJob
    /\ crashes = 0

-----------------------------------------------------------------------------
(* Control                                                                 *)

Goto(step) == pc' = step /\ UNCHANGED <<job, crashes>>

\* The worker returns.
Return == pc' = "idle" /\ job' = NoJob /\ UNCHANGED crashes

\* _thick_transition_anchor: the phase advances, the identity stays.
Record(phase) == anchor' = [anchor EXCEPT !.phase = phase]

NewGen == anchor.head + 1

\* _thick_find_snapshot: the generations tagged as snapshot s.
SnapshotLvs(s) == {g \in Gen : lv[g].role = "snapshot" /\ lv[g].snap = s}

-----------------------------------------------------------------------------
(* _thick_volume_snapshot: admission under the VG lock                     *)

\* Mutant: the generation number is not bounded.
AdmissionUnbounded ==
    /\ pc = "idle"
    /\ intent = "none"
    /\ anchor.phase = "MATERIALIZED"
    /\ ~meta.present /\ ~src

\* Another volume's intent is waited for, an own one refuses an implicit retry,
\* and the anchor must be MATERIALIZED.
Admission ==
    /\ pc = "idle"
    /\ intent = "none"
    /\ anchor.phase = "MATERIALIZED"
    /\ NewGen <= MaxGen
    /\ lv[NewGen].role = "none" /\ ~meta.present /\ ~src

\* A frontend that was open before the lock was taken makes it asynchronous.
BeginSnapshot(s) ==
    /\ Admission
    /\ SnapshotLvs(s) = {}
    /\ \E async \in {FALSE, front.table # "absent"} :
        job' = [op |-> "SNAPSHOT", snap |-> s, source |-> anchor.head, async |-> async]
    /\ intent' = "fresh"
    /\ pc' = "createNew"
    /\ UNCHANGED <<anchor, diskVars, runtimeVars, crashes>>

\* A rollback waits for the frontend to be closed, and checks again.
BeginRollback(s) ==
    /\ Admission
    /\ ~guest
    /\ \E g \in Gen :
        /\ SnapshotLvs(s) = {g}
        /\ lv[g].ro
        /\ job' = [op |-> "ROLLBACK", snap |-> s, source |-> g, async |-> FALSE]
    /\ intent' = "fresh"
    /\ pc' = "createNew"
    /\ UNCHANGED <<anchor, diskVars, runtimeVars, crashes>>

\* Fresh LVs hold whatever their extents held before.
CreateNew ==
    /\ pc = "createNew"
    /\ lv' = [lv EXCEPT ![NewGen] = [NoLv EXCEPT !.role = "head"]]
    /\ data' = [data EXCEPT ![NewGen] = [r \in Region |-> Junk]]
    /\ Goto("createMeta")
    /\ UNCHANGED <<anchor, intent, meta, runtimeVars>>

CreateMeta ==
    /\ pc = "createMeta"
    /\ \E h \in SUBSET Region : meta' = [present |-> TRUE, hydrated |-> h]
    /\ Goto("prepared")
    /\ UNCHANGED <<anchor, intent, lv, data, runtimeVars>>

RecordPrepared ==
    /\ pc = "prepared"
    /\ anchor' = [phase |-> "PREPARED", op |-> job.op, snap |-> job.snap,
                  head |-> anchor.head, old |-> anchor.head, new |-> NewGen,
                  source |-> job.source]
    /\ intent' = "anchor"
    /\ Goto("zero")
    /\ UNCHANGED <<diskVars, runtimeVars>>

-----------------------------------------------------------------------------
(* PREPARED                                                                *)

\* The whole destination is zeroed, again after an interruption.
ZeroNew ==
    /\ pc = "zero"
    /\ data' = [data EXCEPT ![anchor.new] = [r \in Region |-> Zero]]
    /\ Goto("initMeta")
    /\ UNCHANGED <<anchor, intent, lv, meta, runtimeVars>>

\* Mutant: the metadata LV keeps what its extents held.
InitMetaSkipped ==
    /\ pc = "initMeta"
    /\ Goto("front")
    /\ UNCHANGED <<anchor, intent, diskVars, runtimeVars>>

InitMeta ==
    /\ pc = "initMeta"
    /\ meta' = [meta EXCEPT !.hydrated = {}]
    /\ Goto("front")
    /\ UNCHANGED <<anchor, intent, lv, data, runtimeVars>>

\* A missing frontend is created on the old HEAD; a present one must be it.
EnsureFront ==
    /\ pc = "front"
    /\ front \in {Absent, Linear(anchor.old)}
    /\ front' = Linear(anchor.old)
    /\ Goto("sourceMap")
    /\ UNCHANGED <<anchor, intent, diskVars, src, guest>>

EnsureSource ==
    /\ pc = "sourceMap"
    /\ src' = TRUE
    /\ Goto("sourceReady")
    /\ UNCHANGED <<anchor, intent, diskVars, front, guest>>

RecordSourceReady ==
    /\ pc = "sourceReady"
    /\ Record("SOURCE_READY")
    /\ Goto("suspend")
    /\ UNCHANGED <<intent, diskVars, runtimeVars>>

-----------------------------------------------------------------------------
(* SOURCE_READY                                                            *)

Suspend ==
    /\ pc = "suspend"
    /\ src /\ front.table # "absent"
    /\ front' = [front EXCEPT !.suspended = TRUE]
    /\ Goto("commit")
    /\ UNCHANGED <<anchor, intent, diskVars, src, guest>>

\* The commit point: the anchor's HEAD moves to the new generation.
Commit ==
    /\ pc = "commit"
    /\ anchor' = [anchor EXCEPT !.phase = "COMMITTED", !.head = anchor.new]
    /\ Goto(IF anchor.op = "SNAPSHOT" THEN "retag" ELSE "publish")
    /\ UNCHANGED <<intent, diskVars, runtimeVars>>

\* The old HEAD becomes the snapshot.
Retag ==
    /\ pc = "retag"
    /\ lv[anchor.old].role = "head"
    /\ lv' = [lv EXCEPT ![anchor.old].role = "snapshot", ![anchor.old].snap = anchor.snap]
    /\ Goto("publish")
    /\ UNCHANGED <<anchor, intent, data, meta, runtimeVars>>

-----------------------------------------------------------------------------
(* COMMITTED                                                               *)

\* Mutant: a frontend published before is taken to be sealed as well.
PublishSealedBefore ==
    /\ pc = "publish"
    /\ src /\ front.table # "absent"
    /\ IF front.suspended
       THEN /\ front = [Linear(anchor.old) EXCEPT !.suspended = TRUE]
            /\ front' = Clone
            /\ Goto("seal")
       ELSE UNCHANGED front /\ Goto("hydrating")
    /\ UNCHANGED <<anchor, intent, diskVars, src, guest>>

\* A suspended frontend must still be the old HEAD's; the clone table replaces
\* it.  A frontend that is not suspended has been published before.
Publish ==
    /\ pc = "publish"
    /\ src /\ front.table # "absent"
    /\ IF front.suspended
       THEN /\ front = [Linear(anchor.old) EXCEPT !.suspended = TRUE]
            /\ front' = Clone
       ELSE UNCHANGED front
    /\ Goto("seal")
    /\ UNCHANGED <<anchor, intent, diskVars, src, guest>>

\* The source is read-only from here on; a rollback's source must be already.
Seal ==
    /\ pc = "seal"
    /\ anchor.op = "ROLLBACK" => lv[anchor.source].ro
    /\ lv' = [lv EXCEPT ![anchor.source].ro = TRUE]
    /\ Goto("hydrating")
    /\ UNCHANGED <<anchor, intent, data, meta, runtimeVars>>

RecordHydrating ==
    /\ pc = "hydrating"
    /\ Record("HYDRATING")
    /\ Goto("enable")
    /\ UNCHANGED <<intent, diskVars, runtimeVars>>

-----------------------------------------------------------------------------
(* HYDRATING                                                               *)

EnableHydration ==
    /\ pc = "enable"
    /\ front.table = "clone"
    /\ Goto(IF job.async THEN "handOff" ELSE "hydrate")
    /\ UNCHANGED <<anchor, intent, diskVars, runtimeVars>>

\* _thick_scope_transition_intent_to_anchor: the anchor alone blocks the volume,
\* and a scheduled worker resumes it.
HandOff ==
    /\ pc = "handOff"
    /\ intent = "anchor" /\ anchor.op = "SNAPSHOT" /\ anchor.phase = "HYDRATING"
    /\ intent' = "none"
    /\ Return
    /\ UNCHANGED <<anchor, diskVars, runtimeVars>>

\* Every region is hydrated, by the clone status.
HydrationComplete ==
    /\ pc = "hydrate"
    /\ front.table = "clone" /\ meta.hydrated = Region
    /\ Record("HYDRATION_COMPLETE")
    /\ Goto("pivot")
    /\ UNCHANGED <<intent, diskVars, runtimeVars>>

-----------------------------------------------------------------------------
(* HYDRATION_COMPLETE and LINEAR_PIVOTED                                   *)

SuspendClone ==
    /\ pc = "pivot"
    /\ front.table = "clone" /\ meta.hydrated = Region
    /\ front' = [front EXCEPT !.suspended = TRUE]
    /\ Goto("swap")
    /\ UNCHANGED <<anchor, intent, diskVars, src, guest>>

\* A frontend that is linear already was published by a worker that died before
\* it could record the pivot: the clone check refuses it.
PivotRefused ==
    /\ pc = "pivot"
    /\ ~(front.table = "clone" /\ meta.hydrated = Region)
    /\ Return
    /\ UNCHANGED <<anchor, intent, diskVars, runtimeVars>>

PublishLinear ==
    /\ pc = "swap"
    /\ meta.hydrated = Region
    /\ front' = Linear(anchor.new)
    /\ Goto("pivoted")
    /\ UNCHANGED <<anchor, intent, diskVars, src, guest>>

RecordPivoted ==
    /\ pc = "pivoted"
    /\ Record("LINEAR_PIVOTED")
    /\ Goto("detach")
    /\ UNCHANGED <<intent, diskVars, runtimeVars>>

DetachSource ==
    /\ pc = "detach"
    /\ front = Linear(anchor.new)
    /\ lv[anchor.source].ro
    /\ src' = FALSE
    /\ Goto("dropMeta")
    /\ UNCHANGED <<anchor, intent, diskVars, front, guest>>

DropMeta ==
    /\ pc = "dropMeta"
    /\ meta' = NoMeta
    /\ Goto(IF anchor.op = "ROLLBACK" THEN "dropOld" ELSE "materialized")
    /\ UNCHANGED <<anchor, intent, lv, data, runtimeVars>>

\* The superseded HEAD of a rollback goes; its snapshot must still be there.
DropOld ==
    /\ pc = "dropOld"
    /\ lv[anchor.old].role \in {"none", "head"}
    /\ lv' = [lv EXCEPT ![anchor.old] = NoLv]
    /\ data' = [data EXCEPT ![anchor.old] = [r \in Region |-> Junk]]
    /\ SnapshotLvs(anchor.snap) = {anchor.source}
    /\ Goto("materialized")
    /\ UNCHANGED <<anchor, intent, meta, runtimeVars>>

\* Mutant: the VG intent is cleared before the anchor says MATERIALIZED.
ClearBeforeMaterialized ==
    /\ pc = "materialized"
    /\ \/ intent = "anchor" /\ intent' = "none" /\ Goto("materialized") /\ UNCHANGED anchor
       \/ intent # "anchor" /\ Record("MATERIALIZED") /\ Return /\ UNCHANGED intent
    /\ UNCHANGED <<diskVars, runtimeVars>>

\* An anchor-scoped transition has no VG intent to clear.
RecordMaterialized ==
    /\ pc = "materialized"
    /\ Record("MATERIALIZED")
    /\ IF intent = "anchor" THEN Goto("clear") ELSE Return
    /\ UNCHANGED <<intent, diskVars, runtimeVars>>

ClearIntent ==
    /\ pc = "clear"
    /\ intent' = "none"
    /\ Return
    /\ UNCHANGED <<anchor, diskVars, runtimeVars>>

-----------------------------------------------------------------------------
(* thick-resume, the scheduled worker, and thick-recover-prepare           *)

\* The transition is owned: by the VG intent with its transaction, or, once it
\* is published, by its anchor.
ResumeIntent ==
    \/ intent = "anchor"
    \/ /\ intent \in {"none", "foreign"}
       /\ anchor.op = "SNAPSHOT"
       /\ anchor.phase \in {"HYDRATING", "HYDRATION_COMPLETE", "LINEAR_PIVOTED"}

\* Mutant: the metadata is demanded after its cleanup too.
ResumeAllObjects ==
    /\ lv[anchor.source].role # "none"
    /\ lv[anchor.new].role = "head"
    /\ \/ lv[anchor.old].role # "none"
       \/ anchor.phase = "LINEAR_PIVOTED" /\ anchor.op = "ROLLBACK"
    /\ meta.present
    /\ anchor.op = "ROLLBACK" => SnapshotLvs(anchor.snap) = {anchor.source}

\* _thick_resume_transition: every object of the transition is there, but for
\* those that the cleanup after the pivot removes.
ResumeObjects ==
    /\ lv[anchor.source].role # "none"
    /\ lv[anchor.new].role = "head"
    /\ \/ lv[anchor.old].role # "none"
       \/ anchor.phase = "LINEAR_PIVOTED" /\ anchor.op = "ROLLBACK"
    /\ meta.present \/ anchor.phase = "LINEAR_PIVOTED"
    /\ anchor.op = "ROLLBACK" => SnapshotLvs(anchor.snap) = {anchor.source}

\* The frontend is the old HEAD's; it may be suspended for the cutover.
OldFront ==
    \/ front = Linear(anchor.old)
    \/ src /\ front = [Linear(anchor.old) EXCEPT !.suspended = TRUE]

\* What _thick_resume_transition and the reconstruction demand of the mappers:
\* before the commit the old frontend, after it both mappers or neither.
ResumeRuntime ==
    CASE anchor.phase = "PREPARED" -> OldFront
      [] anchor.phase = "SOURCE_READY" -> OldFront /\ src
      [] anchor.phase \in Cloned -> (front.table # "absent") = src
      [] anchor.phase = "LINEAR_PIVOTED" -> front \in {Absent, Linear(anchor.new)}

\* Where a resumed worker continues.
PhaseStep ==
    CASE anchor.phase = "PREPARED" -> "zero"
      [] anchor.phase = "SOURCE_READY" -> "suspend"
      [] anchor.phase = "COMMITTED" -> "publish"
      [] anchor.phase = "HYDRATING" -> "enable"
      [] anchor.phase = "HYDRATION_COMPLETE" -> "pivot"
      [] anchor.phase = "LINEAR_PIVOTED" -> "detach"

\* A PREPARED transition whose source mapper exists has finished its writes.
Resume ==
    /\ pc = "idle"
    /\ anchor.phase \in Transition
    /\ ResumeIntent /\ ResumeObjects /\ ResumeRuntime
    /\ anchor.op = "ROLLBACK" => ~guest
    /\ job' = [op |-> anchor.op, snap |-> anchor.snap, source |-> anchor.source,
               async |-> FALSE]
    /\ IF anchor.phase = "PREPARED" /\ src
       THEN Record("SOURCE_READY") /\ pc' = "suspend"
       ELSE /\ UNCHANGED anchor
            /\ pc' = CASE front.table # "absent" -> PhaseStep
                       [] anchor.phase = "LINEAR_PIVOTED" -> "rebuildFront"
                       [] OTHER -> "rebuildSource"
    /\ UNCHANGED <<intent, diskVars, runtimeVars, crashes>>

RebuildSource ==
    /\ pc = "rebuildSource"
    /\ src' = TRUE
    /\ Goto("rebuildFront")
    /\ UNCHANGED <<anchor, intent, diskVars, front, guest>>

\* Mutant: a clone that was hydrating is rebuilt as if it were complete.
RebuildFrontLinear ==
    /\ pc = "rebuildFront"
    /\ front' = IF anchor.phase = "COMMITTED" THEN Clone ELSE Linear(anchor.new)
    /\ Goto(PhaseStep)
    /\ UNCHANGED <<anchor, intent, diskVars, src, guest>>

\* The clone is loaded from its persisted metadata; after the pivot the new
\* HEAD alone is mapped.
RebuildFront ==
    /\ pc = "rebuildFront"
    /\ front' = IF anchor.phase \in Cloned THEN Clone ELSE Linear(anchor.new)
    /\ Goto(PhaseStep)
    /\ UNCHANGED <<anchor, intent, diskVars, src, guest>>

\* _thick_recover_unpublished_prepare: the intent was never recorded in the
\* anchor, the stable frontend is untouched, and every other generation is a
\* snapshot.
RecoverPrepare ==
    /\ pc = "idle"
    /\ intent = "fresh"
    /\ anchor.phase = "MATERIALIZED"
    /\ front = Linear(anchor.head) /\ ~src
    /\ NewGen <= MaxGen
    /\ \A g \in Gen \ {anchor.head, NewGen} : lv[g].role \in {"none", "snapshot"}
    /\ pc' = "undoMeta"
    /\ UNCHANGED <<anchor, intent, diskVars, runtimeVars, job, crashes>>

UndoMeta ==
    /\ pc = "undoMeta"
    /\ meta' = NoMeta
    /\ Goto("undoNew")
    /\ UNCHANGED <<anchor, intent, lv, data, runtimeVars>>

UndoNew ==
    /\ pc = "undoNew"
    /\ lv' = [lv EXCEPT ![NewGen] = NoLv]
    /\ data' = [data EXCEPT ![NewGen] = [r \in Region |-> Junk]]
    /\ Goto("undoIntent")
    /\ UNCHANGED <<anchor, intent, meta, runtimeVars>>

UndoIntent ==
    /\ pc = "undoIntent"
    /\ front = Linear(anchor.head)
    /\ intent' = "none"
    /\ Return
    /\ UNCHANGED <<anchor, diskVars, runtimeVars>>

\* The frontend was deactivated meanwhile: the intent is preserved.
UndoRefused ==
    /\ pc = "undoIntent"
    /\ front # Linear(anchor.head)
    /\ Return
    /\ UNCHANGED <<anchor, intent, diskVars, runtimeVars>>

-----------------------------------------------------------------------------
(* Activation of a MATERIALIZED volume, and of a published transition      *)

\* The lifecycle calls of a MATERIALIZED volume take no lock: a worker may have
\* opened its intent already.  Those of a transition wait for the executor.
Activate ==
    /\ anchor.phase = "MATERIALIZED"
    /\ front = Absent
    /\ front' = Linear(anchor.head)
    /\ UNCHANGED <<anchor, intent, diskVars, src, guest, pc, job, crashes>>

Deactivate ==
    /\ anchor.phase = "MATERIALIZED"
    /\ front = Linear(anchor.head) /\ ~guest
    /\ front' = Absent
    /\ UNCHANGED <<anchor, intent, diskVars, src, guest, pc, job, crashes>>

\* _thick_verify_published_transition_frontend.
PublishedFront ==
    CASE anchor.phase = "MATERIALIZED" -> front = Linear(anchor.head)
      [] anchor.phase = "LINEAR_PIVOTED" -> front = Linear(anchor.head)
      [] anchor.phase \in {"HYDRATING", "HYDRATION_COMPLETE"} ->
            /\ ResumeIntent /\ ResumeObjects
            /\ src /\ front = Clone
            /\ anchor.phase = "HYDRATION_COMPLETE" => meta.hydrated = Region
      [] OTHER -> FALSE

\* QEMU opens an activated frontend.
OpenFront ==
    /\ pc = "idle" \/ anchor.phase = "MATERIALIZED"
    /\ ~guest /\ PublishedFront
    /\ guest' = TRUE
    /\ UNCHANGED <<anchor, intent, diskVars, front, src, pc, job, crashes>>

-----------------------------------------------------------------------------
(* Environment: QEMU, device-mapper, other volumes, kills (external)       *)

CloseFront ==
    /\ guest
    /\ guest' = FALSE
    /\ UNCHANGED <<anchor, intent, diskVars, front, src, pc, job, crashes>>

\* I/O reaches the generation under an active frontend; a clone's region is
\* the destination's afterwards.
GuestIO(r, content) ==
    /\ guest /\ front.table # "absent" /\ ~front.suspended
    /\ data' = [data EXCEPT ![front.gen][r] = content]
    /\ meta' = IF front.table = "clone"
               THEN [meta EXCEPT !.hydrated = @ \cup {r}] ELSE meta
    /\ UNCHANGED <<anchor, intent, lv, runtimeVars, pc, job, crashes>>

Write(r, v) == GuestIO(r, v)

\* A clone's discard is not passed down: the region becomes the destination's
\* as the destination is.
Discard(r) ==
    GuestIO(r, IF front.table = "clone" /\ r \notin meta.hydrated
               THEN data[front.gen][r] ELSE Zero)

\* dm-clone copies a region in the background.
Hydrate(r) ==
    /\ anchor.phase = "HYDRATING"
    /\ front.table = "clone" /\ ~front.suspended
    /\ r \notin meta.hydrated
    /\ meta' = [meta EXCEPT !.hydrated = @ \cup {r}]
    /\ data' = [data EXCEPT ![anchor.new][r] = data[anchor.source][r]]
    /\ UNCHANGED <<anchor, intent, lv, runtimeVars, pc, job, crashes>>

\* Another volume of the VG opens and clears its own intent.
ForeignIntent ==
    /\ \/ intent = "none" /\ intent' = "foreign"
       \/ intent = "foreign" /\ intent' = "none"
    /\ UNCHANGED <<anchor, diskVars, runtimeVars, pc, job, crashes>>

Kill ==
    /\ pc # "idle"
    /\ crashes < MaxCrash
    /\ crashes' = crashes + 1
    /\ pc' = "idle"
    /\ job' = NoJob
    /\ UNCHANGED <<anchor, intent, diskVars, runtimeVars>>

HostLoss ==
    /\ crashes < MaxCrash
    /\ crashes' = crashes + 1
    /\ front' = Absent
    /\ src' = FALSE
    /\ guest' = FALSE
    /\ pc' = "idle"
    /\ job' = NoJob
    /\ UNCHANGED <<anchor, intent, diskVars>>

-----------------------------------------------------------------------------

WorkerStep ==
    \/ CreateNew \/ CreateMeta \/ RecordPrepared
    \/ ZeroNew \/ InitMeta \/ EnsureFront \/ EnsureSource \/ RecordSourceReady
    \/ Suspend \/ Commit \/ Retag
    \/ Publish \/ Seal \/ RecordHydrating
    \/ EnableHydration \/ HandOff \/ HydrationComplete
    \/ SuspendClone \/ PivotRefused \/ PublishLinear \/ RecordPivoted
    \/ DetachSource \/ DropMeta \/ DropOld \/ RecordMaterialized \/ ClearIntent
    \/ RebuildSource \/ RebuildFront
    \/ UndoMeta \/ UndoNew \/ UndoIntent \/ UndoRefused

Request ==
    \/ \E s \in Snap : BeginSnapshot(s) \/ BeginRollback(s)
    \/ Resume \/ RecoverPrepare
    \/ Activate \/ Deactivate \/ OpenFront

GuestStep ==
    \/ CloseFront
    \/ \E r \in Region : Discard(r) \/ \E v \in Data : Write(r, v)

Environment ==
    \/ GuestStep
    \/ \E r \in Region : Hydrate(r)
    \/ ForeignIntent \/ Kill \/ HostLoss

Next == WorkerStep \/ Request \/ Environment

Spec == Init /\ [][Next]_vars

\* A started worker is scheduled until it ends, dm-clone hydrates while the
\* worker waits for it, and the scheduled worker or the operator resumes.
FairSpec ==
    /\ Spec
    /\ WF_vars(WorkerStep)
    /\ WF_vars(pc = "hydrate" /\ \E r \in Region : Hydrate(r))
    /\ WF_vars(Resume)

-----------------------------------------------------------------------------
(* Properties                                                              *)

\* The volume's content: of the HEAD, or of the clone while one is committed.
CloneContent ==
    [r \in Region |-> IF r \in meta.hydrated THEN data[anchor.new][r]
                                             ELSE data[anchor.source][r]]
Disk == IF anchor.phase \in Cloned THEN CloneContent ELSE data[anchor.head]

Snapshots ==
    [s \in Snap |-> IF SnapshotLvs(s) = {} THEN Missing
                    ELSE data[CHOOSE g \in SnapshotLvs(s) : TRUE]]

Volume == INSTANCE ThickVolume WITH disk <- Disk, snaps <- Snapshots

\* Whatever is killed and resumed, the volume is a disk with immutable
\* snapshots: no guest write is lost or undone by a transition, a snapshot is
\* the content at the cutover, a rollback restores exactly its snapshot, and
\* no byte that an earlier LV left on the extents is ever part of it.
ImplementsVolume == Volume!Spec

\* The frontend the guest reads always serves the volume's content, in every
\* phase and after every reconstruction.
FrontServesDisk ==
    front.table # "absent" /\ ~front.suspended =>
        Disk = IF front.table = "clone" THEN CloneContent ELSE data[front.gen]

\* A transition that has not been published keeps its VG intent, so no other
\* mutation of the VG starts before it is resumed.
TransitionOwned ==
    anchor.phase \in Transition =>
        \/ intent = "anchor"
        \/ /\ anchor.op = "SNAPSHOT"
           /\ anchor.phase \in {"HYDRATING", "HYDRATION_COMPLETE", "LINEAR_PIVOTED"}

\* Every snapshot is write-protected from the moment its transition leaves
\* COMMITTED, however often that was interrupted: a rollback needs it to be.
SnapshotsSealed ==
    \A g \in Gen : lv[g].role = "snapshot" /\ ~lv[g].ro =>
        anchor.phase = "COMMITTED" /\ g = anchor.source

\* After the commit a lost host does not leave the volume in transition: once
\* nothing else fails, resuming completes it.
HostLossRecovers ==
    (/\ anchor.phase \in Cloned \cup {"LINEAR_PIVOTED"}
     /\ front = Absent /\ ~src /\ crashes = MaxCrash)
        ~> (anchor.phase = "MATERIALIZED")

\* _thick_recover_unpublished_prepare: "unpublished-prepare recovery found an
\* ambiguous generation" unless every generation of a MATERIALIZED volume but
\* the HEAD and the candidate is tagged as a snapshot.
GenerationsAreSnapshots ==
    anchor.phase = "MATERIALIZED" =>
        \A g \in Gen \ {anchor.head, NewGen} : lv[g].role \in {"none", "snapshot"}
=============================================================================
