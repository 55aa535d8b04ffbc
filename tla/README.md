# SharedLvmThin: a TLA+ verification project

SharedLvmThin is a Proxmox VE storage plugin for LVM on shared block storage.
It offers thin pools, one per VM, each loaded by at most one kernel of the
cluster, and *Thick Generations*, fully allocated volumes whose snapshots and
rollbacks are made with dm-clone.  Beside the installed program the repository
develops, in Python, a process supervisor that is to launch one prepared command
at most once, and to account for every process and descriptor it made
(`experiments/thick-generations/prelive_*`).  This directory holds TLA+ models of
the parts that carry that logic, TLC runs, and TLAPS proofs.

`PROJECT.json` lists the components, runs, mutants, source map, findings,
hazards and theorems in machine-readable form.  Paths below are relative to
`src/`; *the plugin* is `usr/share/perl5/PVE/Storage/Custom/SharedLvmThinPlugin.pm`.

## Inventory

| Component | State | Operations | Hard behaviour |
|---|---|---|---|
| Thin pool ownership (plugin, `SharedLvmThinPeerAudit.pm`) | owner and epoch tags on the pool LV; which kernels have the pool loaded | activate, deactivate, HA takeover, fenced-owner recovery, adoption | lock that expires under its holder, partitions, crashes between commands, HA reports that are not fencing, stray mappers |
| ThinGuard (`sharedlvmthin-thin-guardd`, `SharedLvmThinGuard*.pm`, `SharedLvmThinWatchdog.pm`) | registered epochs, watchdog adapter, replay journal | PREPARE, RELEASE, observe, fence, exit | retries and late requests, evidence that is stale when used, one client for all pools, a daemon that dies |
| Thick Generations transitions (plugin, `SharedLvmThinThick.pm`, `sharedlvmthin-thick-materialize`) | signed anchor, generation tags and permissions, clone metadata, VG intent, mappers | snapshot, rollback, resume, recover, activate, deactivate | a kill or a host loss between any two commands; guest I/O meanwhile |
| Thick allocation, release, resize, snapshot and tree deletion | the same objects | alloc, free, recover-alloc, delete, resize | partial failure, intent ownership |
| VG intent and canonical lock | OPEN intent tags of the VG, pmxcfs lock | set, require, scope, clear; wait for a foreign transition | several volumes, one intent; lock lifetime |
| Lazy Thick v6 | data and metadata LVs with a signed owner | activate, hydrate, hand over | as above |
| Thin allocation, resize, snapshots | LVs of the pool | lvcreate, lvextend, lvremove under the lock | rollback by rename |
| Materialized migration bridge, relay, mobility | a mirror job and its receipts | copy, cut over, finalize | two owners of one VM disk |
| Durable VM destroy | a journal of planned deletions | plan, dispatch, recover | crash between journal and effect |
| Mutation admission, preflight, safety evaluators | none (pure decisions) | evaluate | incomplete evidence |
| Autogrow monitor | none | extend under the lock | races with resize |
| Packaging: update policy, profile replacement | policy files, holds | prepare, apply, roll back | interrupted upgrades |
| Health, recovery report, web, CLI | none | read and print | none |

| No-grant launcher (`prelive_real_fd_adapter`, `_allocated_graph_enrollment`, `_v2_intent_file_bridge`, `_abort_fork_split`, `_abort_linux_child`, `_owned_child`, `_capture_settlement`) | eight pipe ends, an INTENT record, one child with its pidfd and captured streams | allocate, enroll, persist, fork, bind, capture, close, monitor, reap, verify | a call that fails after its effect, a child that dies, a foreign writer, a launcher that dies |
| Descriptor release (`_descendant_bridge`, `_allocated_*`, `_exact_resource_release`, the terminal claim of `_abort_fork_split`) | capabilities used once, evidence frozen earlier, a deadline | hand over, match, plan, release in order | evidence that is stale when compared, backends that call back, late closes |
| Descendant domain (`_descendant_accounting`, `_descendant_bridge`) | subreaper flag, adopted records, the step under way | prepare, enroll, attach, drain | orphans of any depth, wait that consumes, a record limit |
| Pre-grant gate (`_pregrant_composition`, `_control_channels`, `prelive-supervisor-fixture`) | controller, control pipes, an unarmed child | persist, spawn, read status, grant once | torn writes of one byte, a supervisor that dies between G and end of file |
| Exact journal (`_fixture_journal_adapter`, `_exact_journal_file_backend`, `_exact_journal_qualification`) | one O_EXCL file per event | append, seal, release, verify | crash between write and fsync, replaced records |
| V2 identity chain (`_launcher_identity_consumer`, `_launcher_identity_model`) | binding, session, identity handle, event chain | bind, append, mint, consume | pid reuse, an append that failed after storing |

Components interact through shared LVM metadata (tags), the canonical lock, the
VG intent, node-local device-mapper state, and the guardian's socket.  Activation
calls the owner claim, which calls the peer audit, then the guardian, then the
commit barrier, then LVM; a Thick snapshot schedules a worker that resumes the
same transition from its anchor.

The supervisor's parts hand capabilities to each other: each operation takes the
one object its predecessor minted, validates that nothing changed since, and mints
the next; whatever fails poisons its object for good.  The launcher process, its
child, and whatever the child started run concurrently and meet in pipes, wait
status and descriptors.

What makes each part correct: a pool in one kernel only and durable tags that
say which (ownership); no loaded pool without a watchdog that resets the host,
and a reset whenever the evidence is lost (ThinGuard); a disk that reads back
what was written and snapshots that never change, across every interruption
(transitions); a child only behind a durable intent, an exec only behind a durable
grant, nothing reported as reaped, drained, closed or verified that is not, and a
child that ends by itself when nobody grants it (supervisor).

## Modules

| Module | Models |
|---|---|
| `ThinOwner` | one thin pool on a cluster: tags, lock, audits, barrier, activation, deactivation, takeover, recovery, adoption |
| `ThinOwnerProofs` | theorems about `ThinOwner` |
| `ThinGuard` | the guardian daemon of one host, its client and the plugin's calls around it |
| `ThinGuardProofs` | theorems about `ThinGuard` |
| `ThickVolume` | what a Thick volume promises: a disk, immutable snapshots, rollback |
| `ThickTransition` | the transition of one Thick volume; refines `ThickVolume` |
| `ThickTransitionProofs` | theorems about `ThickTransition`, the refinement included |
| `NoGrantGraph` | the launcher before the fork: pipes, enrollment, request, INTENT record |
| `AbortChild` | extends it with the forked child, a foreign writer, signals, the clock |
| `OwnedCapture` | extends it with the pidfd and the capture and settlement of the child |
| `AbortAttempt` | extends it with the one attempt on Linux, from fork to verification |
| `AllocatedRelease` | extends it with the descendant branch, up to the resource plan |
| `TerminalRelease` | extends it with the terminal claim; the composed pipeline and its properties |
| `NoGrantAbort` | what the controller promises (the repository's own model); refined by `TerminalRelease` |
| `ExactRelease` | what the release of one descriptor promises; refined by `TerminalRelease` |
| `TerminalReleaseProofs` | theorems about the composed pipeline, the refinement of `ExactRelease` included |
| `ChildDomain` | the descendant domain over a tree of processes |
| `ChildDomainProofs` | theorems about `ChildDomain` |
| `ExactJournal` | the create-only event journal |
| `PreGrant` | extends it with the gate, the control channels and the unarmed child |
| `PreGrantRun` | extends it with the V2 identity chain; a run under either contract |
| `PreGrantProofs` | theorems about `PreGrantRun` |
| `MC*` | TLC instances: symmetry sets |

Operators introduced by "Mutant:" are bugs the runs are shown to catch; no
specification uses them.

### ThinOwner

`tags` are the pool's tags (schema, owner nodes, owner epochs), `mapper` the
nodes whose kernel has the pool loaded, `children` the active volumes, `lock` the
canonical lock's holder.  `pc[n]` and `reg[n]` are the operation node `n` runs and
its local variables; PVE's VM lock gives a node one operation at a time, and the model
assumes the same of the operator's recovery and adoption.  Every operation - activation,
deactivation, takeover, fenced-owner recovery, adoption - is one action per LVM
command, probe or tag read, all of them under the lock, so that anything may happen
between two of them; a peer audit probes one peer per step.  Where a command can
fail, the failing outcome is a disjunct.

`Crash` forgets the kernel and the operation, `Partition` takes a node out of the
quorate component, and `LockExpires` takes the lock from its holder while the
operation goes on: a pmxcfs lock has a lifetime of two minutes, and what bounds the
section is an alarm that the guardian client's `alarm(0)`
(`SharedLvmThinGuardClient.pm` 64-67) cancels and that a stalled host does not run.
`MaxLapsed` bounds how many operations run on without the lock at once.  `HaReport`
lets the HA manager report any node outside the largest partition, whether its
kernel stopped or goes on: what PVE's `unknown` really says.  `StrayActivation`, an
administrator's `lvchange -ay`, `dmeventd`, an older release or the boot of a node
whose legacy pool autoactivates, may fall anywhere, between audit and `lvchange`
too; it is only in `StraySpec`.  (Activation itself refuses a pool that is not
hardened, plugin 7933-7934.)

Two history variables, which no action reads, record what was done without the lock:
`unlocked` the nodes that loaded, claimed, or had their tags cleared by a step whose
operation had lost it, `late` the nodes that loaded the pool after the lock holder
had audited them.  The properties use them to say exactly what the lock is worth:
`SingleKernel` and `OwnerCoversRuntime` hold for all kernels but those whose tags a
recovery cleared without the lock (see Observations), and with a LeaseGuard
mode for all that were loaded under it; `TagsUnambiguous` (proved, not run) counts the claims made under
the lock; `ConflictNeverJoined` excuses only mappers that appeared after the audit.

Abstractions: an epoch is a number minted once; storage identity and capacity checks,
which only refuse, are part of the failing outcomes.

### ThinGuard

`tag`, `loaded`, `qemu`, `quorum` are the host as the evidence helper sees it;
`pc`, `own`, `call` the plugin's operations and guardian calls; `inbox` the accept
queue; `gstate`, `epochs`, `bound`, `wd` the daemon's state; `mux` the host's
client in watchdog-mux: `none`, `fresh`, `stale` or `dropped`, the last two of
which may end in `HostReset`.  `wd` has one value the code has no name for: `SPENT` is
the adapter that still says ARMED after `clean_disarm` wrote `V` and died in the close
that follows (`ReleaseSpent`), while `ReleaseStuck` is the `V` that could not be written.
The history variable `unarmed` holds the pools a spent adapter acknowledged a PREPARE
for; `LoadedIsGuarded`, `EachPoolRegistered` and `LostPoolUnloaded` speak of the others
(see Observations).  The daemon is single-threaded: a request's
evidence is collected in one step (`ServeCollect`) and acted on in a later one,
an observation is a single step.  Real time is left out: a client ages and a
deadline passes at any moment.  `Serial` says that the pools share a VG, whose
lock orders their operations.

### ThickTransition

`anchor` is the signed anchor (phase, operation, HEAD, old, new, source), `intent`
the VG's OPEN intent as this volume sees it (`fresh`: set, not yet in the anchor;
`anchor`: the anchor's transaction; `foreign`: another volume's), `lv` and `data`
the tags and content of the generations, `meta` the clone metadata with its
hydrated regions, `front` and `src` the mappers, `guest` whether QEMU has the
frontend open.  Each worker action is one command of `_thick_volume_snapshot`;
each code branch that starts at a phase is one group of actions, and `Resume`
enters it as `_thick_resume_transition` and the reconstruction allow.  `Kill` ends
the worker between any two commands, a failing command included; `HostLoss` also
forgets the mappers.  The content of a disk is a function from a few regions to
data, zero, or *junk*, what a recycled extent held before; a new LV is junk and
new metadata claims any set of regions hydrated until it is initialised.

Assumptions taken from outside this code: one executor per volume (the executor
lock is per node; an operator resumes elsewhere only after the host is lost), and
PVE's VM lock, which keeps the two reads and the command of one lifecycle call
together.

### The abort pipeline

The six modules from `NoGrantGraph` to `TerminalRelease` are one system, each
adding variables and operations to the one before.  `fds` says which descriptors
each process (launcher, child, a foreign one) really holds and `pipe` what is in
each pipe; `graph`, `enrol`, `record`, `own`, `adp`, `capt`, `settle`, `att`, `dom`,
`rel` and `claim` are the objects of the code, by their state and latches.  A public
method is one action per system call or injected call, with its checks before and
after; a failing call is a disjunct or an action that spends a fault and poisons
what the code's handler poisons.  Where a backend is injected, a call back from it
is an action enabled while the call is under way.  `TerminalRelease!Next` is the
whole: `LauncherDies`, a signal to the child and a foreign process that reopens a
write end may fall anywhere.

`ImplementsController` maps the attempt to the state of
`prelive_no_grant_abort_model`.  A poisoned attempt is mapped to the state it has:
`_poison` makes every failure after the fork an UNKNOWN_SURVIVOR, also after MATCH, so
the abstract `_poison` admits it from COMPLETE.  The mapping differs from the code's
order in one place: the model decides that the exit was the expected one before the
reap, the code afterwards, so a reaped child of another status is already a survivor.
In `NoGrantAbort` the exit and the reap of a survivor and the controller's death are the
world around the controller, which the repository's model takes as inputs.
A failing capture or settlement poisons the adapter only in the step that reaps
(`AdapterAfterFailure`).
`ImplementsRelease` maps the release of the pidfd behind its anchor to
`ExactFDReleaseBinding` of `prelive_exact_resource_release`.

Abstractions: identities (device, inode, pid, start time, digests) are reduced to
"the enrolled one or not"; schema checks of receipts, which only refuse, are part
of the failing outcomes; a data token stands for a write.  A validator of a frozen
receipt (`DrainProvenance`, `StepAuthority`, `StepOutcomes`, `CaptureFrozen`,
`CompletionSettled`, `DeadlineAdmitting`) is often over a hundred lines of field by
field comparison; one predicate stands for it, and says what the comparison
establishes about the modelled state.

### ChildDomain

`proc` and `parent` are the processes as the kernel sees them; `domain`, `pending`
and `records` the `ChildDomain` object; `bridge` and `settlement` the
`DescendantBridge` and the leader's settlement.  `ChildDomain.step` is one action
per call: look for a waitable child without reaping it, pin it by a pidfd, compare,
reap through the pidfd, record.  `Forks`, `Exits` and `ParentWaits` are the
processes; orphans go to the launcher, because it is the subreaper.  In
`AllocatedRelease` the same domain appears by its state only.

### PreGrant and PreGrantRun

`disk` is the journal directory, `backend` and `adapter` the file backend and the
event session, `gate`, `journal` and `channel` the controller, its session and its
grant channel, `ctl` the control channels, `child`, `grant` and `status` the forked
child and the two pipes.  A controller call is split where it calls out: `gate.pc`
is where the call stands, and `CalledOutOfPhase` is a call from inside such a
callback.  The spawn callback forks, binds the pidfd and returns in three steps
(`BindsPidfd`, `_capture_owned_evidence`): it may also raise with a child that is bound
and evidence that never reached the controller.  `binding`, `session`, `handle`,
`chain` and `v2disk` are the V2 objects;
`launcher` is what an observation of the launcher would say, `seen` what was
observed.  `contract` picks V1 or V2, as the constructor does.

The journal of the controller is composed with the real file backend, where the
repository's composition test uses a model of one; the "R" that the launcher
callback waits for is read by the control channels.

## Runs

| Run | Question | Bounds |
|---|---|---|
| `owner_expiry` | Without audits or takeover, do the tags keep the pool in one kernel when a lock expires? | 3 nodes, 2 epochs, 1 operation without its lock |
| `owner_stray` | With takeover, an HA manager that is wrong about nodes, and stray mappers at any moment, does the plugin load a second kernel, or join a mapper it could have seen? | 3 nodes, 2 epochs |
| `owner_progress` | Does every operation end and return the lock? | 2 nodes, 2 volumes, 2 epochs |
| `owner_takeover` | (violation) Does a refused takeover keep its context? | 3 nodes |
| `guard_one` | Is a loaded pool guarded unless a spent adapter acknowledged it, FENCING final, and a host that lost its pool reset? | 1 pool, 2 epochs, 3 calls with 2 attempts, journal of 2 |
| `guard_two` | Does one pool's release, or a spent adapter, end another's protection? | 2 pools, 3 calls, a journal that holds them |
| `guard_pending` | (violation) Is a pending epoch tolerated until its deadline? | 1 pool |
| `thick_interrupted` | Do transitions implement `ThickVolume` through interruptions, with frontend, intent and permissions kept, and does resuming complete a committed one? | 2 regions, 2 snapshots, 4 generations, 2 interruptions |
| `thick_retag` | (violation) Are all old generations of a materialized volume snapshots? | 1 region, 1 interruption |
| `abort_pipeline` | Does the launcher fork only behind its intent, verify only what happened, close exactly, end, and implement both abstract specifications? | deadline 2, cleanup 2, 1 fault, 2 tokens per stream |
| `child_domain` | Is a drained domain empty, are its records exact, does only it reap, does the drain end? | leader and 3 descendants, 2 records, deadline 2, 1 fault |
| `pregrant` | Does the payload run only behind the whole protocol, is no child and no write forgotten, does the child end? | deadline 2, 3 reads a turn, 1 fault, both contracts |

Why the bounds are enough to see the interesting cases: three nodes give an
owner, a claimant and a witness that makes a majority, and a second epoch
separates a claim from its predecessor.  One operation without its lock beside one that
holds it is the race the lock is there to prevent; the proofs cover any number, and
every LeaseGuard mode.  Three guardian calls are a PREPARE, its
RELEASE and the next PREPARE, two attempts make a duplicate, and a journal of two
is full in between.  Four generations hold two snapshots, a rollback among them,
and its destination; two regions let one be hydrated and the other not; two
interruptions let a resumed worker be killed again.
In the supervisor's runs one fault is enough for every failing call and every call
back at every point, because the first one poisons the object for good; the
launcher's death is a fault too.  A deadline of two ticks lets each step fall
before, at and after it; three descendants make a grandchild, a sibling and one
more child than the two records hold.  `Node` and `Pool`
are symmetric where no temporal property is checked.
The Thick runs do not check deadlock: before the commit a lost frontend leaves a
state nothing continues from (see Observations).  The supervisor's runs do not
either: a run that completed, was refused or was poisoned is over.

Fairness: `ThinOwner!FairSpec` schedules a started operation until it ends (it is
a process; its probes and commands have timeouts).  `ThinGuard!FairSpec` lets the
daemon run, and watchdog-mux, a separate process, age its client and reset the
host.  Nothing is assumed of the plugin, QEMU or the network.
`ThickTransition!FairSpec` schedules a started worker, lets dm-clone hydrate while
the worker waits, and lets the scheduled worker or the operator resume; the
property starts when the last modelled interruption is over.
`TerminalRelease!Spec`, `ChildDomain!Spec` and `PreGrantRun!Spec` schedule the
supervisor's one thread (`Launcher`, `Supervisor`: it calls the next method, and a
call it made returns) and the child, and let time pass.  No fault, call back, signal
or exit of a descendant has to happen, and the launcher may die: the liveness
properties then rest on the child's own deadline.

## Findings

1. **A refused HA takeover loses its recovery context** (`owner_takeover`).  The
   claim audits the peers without the fenced node, removes its tags, and then the
   commit barrier (plugin 6684) audits all peers, the fenced one included.  It is
   offline, so activation is refused and the tags that named it are gone.
   `docs/migration.md` 73-75 says a failed audit leaves the context intact.
2. **A pending epoch is not tolerated** (`guard_pending`).  The inventory dies on a
   loaded pool without QEMU (`SharedLvmThinGuardInventory.pm` 114), so an
   observation between `lvchange` and the start of QEMU fences the host.
   `docs/thin-guard-design.md` 134-137 describes a bounded pending phase.
3. **A kill between commit and retag loses the snapshot** (`thick_retag`).  The
   resumed COMMITTED transition never retags the old HEAD (plugin 9074-9092).

### Observations

Not findings of a run, but places where the model follows the code to a state worth
knowing.  After a host loss before the commit `_thick_resume_transition` refuses
(plugin 8297), because it demands the old frontend, although
`docs/thick-volumes-design.md` 152-153 lists `PREPARED` and `SOURCE_READY` as resume
inputs.  A worker killed between the linear pivot and its record, or between
MATERIALIZED and the clearing of the intent, leaves a state only a reboot, or
nothing, continues from (plugin 9315, 9427).  A PREPARE whose answer is lost fences
the host at the next observation.

Two of them are the exceptions the safety properties make; with the exception left out
TLC finds each as a counterexample.

- *A recovery that lost its lock can clear a living owner.*
  `_thin_recover_fenced_owner` (plugin 10102-10138) reads the owner, proves its own
  runtime absent and deletes the tags without another look.  If the lock expires in
  between and the fenced node boots, takes the lock and activates as the owner it still
  is, the deletion takes the tags of a loaded pool, and the next node claims it: two
  kernels, against `docs/data-safety-invariants.md` 68.  It takes a command that stalls
  for longer than the lock's two minutes.
- *A failed close leaves an adapter that arms nothing.*  `clean_disarm` writes `V`, which
  retires the watchdog-mux client, and dies if the close fails, still ARMED
  (`SharedLvmThinWatchdog.pm` 102-105).  The epoch is gone already; the next PREPARE
  finds ARMED (`SharedLvmThinGuardEngine.pm` 91-96), arms nothing and is acknowledged,
  although `docs/thin-guard-design.md` 134-135 requires the armed watchdog first.

## Proofs

`ThinOwnerProofs` proves, for every set of nodes and volumes, every bound on epochs and
on operations without their lock, every LeaseGuard mode, with and without HA takeover,

- `OwnerInvariant`: `Spec => []OwnerInv`;
- `OwnerTypes`, `OwnerSingleKernel`, `OwnerCovers`: the type invariant,
  `SingleKernel` and `OwnerCoversRuntime`;
- `OwnerHeldInvariant`: `StraySpec => []HeldInv`, with the stray activations of an
  administrator;
- `OwnerUnambiguous`: `TagsUnambiguous` of `StraySpec`;
- `OwnerNeverJoins`: the action property `ConflictNeverJoined` of `StraySpec`, where the
  LeaseGuard mode is not `disabled` (without an audit an activation does join).

They rest on `OwnerAssumption` alone: the lock may expire under any operation, and the
properties name what that costs.

`SingleKernel` is not inductive.  `HeldInv` keeps what the lock gives: a dead node runs
nothing; the peers the holder has asked have no mapper, unless they loaded it since
without the lock (`Audited`); a holder about to claim has seen empty tags, to which only
claims without the lock were added (`OneClaim`); the kernels loaded under the lock are
one (`OneAudited`).  It survives mappers that others load, which is why it holds of
`StraySpec`.  `OwnerInv` adds `CoverParts`, what the tags give without takeover: a node
that has loaded the pool, or is about to, is on the tags unless a recovery without the
lock took it off (`TagCover`), there is one such node (`OneCommitted`: a second claim
makes the tags ambiguous, and every reader dies on ambiguous tags), and a node a
recovery still holding the lock is about to clear neither runs an operation nor has the
pool (`Fenced`).

`ChildDomainProofs` proves, for every finite set of descendants, every deadline,
record limit and number of faults,

- `DomainInvariant`: `Spec => []DomainInv`;
- `DomainTypes`, `DomainDrained`, `DomainRecords`: the type invariant with the record
  limit, `DrainedIsTrue` and `RecordsExact`;
- `DomainOnlyPinned`: the action property `OnlyPinnedReaped`.

`DrainedIsTrue` is not inductive: ECHILD speaks of the launcher's own children, the
property of all descendants.  `DomainInv` adds that the launcher is the subreaper
from before its fork; that a process's parent is the launcher or a running process
(`Orphans`); and that no set of living processes is closed under parenthood
(`Rooted`: every nonempty set of them has a member whose parent is outside), which
says that the tree has no cycle without counting or recursion.  A launcher without
children then has no living descendant at all (`NoChildNobody`), and nobody is left
to fork.  The rest of the invariant is what each point of the step under way knows
of the process it found.  The assumptions are those of `DomainAssumption`.

`ThickTransitionProofs` proves, for every set of regions, data values and snapshots and
every number of generations, killed workers and host losses,

- `ThickInvariant`: `Spec => []ThickInv`;
- `ThickTypes`, `ThickOwned`, `ThickSealed`, `ThickServes`: the type invariant,
  `TransitionOwned`, `SnapshotsSealed` and `FrontServesDisk`;
- `ThickImplements`: the refinement `ImplementsVolume`, step by step: the initial state
  maps to an initial state of `ThickVolume`, and each action to a write, a snapshot, a
  rollback or a stutter.

The disk is where the anchor's phase says it is, so `ThickInv` relates the phase to all
that a resumed worker trusts without looking: the step it can be at (`Placed`), the
generations that exist and as what (`Generations`), its own request (`Requested`), the
tables the frontend can have (`Fronts`), and that what the clone metadata calls hydrated
is, and the rest of the destination is zero (`Hydration`).

`ThinGuardProofs` proves, for every set of pools and every number of epochs, calls and
attempts, with and without the VG lock (`Serial`) and a failing helper,

- `GuardInvariant`: `Spec => []GuardInv`;
- `GuardTypes`, `GuardLoaded`, `GuardEachPool`: the type invariant, `LoadedIsGuarded` and
  `EachPoolRegistered`;
- `GuardFinal`: the action property `FencingIsFinal`.

`LoadedIsGuarded` is not inductive: the client must be there before the pool is loaded.
`GuardInv` adds what a plugin past its PREPARE was promised unless a spent adapter
promised it (`Promises`), which requests
may still lie in the accept queue of a daemon their sender gave up on (`Requests`), and
that owner epochs are fresh (`Owners`), so that a late RELEASE never names the epoch a
pool is loaded with.

`PreGrantProofs` proves, for both contracts, every deadline, number of faults and size of
a read turn,

- `RunInvariant`: `Spec => []RunInv`;
- `RunTypes`, `RunExecIssued`, `RunCompleted`, `RunRemembersChild`, `RunRemembersWrite`,
  `RunAuthorityBound`: the type invariant, `ExecWasIssued`, `CompletedIsTrue`,
  `ChildNeverForgotten`, `WriteNeverForgotten` and `AuthorityIsBound`.

`RunInv` ties four records of the same run together: the synced events are a prefix of
the order and a session never runs ahead of them (`JournalExact`, `SessionFollows`); the
controller's step and state agree, and from the fork on it knows of the child
(`GateKnows`); the grant pipe is written only by the one attempt, behind three
acknowledged events (`GrantOnce`); the bytes read so far are no more than this child can
have written (`StatusShort`); and the V2 chain and identity follow the same order
(`ChainExact`, `IdentityBound`, `ChainBegun`, `OneContract`).

`TerminalReleaseProofs` proves, for every deadline, cleanup budget and capture limit and
every number of failing calls,

- `PipelineInvariant`: `Spec => []PipelineInv`;
- `TypeCorrect`, `ForkBehindIntent`, `SurvivorsAreClassified`, `EveryEndpointAccounted`,
  `VerifiedAbortHappened`, `PlanBoundForAbort`, `ClaimReleasesHonestly`: the type
  invariant, `IntentBeforeFork`, `SurvivorClassified`, `EndpointsAccounted`,
  `VerifiedIsTrue`, `PlanIsTrue` and `ReleaseIsHonest`;
- `ReapedOnlyObserved`: the action property `ObservedBeforeReaped`;
- `PidfdReleaseExact`: the refinement `ImplementsRelease` of `ExactRelease`.

None of them is inductive.  `PipelineInv` says how far enrollment, bridge and backend have
come together and that a sealed record is never touched (`IntentDurable`); that the fork
latch and the attempt's state agree (`ForkLatched`); who holds which descriptor, the
foreign process only write ends (`Accounted`); that an end of file that was read is one,
since nobody can come to hold a writer of an ended pipe (`Ends`); that an observed exit is
the child's (`Observed`); which phases a capture or a settlement runs in
(`CapturePhases`); that the descendant branch and the attempt's own way to the claim
exclude each other (`Branches`); that a bound plan's graph stays the one it was bound for
(`PlanHeld`); and that every release of the claim was entered behind confirmed ones, the
one under way has no outcome, and a disturbed slot stays poisoned (`ClaimOrder`).

The assumptions are those named in the modules (`OwnerAssumption`, `ThickAssumption`,
`GuardAssumption`, `JournalAssumption`, `ReadsAssumption`, `BoundsAssumption`,
`LimitAssumption`, `DomainAssumption`); TLC evaluates each of them on the runs.

Only model-checked: all liveness (`HostLossRecovers`, `LostPoolUnloaded`,
`OperationsEnd`, `RunEnds`, `DrainEnds`), because the prover has neither fairness nor
ENABLED; and the refinement `ImplementsController`, which needs more than `PipelineInv`
says: which of its two states a poisoned attempt is in, and that an observed child of a
living launcher is still a zombie.

## Plan

1. Done: `ThinOwner` with its proofs, `ThinGuard`, `ThickVolume`,
   `ThickTransition`, the abort pipeline with `NoGrantAbort` and `ExactRelease`,
   `ChildDomain` with its proofs, `ExactJournal`, `PreGrant`, `PreGrantRun`, and the
   proofs of `ThinGuard`, `ThickTransition`, the pipeline and the pre-grant run.
2. `VgIntent`: several volumes and storages of one VG, the canonical lock, the
   intent's set, require, scope and clear, foreign-transition admission, bridge
   admission.  Properties: one OPEN intent, no mutation under a foreign one, no
   two waiters for ever.
3. `ThickAlloc`: allocation with its recovery, release, snapshot deletion, tree
   deletion, resize; composed with `ThickTransition` through the intent.
4. `LazyThick`: v6 activation ownership and hydration.
5. `MigrateBridge`: the online migration bridge and its relay evaluators.
6. `VmDestroy`: plan, journal, dispatcher, recovery, as a journalled abstract
   deletion it refines.
7. Operators: `evaluate_*` of `SharedLvmThinGuard.pm`, `SharedLvmAdmission.pm`,
   `classify_recovery`, against reference definitions over bounded inputs.
8. `ThinCluster`: `ThinOwner` with one `ThinGuard` per node.
9. Proofs: `ImplementsController` from `PipelineInv` and the facts named above; the
   invariants of the modules of 2 to 8 as they are written.

## Not modelled

Read-only reporting, the web interface and CLI dispatch have no state.  LVM,
device-mapper, dm-clone, pmxcfs, PVE HA, QEMU and watchdog-mux are environment,
modelled by what the code relies on.  Timing (deadlines, poll intervals) is
nondeterminism.  Sizes and geometry are left out: `clone_geometry` is arithmetic
with its own tests.  Packaging is outside the data path.

Of the supervisor: the mock half of `prelive_abort_fork_split` (fakes of the same
steps), the fixture's own journal and its capture after the grant, the enumerating
`prelive_supervisor_model`, the gate on the supervisor's own pidfd, and the executor
labs, which drive the installed program.  The journal directory is replaced only
before the record is sealed: afterwards its descriptor, not its name, is used.
Nested dictionaries, digests and schemas of receipts are checked by the code and
left out: what a mismatch leads to, a refusal, is in every failing outcome.
