------------------------------ MODULE ThinOwner ------------------------------
(***************************************************************************)
(* Exclusive ownership of one dm-thin pool by the nodes of a cluster.      *)
(*                                                                         *)
(* A dm-thin pool is a single-kernel metadata domain: two kernels that     *)
(* load it destroy it.  SharedLvmThinPlugin.pm therefore records an owner  *)
(* node and a fresh epoch as LVM tags of the pool, claims them before      *)
(* lvchange -ay, releases them after the mapper is gone, and in the        *)
(* LeaseGuard modes asks every configured peer over SSH whether its kernel *)
(* has the mapper.  This module models the complete activate and           *)
(* deactivate paths at the granularity of their external commands, the     *)
(* PVE HA takeover, the two operator recoveries, the cluster lock (which   *)
(* may expire under its holder), partitions, crashes and reboots.          *)
(*                                                                         *)
(* PVE serialises the operations of one VM on one node, so a node has at   *)
(* most one operation on the pool in flight.                               *)
(*                                                                         *)
(* unlocked and late are history variables: no action reads them, they     *)
(* only record which steps were taken without the lock, so that the        *)
(* properties can say what the lock is worth.                              *)
(***************************************************************************)
EXTENDS Naturals, FiniteSets

CONSTANTS
    Node,           \* cluster nodes in the storage's node scope
    Vol,            \* thin volumes of the pool
    None,           \* no node
    LeaseMode,      \* slt-thin-leaseguard
    HaTakeover,     \* slt-thin-ha-takeover = pve-ha
    MaxLapsed,      \* bound on the operations that run on without the lock
    MaxEpoch        \* bound on the number of owner epochs minted

ASSUME OwnerAssumption ==
    /\ None \notin Node
    /\ Vol # {}
    /\ LeaseMode \in {"disabled", "remote-audit", "runtime-guard"}
    /\ HaTakeover \in BOOLEAN
    /\ MaxLapsed \in Nat
    /\ MaxEpoch \in Nat

VARIABLES
    tags,       \* pool tags: schema flag, owner-node tags, owner-epoch tags
    alive,      \* nodes whose kernel runs
    conn,       \* nodes of the largest cluster partition
    mapper,     \* nodes whose kernel has the pool mapper loaded
    children,   \* children[n]: thin volumes active in n's kernel
    lock,       \* holder of the canonical VG lock
    pc,         \* pc[n]: where n's operation is
    reg,        \* reg[n]: the operation's local variables
    haDown,     \* nodes the HA manager reports as unknown or fence
    haNode,     \* node the HA manager assigned the VM to
    nextEpoch,  \* next unused epoch
    unlocked,   \* nodes that loaded, claimed, or had their tags cleared by a
                \* step whose operation did not hold the lock
    late        \* nodes that loaded the pool after the lock holder audited them

clusterVars == <<alive, conn>>
haVars == <<haDown, haNode>>
runtimeVars == <<mapper, children>>
historyVars == <<unlocked, late>>
vars == <<tags, alive, conn, mapper, children, lock, pc, reg, haDown, haNode,
          nextEpoch, unlocked, late>>

Epoch == 1..MaxEpoch

AuditSteps == {"haAudit", "newAudit", "selfAudit", "barrierAudit"}
ActivateSteps == AuditSteps \cup
    {"read", "haClear", "haRead", "claimTag", "claimRead", "prepare", "ownCheck",
     "lvchange"}
DeactivateSteps ==
    {"dRead", "dChild", "dPool", "dOwner", "dClear", "dVerify", "dGuard"}
RecoverSteps == {"rRead", "rRuntime", "rClear"}
AdoptSteps == {"aRead", "aRuntime", "aHarden", "aTag"}
Step == {"idle", "verify"} \cup ActivateSteps \cup DeactivateSteps
            \cup RecoverSteps \cup AdoptSteps

\* The local variables of an operation: its volume, the owner epoch it read or
\* minted, the fenced predecessor it clears, the peers audited, and whether the
\* guardian protects this node's epoch.
NoReg == [vol |-> CHOOSE v \in Vol : TRUE, epoch |-> 0, fenced |-> None,
          seen |-> {}, guard |-> FALSE]
Reg == [vol : Vol, epoch : 0..MaxEpoch, fenced : Node \cup {None},
        seen : SUBSET Node, guard : BOOLEAN]

TypeOK ==
    /\ tags \in [schema : BOOLEAN, nodes : SUBSET Node, epochs : SUBSET Epoch]
    /\ alive \subseteq Node
    /\ conn \subseteq alive
    /\ mapper \subseteq alive
    /\ children \in [Node -> SUBSET Vol]
    /\ lock \in Node \cup {None}
    /\ pc \in [Node -> Step]
    /\ reg \in [Node -> Reg]
    /\ haDown \subseteq Node
    /\ haNode \in Node
    /\ nextEpoch \in 1..(MaxEpoch + 1)
    /\ unlocked \in [loads : SUBSET Node, claims : SUBSET Node, clears : SUBSET Node]
    /\ late \subseteq Node

\* A pool made by the current plugin has the schema and is unowned; a legacy
\* pool has no schema and may be loaded on one node.
Init ==
    /\ tags \in [schema : BOOLEAN, nodes : {{}}, epochs : {{}}]
    /\ alive = Node
    /\ conn = Node
    /\ \/ mapper = {}
       \/ ~tags.schema /\ \E n \in Node : mapper = {n}
    /\ children = [n \in Node |-> IF n \in mapper THEN Vol ELSE {}]
    /\ lock = None
    /\ pc = [n \in Node |-> "idle"]
    /\ reg = [n \in Node |-> NoReg]
    /\ haDown = {}
    /\ haNode \in Node
    /\ nextEpoch = 1
    /\ unlocked = [loads |-> {}, claims |-> {}, clears |-> {}]
    /\ late = {}

-----------------------------------------------------------------------------
(* Evidence                                                                *)

\* _verify_mutation_quorum: the node sits in a partition with a majority.
Quorate(n) == n \in conn /\ 2 * Cardinality(conn) > Cardinality(Node)

\* Mutant: two owner tags are not an error, the local one counts.
OwnedAmongOthers(n, e) == tags.schema /\ n \in tags.nodes /\ e \in tags.epochs

\* _thin_owner_state_from_tags: one owner node with one epoch, neither, or the
\* tags are ambiguous and every reader dies.
OwnedBy(n, e) == tags.schema /\ tags.nodes = {n} /\ tags.epochs = {e}
Unowned == tags.nodes = {} /\ tags.epochs = {}
Ambiguous == ~Unowned /\ ~ \E n \in Node, e \in Epoch : OwnedBy(n, e)

\* _thin_configured_peer_nodes: the storage's nodes but this one, and but the
\* fenced owner while a takeover is audited.
Peers(n) == Node \ ({n} \cup
                    (IF pc[n] = "haAudit" THEN {reg[n].fenced} ELSE {}))

\* select_peer_nodes and the remote probe: p is positively online as seen from
\* n, and its kernel has no mapper with the pool's UUID.
PeerAbsent(n, p) == {n, p} \subseteq conn /\ p \notin mapper

\* _thin_pve_ha_takeover_evidence: the service is assigned to this online node
\* and the manager calls the former owner unknown or fence.
HaEvidence(n, o) == haNode = n /\ n \notin haDown /\ o \in haDown

\* The takeover branch of _thin_claim_pool_owner_locked is configured.
TakeoverEnabled == HaTakeover /\ LeaseMode # "disabled"

-----------------------------------------------------------------------------
(* Control                                                                 *)

Goto(n, step) == pc' = [pc EXCEPT ![n] = step]

\* The operation returns or dies: the lock it still holds is released.
Finish(n) ==
    /\ Goto(n, "idle")
    /\ reg' = [reg EXCEPT ![n] = NoReg]
    /\ lock' = IF lock = n THEN None ELSE lock

\* _with_mutation_lock: quorum, then the canonical lock, then the operation r.
\* The history forgets what is over: mappers and tags that are gone.
Begin(n, r, step) ==
    /\ pc[n] = "idle"
    /\ lock = None
    /\ Quorate(n)
    /\ lock' = n
    /\ Goto(n, step)
    /\ reg' = [reg EXCEPT ![n] = r]
    /\ unlocked' = [loads |-> unlocked.loads \cap mapper,
                    claims |-> unlocked.claims \cap tags.nodes,
                    clears |-> {m \in unlocked.clears : m \in mapper \/ pc[m] # "idle"}]
    /\ late' = {}
    /\ UNCHANGED <<tags, clusterVars, runtimeVars, haVars, nextEpoch>>

\* The pool is loaded by a step that holds the lock, or by one that does not.
Loads(n, held) ==
    /\ mapper' = mapper \cup {n}
    /\ unlocked' = IF n \in mapper THEN unlocked
                   ELSE [unlocked EXCEPT !.loads = IF held THEN @ \ {n} ELSE @ \cup {n}]
    /\ late' = IF n \notin mapper /\ \E m \in Node : lock = m /\ n \in reg[m].seen
               THEN late \cup {n} ELSE late

\* lvchange --deltag of o's node tag and the epoch tag read beside it; a tag
\* that is no longer there is no error.
ClearOwner(n, o) ==
    /\ tags' = [tags EXCEPT !.nodes = @ \ {o}, !.epochs = @ \ {reg[n].epoch}]
    /\ unlocked' = [unlocked EXCEPT !.clears =
                        IF o \in tags.nodes /\ lock # n THEN @ \cup {o} ELSE @]

\* After the owner is settled: PREPARE the guardian for a pool that is not
\* loaded yet, or go straight to the commit barrier.
AfterClaim(n) ==
    IF LeaseMode = "runtime-guard" /\ n \notin mapper
    THEN "prepare" ELSE "barrierAudit"

-----------------------------------------------------------------------------
(* activate_volume                                                         *)

Activate(n, v) == Begin(n, [NoReg EXCEPT !.vol = v], "read")

\* Mutant: the owner's name is kept where its epoch belongs.
ReadSelfName(n) ==
    /\ pc[n] = "read"
    /\ \E e \in Epoch : OwnedBy(n, e)
    /\ reg' = [reg EXCEPT ![n].epoch = n]
    /\ Goto(n, "selfAudit")
    /\ UNCHANGED <<tags, clusterVars, runtimeVars, lock, haVars, nextEpoch, historyVars>>

\* The pool is already owned by this node: audit the peers again.
ReadSelf(n) ==
    /\ pc[n] = "read"
    /\ \E e \in Epoch :
        /\ OwnedBy(n, e)
        /\ reg' = [reg EXCEPT ![n].epoch = e]
    /\ Goto(n, "selfAudit")
    /\ UNCHANGED <<tags, clusterVars, runtimeVars, lock, haVars, nextEpoch, historyVars>>

\* The pool is unowned and not loaded here.
ReadFree(n) ==
    /\ pc[n] = "read"
    /\ tags.schema /\ Unowned
    /\ n \notin mapper
    /\ Goto(n, "newAudit")
    /\ UNCHANGED <<tags, clusterVars, runtimeVars, lock, reg, haVars, nextEpoch, historyVars>>

\* The pool is owned by another node that PVE HA declares fenced.
ReadFenced(n) ==
    /\ pc[n] = "read"
    /\ TakeoverEnabled
    /\ \E o \in Node \ {n}, e \in Epoch :
        /\ OwnedBy(o, e)
        /\ HaEvidence(n, o)
        /\ reg' = [reg EXCEPT ![n].fenced = o, ![n].epoch = e]
    /\ Goto(n, "haAudit")
    /\ UNCHANGED <<tags, clusterVars, runtimeVars, lock, haVars, nextEpoch, historyVars>>

\* No schema, ambiguous tags, a foreign owner that may not be taken over, or an
\* unowned pool already loaded here: activation is refused.
ReadRefused(n) ==
    /\ pc[n] = "read"
    /\ ~ \E e \in Epoch : OwnedBy(n, e)
    /\ ~(tags.schema /\ Unowned /\ n \notin mapper)
    /\ ~(TakeoverEnabled /\
         \E o \in Node \ {n}, e \in Epoch : OwnedBy(o, e) /\ HaEvidence(n, o))
    /\ Finish(n)
    /\ UNCHANGED <<tags, clusterVars, runtimeVars, haVars, nextEpoch, historyVars>>

\* _thin_remote_mapper_audit_locked probes the peers one after the other.
AuditPeer(n, p) ==
    /\ pc[n] \in AuditSteps
    /\ LeaseMode # "disabled"
    /\ p \in Peers(n) \ reg[n].seen
    /\ PeerAbsent(n, p)
    /\ reg' = [reg EXCEPT ![n].seen = @ \cup {p}]
    /\ UNCHANGED <<tags, clusterVars, runtimeVars, lock, pc, haVars, nextEpoch, historyVars>>

\* Mutant: a peer that is not online is skipped instead of refusing.
AuditRefusedLoaded(n) ==
    /\ pc[n] \in AuditSteps
    /\ LeaseMode # "disabled"
    /\ \/ Peers(n) = {}
       \/ \E p \in Peers(n) \ reg[n].seen : p \in mapper
    /\ Finish(n)
    /\ UNCHANGED <<tags, clusterVars, runtimeVars, haVars, nextEpoch, historyVars>>

\* An offline peer, a loaded mapper, or an empty peer set refuses activation.
AuditRefused(n) ==
    /\ pc[n] \in AuditSteps
    /\ LeaseMode # "disabled"
    /\ \/ Peers(n) = {}
       \/ \E p \in Peers(n) \ reg[n].seen : ~PeerAbsent(n, p)
    /\ Finish(n)
    /\ UNCHANGED <<tags, clusterVars, runtimeVars, haVars, nextEpoch, historyVars>>

\* Mutant: the first peer that reports ABSENT settles the audit.
AuditFirstPeer(n) == LeaseMode = "disabled" \/ reg[n].seen # {}

\* Every peer reported ABSENT, or the mode is disabled and nothing was asked.
AuditComplete(n) ==
    LeaseMode = "disabled" \/ (Peers(n) # {} /\ Peers(n) \subseteq reg[n].seen)

AuditPassed(n) ==
    /\ pc[n] \in AuditSteps
    /\ AuditComplete(n)
    /\ Goto(n, CASE pc[n] = "haAudit" -> "haClear"
                 [] pc[n] = "newAudit" -> "claimTag"
                 [] pc[n] = "selfAudit" -> AfterClaim(n)
                 [] pc[n] = "barrierAudit" -> "ownCheck")
    /\ reg' = [reg EXCEPT ![n].seen =
                  IF pc[n] = "barrierAudit" THEN @ ELSE {}]
    /\ UNCHANGED <<tags, clusterVars, runtimeVars, lock, haVars, nextEpoch, historyVars>>

\* The fenced owner's exact tags are removed; or the command fails.
HaClear(n) ==
    /\ pc[n] = "haClear"
    /\ \/ Finish(n) /\ UNCHANGED <<tags, unlocked>>
       \/ /\ ClearOwner(n, reg[n].fenced)
          /\ Goto(n, "haRead")
          /\ UNCHANGED <<reg, lock>>
    /\ UNCHANGED <<clusterVars, runtimeVars, haVars, nextEpoch, late>>

\* The removal is read back, and the local runtime must be absent.
HaRead(n) ==
    /\ pc[n] = "haRead"
    /\ IF tags.schema /\ Unowned /\ n \notin mapper
       THEN Goto(n, "claimTag") /\ UNCHANGED <<reg, lock>>
       ELSE Finish(n)
    /\ UNCHANGED <<tags, clusterVars, runtimeVars, haVars, nextEpoch, historyVars>>

\* A fresh epoch is written.
ClaimTag(n) ==
    /\ pc[n] = "claimTag"
    /\ nextEpoch <= MaxEpoch
    /\ nextEpoch' = nextEpoch + 1
    /\ tags' = [tags EXCEPT !.nodes = @ \cup {n}, !.epochs = @ \cup {nextEpoch}]
    /\ unlocked' = [unlocked EXCEPT
                        !.claims = IF lock = n THEN @ \ {n} ELSE @ \cup {n},
                        !.clears = @ \ {n}]
    /\ reg' = [reg EXCEPT ![n].epoch = nextEpoch]
    /\ Goto(n, "claimRead")
    /\ UNCHANGED <<clusterVars, runtimeVars, lock, haVars, late>>

\* The tag command itself fails.
ClaimFailed(n) ==
    /\ pc[n] = "claimTag"
    /\ Finish(n)
    /\ UNCHANGED <<tags, clusterVars, runtimeVars, haVars, nextEpoch, historyVars>>

\* The claim is read back; it stays on the tags when it is not the only one.
ClaimRead(n) ==
    /\ pc[n] = "claimRead"
    /\ IF OwnedBy(n, reg[n].epoch)
       THEN Goto(n, AfterClaim(n)) /\ UNCHANGED <<reg, lock>>
       ELSE Finish(n)
    /\ UNCHANGED <<tags, clusterVars, runtimeVars, haVars, nextEpoch, historyVars>>

GuardPrepared(n) ==
    /\ pc[n] = "prepare"
    /\ Goto(n, "barrierAudit")
    /\ UNCHANGED <<tags, clusterVars, runtimeVars, lock, reg, haVars, nextEpoch, historyVars>>

\* The guardian refuses or does not answer: the claim is rolled back through
\* the release below, and the operation dies whatever that does.
GuardRefused(n) ==
    /\ pc[n] = "prepare"
    /\ Goto(n, "dOwner")
    /\ UNCHANGED <<tags, clusterVars, runtimeVars, lock, reg, haVars, nextEpoch, historyVars>>

\* The commit barrier's second half: the owner and epoch admitted above must
\* still be the pool's only owner.
OwnCheck(n) ==
    /\ pc[n] = "ownCheck"
    /\ IF OwnedBy(n, reg[n].epoch)
       THEN Goto(n, "lvchange") /\ UNCHANGED <<reg, lock>>
       ELSE Finish(n)
    /\ UNCHANGED <<tags, clusterVars, runtimeVars, haVars, nextEpoch, historyVars>>

\* lvchange -ay loads the pool and the volume; it may fail before the pool, or
\* after it.  The owner is preserved in every case.
LvChange(n) ==
    /\ pc[n] = "lvchange"
    /\ \/ UNCHANGED <<runtimeVars, historyVars>>
       \/ Loads(n, lock = n) /\ UNCHANGED children
       \/ /\ Loads(n, lock = n)
          /\ children' = [children EXCEPT ![n] = @ \cup {reg[n].vol}]
    /\ Finish(n)
    /\ UNCHANGED <<tags, clusterVars, haVars, nextEpoch>>

-----------------------------------------------------------------------------
(* deactivate_volume                                                       *)

Deactivate(n, v) == Begin(n, [NoReg EXCEPT !.vol = v], "dRead")

\* Under runtime-guard the owner is read first, so that a local epoch can be
\* RELEASEd from the guardian at the end; ambiguous tags stop the teardown.
ReadGuardOwner(n) ==
    /\ pc[n] = "dRead"
    /\ IF LeaseMode = "runtime-guard" /\ Ambiguous
       THEN Finish(n)
       ELSE /\ Goto(n, "dChild")
            /\ reg' = [reg EXCEPT ![n].guard =
                          /\ LeaseMode = "runtime-guard"
                          /\ \E e \in Epoch : OwnedBy(n, e)]
            /\ UNCHANGED lock
    /\ UNCHANGED <<tags, clusterVars, runtimeVars, haVars, nextEpoch, historyVars>>

\* lvchange -an of the volume; another active child ends the operation here.
DeactivateChild(n) ==
    /\ pc[n] = "dChild"
    /\ \/ UNCHANGED children /\ Finish(n)
       \/ /\ children' = [children EXCEPT ![n] = @ \ {reg[n].vol}]
          /\ IF children'[n] # {}
             THEN Finish(n)
             ELSE Goto(n, "dPool") /\ UNCHANGED <<reg, lock>>
    /\ UNCHANGED <<tags, clusterVars, mapper, haVars, nextEpoch, historyVars>>

\* Mutant: a hidden mapper that stays behind does not stop the release.
DeactivatePoolUnchecked(n) ==
    /\ pc[n] = "dPool"
    /\ mapper' \in {mapper, mapper \ {n}}
    /\ Goto(n, "dOwner")
    /\ UNCHANGED <<reg, lock, tags, clusterVars, children, haVars, nextEpoch, historyVars>>

\* lvchange -an of the idle pool; a mapper that stays fails the postcondition.
DeactivatePool(n) ==
    /\ pc[n] = "dPool"
    /\ \/ n \in mapper /\ UNCHANGED mapper /\ Finish(n)
       \/ /\ mapper' = mapper \ {n}
          /\ Goto(n, "dOwner")
          /\ UNCHANGED <<reg, lock>>
    /\ UNCHANGED <<tags, clusterVars, children, haVars, nextEpoch, historyVars>>

\* After the release: RELEASE to the guardian, or the operation is over.
AfterRelease(n) ==
    IF reg[n].guard
    THEN Goto(n, "dGuard") /\ UNCHANGED <<reg, lock>>
    ELSE Finish(n)

\* _thin_release_pool_owner_locked: this node's claim is released; a foreign
\* owner's tags are not touched; ambiguous tags or a failed read end the
\* operation before the guardian hears of it.
ReleaseOwner(n) ==
    /\ pc[n] = "dOwner"
    /\ \/ Finish(n)
       \/ /\ \E e \in Epoch :
               OwnedBy(n, e) /\ reg' = [reg EXCEPT ![n].epoch = e]
          /\ Goto(n, "dClear")
          /\ UNCHANGED lock
       \/ /\ ~Ambiguous /\ ~ \E e \in Epoch : OwnedBy(n, e)
          /\ AfterRelease(n)
    /\ UNCHANGED <<tags, clusterVars, runtimeVars, haVars, nextEpoch, historyVars>>

ReleaseClear(n) ==
    /\ pc[n] = "dClear"
    /\ \/ Finish(n) /\ UNCHANGED <<tags, unlocked>>
       \/ /\ ClearOwner(n, n)
          /\ Goto(n, "dVerify")
          /\ UNCHANGED <<reg, lock>>
    /\ UNCHANGED <<clusterVars, runtimeVars, haVars, nextEpoch, late>>

ReleaseVerify(n) ==
    /\ pc[n] = "dVerify"
    /\ IF Unowned THEN AfterRelease(n) ELSE Finish(n)
    /\ UNCHANGED <<tags, clusterVars, runtimeVars, haVars, nextEpoch, historyVars>>

\* RELEASE to the guardian, whatever it answers (see ThinGuard).
ReleaseGuard(n) ==
    /\ pc[n] = "dGuard"
    /\ Finish(n)
    /\ UNCHANGED <<tags, clusterVars, runtimeVars, haVars, nextEpoch, historyVars>>

-----------------------------------------------------------------------------
(* Operator recoveries                                                     *)

\* _thin_recover_fenced_owner.  That f is fenced is the operator's assertion:
\* f's kernel does not run when the command is given.
RecoverFencedOwner(n, f) ==
    /\ f # n
    /\ f \notin alive
    /\ Begin(n, [NoReg EXCEPT !.fenced = f], "rRead")

\* The tags must name f; its epoch is kept.
RecoverRead(n) ==
    /\ pc[n] = "rRead"
    /\ \/ /\ \E e \in Epoch : /\ OwnedBy(reg[n].fenced, e)
                             /\ reg' = [reg EXCEPT ![n].epoch = e]
          /\ Goto(n, "rRuntime")
          /\ UNCHANGED lock
       \/ /\ ~ \E e \in Epoch : OwnedBy(reg[n].fenced, e)
          /\ Finish(n)
    /\ UNCHANGED <<tags, clusterVars, runtimeVars, haVars, nextEpoch, historyVars>>

RecoverClear(n) ==
    /\ pc[n] = "rClear"
    /\ \/ Finish(n) /\ UNCHANGED <<tags, unlocked>>
       \/ /\ ClearOwner(n, reg[n].fenced)
          /\ Goto(n, "verify")
          /\ UNCHANGED <<reg, lock>>
    /\ UNCHANGED <<clusterVars, runtimeVars, haVars, nextEpoch, late>>

\* _thin_adopt_owner_model.  ALL-NODES-INACTIVE is the operator's assertion.
AdoptOwnerModel(n) == mapper = {} /\ Begin(n, NoReg, "aRead")

\* Owner tags on the pool refuse the adoption.
AdoptRead(n) ==
    /\ pc[n] = "aRead"
    /\ IF Unowned
       THEN Goto(n, "aRuntime") /\ UNCHANGED <<reg, lock>>
       ELSE Finish(n)
    /\ UNCHANGED <<tags, clusterVars, runtimeVars, haVars, nextEpoch, historyVars>>

\* Both recoveries prove that this node itself has nothing of the pool loaded.
LocalRuntimeAbsent(n) ==
    /\ pc[n] \in {"rRuntime", "aRuntime"}
    /\ IF n \notin mapper
       THEN /\ Goto(n, IF pc[n] = "rRuntime" THEN "rClear" ELSE "aHarden")
            /\ UNCHANGED <<reg, lock>>
       ELSE Finish(n)
    /\ UNCHANGED <<tags, clusterVars, runtimeVars, haVars, nextEpoch, historyVars>>

\* Autoactivation is disabled on the pool and every member, in that order; a
\* failure leaves some of them disabled and the schema unpublished.
AdoptHarden(n) ==
    /\ pc[n] = "aHarden"
    /\ \/ Finish(n)
       \/ Goto(n, "aTag") /\ UNCHANGED <<reg, lock>>
    /\ UNCHANGED <<tags, clusterVars, runtimeVars, haVars, nextEpoch, historyVars>>

AdoptTag(n) ==
    /\ pc[n] = "aTag"
    /\ \/ Finish(n) /\ UNCHANGED tags
       \/ /\ tags' = [tags EXCEPT !.schema = TRUE]
          /\ Goto(n, "verify")
          /\ UNCHANGED <<reg, lock>>
    /\ UNCHANGED <<clusterVars, runtimeVars, haVars, nextEpoch, historyVars>>

\* The postcondition of a recovery: it reports success or failure.
Verify(n) ==
    /\ pc[n] = "verify"
    /\ Finish(n)
    /\ UNCHANGED <<tags, clusterVars, runtimeVars, haVars, nextEpoch, historyVars>>

-----------------------------------------------------------------------------
(* Environment: the cluster, the HA manager and the lock (external)        *)

\* A kernel stops: its mappings and its plugin process are gone, and pmxcfs
\* hands its lock on.
Crash(n) ==
    /\ n \in alive
    /\ alive' = alive \ {n}
    /\ conn' = conn \ {n}
    /\ mapper' = mapper \ {n}
    /\ children' = [children EXCEPT ![n] = {}]
    /\ Finish(n)
    /\ UNCHANGED <<tags, haVars, nextEpoch, historyVars>>

\* Autoactivation is disabled on pool and volumes: a boot loads nothing.
Reboot(n) ==
    /\ n \notin alive
    /\ alive' = alive \cup {n}
    /\ UNCHANGED <<tags, conn, runtimeVars, lock, pc, reg, haVars, nextEpoch, historyVars>>

Partition(n) ==
    /\ n \in conn
    /\ conn' = conn \ {n}
    /\ UNCHANGED <<tags, alive, runtimeVars, lock, pc, reg, haVars, nextEpoch, historyVars>>

Heal(n) ==
    /\ n \in alive \ conn
    /\ conn' = conn \cup {n}
    /\ UNCHANGED <<tags, alive, runtimeVars, lock, pc, reg, haVars, nextEpoch, historyVars>>

\* The lock's lifetime ends while its holder is slow or cut off; the holder
\* does not notice.
LockExpires(n) ==
    /\ lock = n
    /\ Cardinality({m \in Node : pc[m] # "idle" /\ lock # m}) < MaxLapsed
    /\ lock' = None
    /\ UNCHANGED <<tags, clusterVars, runtimeVars, pc, reg, haVars, nextEpoch, historyVars>>

\* The HA manager reports an absent node unknown, and a returned one online;
\* its report may lag, and unknown does not mean that the kernel has stopped.
HaReport(n) ==
    /\ HaTakeover
    /\ \/ n \notin conn \cup haDown /\ haDown' = haDown \cup {n}
       \/ n \in conn \cap haDown /\ haDown' = haDown \ {n}
    /\ UNCHANGED <<tags, clusterVars, runtimeVars, lock, pc, reg, haNode, nextEpoch, historyVars>>

HaAssign(n) ==
    /\ HaTakeover
    /\ n \in conn \ {haNode}
    /\ haNode' = n
    /\ UNCHANGED <<tags, clusterVars, runtimeVars, lock, pc, reg, haDown, nextEpoch, historyVars>>

-----------------------------------------------------------------------------

ActivateStep(n) ==
    \/ ReadSelf(n) \/ ReadFree(n) \/ ReadFenced(n) \/ ReadRefused(n)
    \/ \E p \in Node : AuditPeer(n, p)
    \/ AuditRefused(n) \/ AuditPassed(n)
    \/ HaClear(n) \/ HaRead(n)
    \/ ClaimTag(n) \/ ClaimRead(n) \/ ClaimFailed(n)
    \/ GuardPrepared(n) \/ GuardRefused(n)
    \/ OwnCheck(n) \/ LvChange(n)

DeactivateStep(n) ==
    \/ ReadGuardOwner(n) \/ DeactivateChild(n) \/ DeactivatePool(n)
    \/ ReleaseOwner(n) \/ ReleaseClear(n) \/ ReleaseVerify(n) \/ ReleaseGuard(n)

RecoveryStep(n) ==
    \/ RecoverRead(n) \/ RecoverClear(n)
    \/ AdoptRead(n) \/ AdoptHarden(n) \/ AdoptTag(n)
    \/ LocalRuntimeAbsent(n) \/ Verify(n)

PluginStep(n) == ActivateStep(n) \/ DeactivateStep(n) \/ RecoveryStep(n)

Request(n) ==
    \/ \E v \in Vol : Activate(n, v) \/ Deactivate(n, v)
    \/ \E f \in Node : RecoverFencedOwner(n, f)
    \/ AdoptOwnerModel(n)

Environment(n) ==
    \/ Crash(n) \/ Reboot(n) \/ Partition(n) \/ Heal(n)
    \/ LockExpires(n) \/ HaReport(n) \/ HaAssign(n)

Next == \E n \in Node : PluginStep(n) \/ Request(n) \/ Environment(n)

Spec == Init /\ [][Next]_vars

\* Something other than the plugin loads the pool at any time: a manual
\* lvchange, a stale dmeventd, an older release, the boot of a node whose pool
\* is not hardened yet.
StrayActivation(n) ==
    /\ n \in alive
    /\ Loads(n, FALSE)
    /\ UNCHANGED <<tags, clusterVars, children, lock, pc, reg, haVars, nextEpoch>>

StrayNext == Next \/ \E n \in Node : StrayActivation(n)

StraySpec == Init /\ [][StrayNext]_vars

\* A started operation is a running process: it is scheduled until it ends.
FairSpec == Spec /\ \A n \in Node : WF_vars(PluginStep(n))

-----------------------------------------------------------------------------
(* Properties                                                              *)

\* docs/data-safety-invariants.md, DS-17: "A managed read-write Thin pool must
\* never be active in more than one kernel."  As far as the code goes: without
\* HA takeover the tags exclude a second kernel even when the lock expires, and
\* two kernels need a fenced-owner recovery that had lost the lock when it
\* cleared the tags of one of them.  With a LeaseGuard mode the audits exclude
\* it, with HA takeover too, among those that held the lock when they loaded
\* the pool.
SingleKernel ==
    /\ ~TakeoverEnabled => \A m, n \in mapper \ unlocked.clears : m = n
    /\ LeaseMode # "disabled" => \A m, n \in mapper \ unlocked.loads : m = n

\* Without HA takeover, a node that has loaded an adopted pool is named by the
\* pool's durable tags until its mapper is gone, unless a recovery that had lost
\* the lock cleared them: the tags are what a second node's claim, the
\* fenced-owner recovery and the operator rely on.
OwnerCoversRuntime ==
    ~TakeoverEnabled /\ tags.schema => mapper \ unlocked.clears \subseteq tags.nodes

\* Two claims never hide each other: of the owners on the tags, at most one
\* held the lock when it claimed.
TagsUnambiguous == Cardinality(tags.nodes \ unlocked.claims) <= 1

\* With a LeaseGuard mode on, a node that holds the lock never loads the pool
\* next to a mapper in another kernel, whoever loaded it and whatever the tags
\* say, unless that kernel loaded it after the commit barrier's audit asked.
ConflictNeverJoined ==
    [][\A n \in Node :
        pc[n] = "lvchange" /\ lock = n /\ n \in mapper' \ mapper =>
            mapper \subseteq late]_vars

\* docs/migration.md on HA takeover: "A failed or interrupted audit therefore
\* leaves the durable recovery context intact and the operation safely
\* retryable."  An audit that refuses a takeover leaves the fenced owner's tags.
TakeoverKeepsContext ==
    [][\A n \in Node :
        AuditRefused(n) /\ reg[n].fenced # None =>
            reg[n].fenced \in tags'.nodes /\ reg[n].epoch \in tags'.epochs]_vars

\* Every started operation ends, whatever fails on its way, and its node does
\* not keep the lock.
OperationsEnd == \A n \in Node : (pc[n] # "idle") ~> (pc[n] = "idle" /\ lock # n)

=============================================================================
