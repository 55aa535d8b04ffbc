--------------------------- MODULE ThinOwnerProofs ---------------------------
(***************************************************************************)
(* Proofs about ThinOwner: for every set of nodes and volumes, every       *)
(* LeaseGuard mode, with and without HA takeover, any number of epochs and *)
(* of operations that run on without the lock.                             *)
(*                                                                         *)
(* SingleKernel is not inductive.  Two different facts carry it.           *)
(*                                                                         *)
(* Without HA takeover the tags do (CoverParts): a node that has loaded the  *)
(* pool, or is one command away from it, is among the owners (TagCover),   *)
(* so the commit barrier of a second node, which wants to be the only      *)
(* owner, fails, with or without the lock.  Only a recovery can remove the *)
(* tags of such a node, and only after it lost the lock: while it holds    *)
(* it, the fenced node may boot but not begin an operation (Fenced).       *)
(*                                                                         *)
(* With a LeaseGuard mode the audits do (HeldInv): what the lock holder    *)
(* has seen absent is still absent, but for kernels that loaded the pool   *)
(* without the lock (Audited).  HeldInv survives even mappers that others  *)
(* than the plugin load.                                                   *)
(***************************************************************************)
EXTENDS ThinOwner, FiniteSetTheorems, TLAPS

DeadIdle == \A n \in Node : n \notin alive => pc[n] = "idle"

\* The nodes the lock holder has asked so far have no mapper, unless they loaded
\* the pool since, without the lock; before lvchange it has asked all of them.
Audited ==
    \A n \in Node :
        /\ n \notin reg[n].seen
        /\ pc[n] = "idle" => reg[n].seen = {}
        /\ lock = n => reg[n].seen \cap mapper \subseteq late \cap unlocked.loads
        /\ lock = n /\ pc[n] \in {"ownCheck", "lvchange"} /\ LeaseMode # "disabled" =>
              Node \ {n} \subseteq reg[n].seen

\* The lock holder about to claim the pool has seen its tags empty, and since
\* then only claims without the lock were added.
OneClaim ==
    /\ \A m, n \in tags.nodes \ unlocked.claims : m = n
    /\ \A n \in Node :
        lock = n /\ pc[n] \in {"newAudit", "claimTag"} => tags.nodes \subseteq unlocked.claims

OneAudited == LeaseMode # "disabled" => \A m, n \in mapper \ unlocked.loads : m = n

HeldParts == DeadIdle /\ Audited /\ OneClaim /\ OneAudited
HeldInv == TypeOK /\ HeldParts

\* The pool is loaded, or the next command loads it.
Committed(n) == n \in mapper \/ pc[n] = "lvchange"

AbsentSteps == {"newAudit", "claimTag", "prepare", "dOwner", "dClear"}
NotLoaded == \A n \in Node : pc[n] \in AbsentSteps => n \notin mapper
SchemaFirst ==
    \A n \in Node : pc[n] \in (ActivateSteps \ {"read"}) => tags.schema
Adopting == \A n \in Node : pc[n] \in AdoptSteps /\ ~tags.schema => mapper = {}
NoTakeover ==
    \A n \in Node : pc[n] \in {"haAudit", "haClear", "haRead"} => TakeoverEnabled
Fenced ==
    \A n \in Node :
        lock = n /\ pc[n] \in RecoverSteps =>
            /\ reg[n].fenced \in Node \ (mapper \cup {n})
            /\ pc[reg[n].fenced] = "idle"
ClearsGone == unlocked.clears \cap tags.nodes = {}
TagCover ==
    ~TakeoverEnabled /\ tags.schema =>
        \A n \in Node : Committed(n) /\ n \notin unlocked.clears => n \in tags.nodes
OneCommitted ==
    ~TakeoverEnabled =>
        \A m, n \in Node :
            (Committed(m) /\ m \notin unlocked.clears
                /\ Committed(n) /\ n \notin unlocked.clears) => m = n

CoverParts ==
    /\ NotLoaded /\ SchemaFirst /\ Adopting /\ NoTakeover /\ Fenced
    /\ ClearsGone /\ TagCover /\ OneCommitted

OwnerInv == HeldInv /\ CoverParts

-----------------------------------------------------------------------------
(* Types                                                                   *)

LEMMA RegTypes ==
    /\ NoReg \in Reg /\ NoReg.seen = {}
    /\ \A v \in Vol : /\ [NoReg EXCEPT !.vol = v] \in Reg
                      /\ [NoReg EXCEPT !.vol = v].seen = {}
    /\ \A f \in Node : /\ [NoReg EXCEPT !.fenced = f] \in Reg
                       /\ [NoReg EXCEPT !.fenced = f].seen = {}
                       /\ [NoReg EXCEPT !.fenced = f].fenced = f
<1>1. (CHOOSE v \in Vol : TRUE) \in Vol
  BY OwnerAssumption
<1>2. NoReg \in Reg /\ NoReg.seen = {}
  BY <1>1, OwnerAssumption DEF NoReg, Reg
<1> QED BY <1>2 DEF Reg, NoReg

LEMMA StepTypes ==
    /\ Step = {"idle", "verify", "haAudit", "newAudit", "selfAudit", "barrierAudit",
               "read", "haClear", "haRead", "claimTag", "claimRead", "prepare",
               "ownCheck", "lvchange", "dRead", "dChild", "dPool", "dOwner", "dClear",
               "dVerify", "dGuard", "rRead", "rRuntime", "rClear", "aRead", "aRuntime",
               "aHarden", "aTag"}
    /\ AuditSteps = {"haAudit", "newAudit", "selfAudit", "barrierAudit"}
    /\ ActivateSteps \ {"read"} =
            {"haAudit", "newAudit", "selfAudit", "barrierAudit", "haClear", "haRead",
             "claimTag", "claimRead", "prepare", "ownCheck", "lvchange"}
    /\ RecoverSteps = {"rRead", "rRuntime", "rClear"}
    /\ AdoptSteps = {"aRead", "aRuntime", "aHarden", "aTag"}
BY DEF Step, ActivateSteps, DeactivateSteps, AuditSteps, RecoverSteps, AdoptSteps

LEMMA FinishTypes ==
    ASSUME TypeOK, NEW n \in Node, Finish(n)
    PROVE  /\ lock' \in Node \cup {None}
           /\ pc' \in [Node -> Step]
           /\ reg' \in [Node -> Reg]
           /\ pc'[n] = "idle"
           /\ reg'[n].seen = {}
           /\ lock' \in {lock, None} /\ lock' # n
           /\ \A m \in Node : m # n => reg'[m] = reg[m] /\ pc'[m] = pc[m]
BY RegTypes, StepTypes, OwnerAssumption DEF TypeOK, Finish, Goto

LEMMA GotoTypes ==
    ASSUME TypeOK, NEW n \in Node, NEW step \in Step, Goto(n, step)
    PROVE  /\ pc' \in [Node -> Step]
           /\ pc'[n] = step
           /\ \A m \in Node : m # n => pc'[m] = pc[m]
BY DEF TypeOK, Goto

LEMMA BeginTypes ==
    ASSUME TypeOK, NEW n \in Node, NEW r \in Reg, NEW step \in Step, Begin(n, r, step)
    PROVE  /\ TypeOK'
           /\ lock = None /\ lock' = n /\ n \in alive /\ late' = {}
           /\ pc[n] = "idle" /\ pc'[n] = step /\ reg'[n] = r
           /\ \A m \in Node : m # n => reg'[m] = reg[m] /\ pc'[m] = pc[m]
           /\ UNCHANGED <<tags, alive, mapper>>
           /\ unlocked'.loads = unlocked.loads \cap mapper
           /\ unlocked'.claims = unlocked.claims \cap tags.nodes
           /\ unlocked'.clears = {m \in unlocked.clears : m \in mapper \/ pc[m] # "idle"}
<1>1. unlocked' \in [loads : SUBSET Node, claims : SUBSET Node, clears : SUBSET Node]
  BY DEF TypeOK, Begin
<1>2. pc' \in [Node -> Step] /\ pc'[n] = step /\ \A m \in Node : m # n => pc'[m] = pc[m]
  BY DEF TypeOK, Begin, Goto
<1>3. reg' \in [Node -> Reg] /\ reg'[n] = r /\ \A m \in Node : m # n => reg'[m] = reg[m]
  BY DEF TypeOK, Begin
<1>4. UNCHANGED <<tags, alive, conn, mapper, children, haDown, haNode, nextEpoch>>
  BY DEF Begin, clusterVars, runtimeVars, haVars
<1>5. TypeOK'
  BY <1>1, <1>2, <1>3, <1>4 DEF TypeOK, Begin
<1> QED BY <1>2, <1>3, <1>4, <1>5 DEF Begin, Quorate, TypeOK

LEMMA LoadTypes ==
    ASSUME TypeOK, NEW n \in Node, Loads(n, lock = n) \/ Loads(n, FALSE)
    PROVE  /\ unlocked' \in [loads : SUBSET Node, claims : SUBSET Node, clears : SUBSET Node]
           /\ late' \subseteq Node
           /\ mapper' = mapper \cup {n}
           /\ unlocked'.claims = unlocked.claims /\ unlocked'.clears = unlocked.clears
           /\ n \in mapper => unlocked'.loads = unlocked.loads
           /\ n \notin mapper =>
                \/ unlocked'.loads = unlocked.loads \cup {n}
                \/ unlocked'.loads = unlocked.loads \ {n} /\ lock = n
           /\ late \subseteq late'
           /\ n \notin mapper => \A m \in Node : lock = m /\ n \in reg[m].seen => n \in late'
<1>1. CASE Loads(n, lock = n)
  BY <1>1 DEF TypeOK, Loads
<1>2. CASE Loads(n, FALSE)
  BY <1>2 DEF TypeOK, Loads
<1> QED BY <1>1, <1>2

LEMMA ClearTypes ==
    ASSUME TypeOK, NEW n \in Node, NEW o, ClearOwner(n, o)
    PROVE  /\ tags' \in [schema : BOOLEAN, nodes : SUBSET Node, epochs : SUBSET Epoch]
           /\ unlocked' \in [loads : SUBSET Node, claims : SUBSET Node, clears : SUBSET Node]
           /\ tags'.schema = tags.schema /\ tags'.nodes = tags.nodes \ {o}
           /\ unlocked'.loads = unlocked.loads /\ unlocked'.claims = unlocked.claims
           /\ unlocked'.clears = IF o \in tags.nodes /\ lock # n
                                 THEN unlocked.clears \cup {o} ELSE unlocked.clears
BY DEF TypeOK, ClearOwner

\* Every step of a plugin operation keeps every variable in its type.
LEMMA TypePlugin ==
    ASSUME TypeOK, DeadIdle, NEW n \in Node, PluginStep(n)
    PROVE  TypeOK'
<1> USE StepTypes DEF clusterVars, runtimeVars, haVars, historyVars
<1>1. CASE ReadSelf(n)
  BY <1>1 DEF TypeOK, ReadSelf, Goto, Reg, Epoch
<1>2. CASE ReadFree(n) \/ GuardPrepared(n) \/ GuardRefused(n)
  BY <1>2 DEF TypeOK, ReadFree, GuardPrepared, GuardRefused, Goto
<1>3. CASE ReadFenced(n)
  <2>1. PICK o \in Node \ {n}, e \in Epoch :
          reg' = [reg EXCEPT ![n].fenced = o, ![n].epoch = e]
    BY <1>3 DEF ReadFenced
  <2>2. e \in 0..MaxEpoch /\ o \in Node \cup {None}
    BY OwnerAssumption DEF Epoch
  <2>3. [reg[n] EXCEPT !.fenced = o, !.epoch = e] \in Reg
    <3>1. \A r \in Reg : [r EXCEPT !.fenced = o] \in Reg
      BY <2>2 DEF Reg
    <3>2. \A r \in Reg : [r EXCEPT !.epoch = e] \in Reg
      BY <2>2 DEF Reg
    <3>3. [[reg[n] EXCEPT !.fenced = o] EXCEPT !.epoch = e] \in Reg
      BY <3>1, <3>2, Zenon DEF TypeOK
    <3> QED BY <3>3
  <2>4. reg' = [reg EXCEPT ![n] = [reg[n] EXCEPT !.fenced = o, !.epoch = e]]
    BY <2>1, Zenon DEF TypeOK
  <2>5. reg' \in [Node -> Reg]
    BY <2>3, <2>4 DEF TypeOK
  <2> QED BY <1>3, <2>5 DEF TypeOK, ReadFenced, Goto
<1>4. CASE ReadRefused(n) \/ AuditRefused(n) \/ ClaimFailed(n) \/ ReleaseGuard(n) \/ Verify(n)
  BY <1>4, FinishTypes
     DEF TypeOK, ReadRefused, AuditRefused, ClaimFailed, ReleaseGuard, Verify
<1>5. ASSUME NEW p \in Node, AuditPeer(n, p) PROVE TypeOK'
  BY <1>5 DEF TypeOK, AuditPeer, Reg
<1>6. CASE AuditPassed(n)
  BY <1>6 DEF TypeOK, AuditPassed, Goto, Reg, AfterClaim
<1>7. CASE HaClear(n) \/ RecoverClear(n) \/ ReleaseClear(n)
  <2>1. UNCHANGED <<alive, conn, mapper, children, haDown, haNode, nextEpoch, late>>
    BY <1>7 DEF HaClear, RecoverClear, ReleaseClear
  <2>2. CASE Finish(n) /\ UNCHANGED <<tags, unlocked>>
    BY <2>1, <2>2, FinishTypes DEF TypeOK
  <2>3. CASE /\ \E o : ClearOwner(n, o)
             /\ \E step \in Step : Goto(n, step)
             /\ UNCHANGED <<reg, lock>>
    BY <2>1, <2>3, ClearTypes, GotoTypes DEF TypeOK
  <2> QED BY <1>7, <2>2, <2>3 DEF HaClear, RecoverClear, ReleaseClear
<1>8. CASE ClaimTag(n)
  <2>1. nextEpoch \in Epoch /\ nextEpoch' \in 1..(MaxEpoch + 1)
    BY <1>8, OwnerAssumption DEF TypeOK, ClaimTag, Epoch
  <2>2. tags' \in [schema : BOOLEAN, nodes : SUBSET Node, epochs : SUBSET Epoch]
    BY <1>8, <2>1 DEF TypeOK, ClaimTag
  <2>3. unlocked' \in [loads : SUBSET Node, claims : SUBSET Node, clears : SUBSET Node]
    BY <1>8 DEF TypeOK, ClaimTag
  <2>4. /\ lock' \in Node \cup {None}
        /\ pc' \in [Node -> Step]
        /\ reg' \in [Node -> Reg]
    BY <1>8, <2>1 DEF TypeOK, ClaimTag, Goto, Reg, Epoch
  <2> QED BY <1>8, <2>1, <2>2, <2>3, <2>4 DEF TypeOK, ClaimTag
<1>9. CASE HaRead(n) \/ OwnCheck(n) \/ ClaimRead(n)
  BY <1>9, FinishTypes DEF TypeOK, HaRead, OwnCheck, ClaimRead, Goto, AfterClaim
<1>10. CASE LvChange(n)
  <2>1. n \in alive
    BY <1>10 DEF DeadIdle, LvChange
  <2>2. /\ mapper' \subseteq alive /\ late' \subseteq Node
        /\ unlocked' \in [loads : SUBSET Node, claims : SUBSET Node, clears : SUBSET Node]
    <3>1. CASE UNCHANGED <<mapper, unlocked, late>>
      BY <3>1, <2>1 DEF TypeOK
    <3>2. CASE Loads(n, lock = n)
      BY <3>2, <2>1, LoadTypes DEF TypeOK
    <3> QED BY <1>10, <3>1, <3>2 DEF LvChange
  <2>3. children' \in [Node -> SUBSET Vol]
    BY <1>10 DEF TypeOK, LvChange, Reg
  <2> QED BY <1>10, <2>2, <2>3, FinishTypes DEF TypeOK, LvChange
<1>11. CASE ReadGuardOwner(n)
  <2>1. reg' \in [Node -> Reg] /\ pc' \in [Node -> Step] /\ lock' \in Node \cup {None}
    <3>1. CASE Finish(n)
      BY <3>1, FinishTypes
    <3>2. CASE ~Finish(n)
      <4> DEFINE g == LeaseMode = "runtime-guard" /\ \E e \in Epoch : OwnedBy(n, e)
      <4>1. /\ Goto(n, "dChild") /\ UNCHANGED lock
            /\ reg' = [reg EXCEPT ![n] = [reg[n] EXCEPT !.guard = g]]
        BY <1>11, <3>2, Zenon DEF ReadGuardOwner
      <4>2. \A r \in Reg, h \in BOOLEAN : [r EXCEPT !.guard = h] \in Reg
        BY DEF Reg
      <4>3. g \in BOOLEAN
        OBVIOUS
      <4>4. [reg[n] EXCEPT !.guard = g] \in Reg
        BY <4>2, <4>3, Zenon DEF TypeOK
      <4> HIDE DEF g
      <4> QED BY <4>1, <4>4, GotoTypes DEF TypeOK
    <3> QED BY <3>1, <3>2
  <2> QED BY <1>11, <2>1 DEF TypeOK, ReadGuardOwner
<1>12. CASE DeactivateChild(n)
  BY <1>12, FinishTypes DEF TypeOK, DeactivateChild, Goto
<1>13. CASE DeactivatePool(n)
  BY <1>13, FinishTypes DEF TypeOK, DeactivatePool, Goto
<1>14. CASE ReleaseOwner(n)
  <2>1. reg' \in [Node -> Reg] /\ pc' \in [Node -> Step] /\ lock' \in Node \cup {None}
    <3>1. CASE Finish(n)
      BY <3>1, FinishTypes
    <3>2. CASE ~Finish(n)
      BY <1>14, <3>2 DEF ReleaseOwner, AfterRelease, TypeOK, Goto, Reg, Epoch
    <3> QED BY <3>1, <3>2
  <2> QED BY <1>14, <2>1 DEF TypeOK, ReleaseOwner
<1>15. CASE ReleaseVerify(n)
  BY <1>15, FinishTypes DEF TypeOK, ReleaseVerify, AfterRelease, Goto
<1>16. CASE RecoverRead(n)
  <2>1. reg' \in [Node -> Reg] /\ pc' \in [Node -> Step] /\ lock' \in Node \cup {None}
    <3>1. CASE Finish(n)
      BY <3>1, FinishTypes
    <3>2. CASE ~Finish(n)
      BY <1>16, <3>2 DEF RecoverRead, TypeOK, Goto, Reg, Epoch
    <3> QED BY <3>1, <3>2
  <2> QED BY <1>16, <2>1 DEF TypeOK, RecoverRead
<1>17. CASE AdoptRead(n) \/ AdoptHarden(n) \/ LocalRuntimeAbsent(n)
  BY <1>17, FinishTypes DEF TypeOK, AdoptRead, AdoptHarden, LocalRuntimeAbsent, Goto
<1>18. CASE AdoptTag(n)
  BY <1>18, FinishTypes DEF TypeOK, AdoptTag, Goto
<1> QED
  BY <1>1, <1>2, <1>3, <1>4, <1>5, <1>6, <1>7, <1>8, <1>9, <1>10, <1>11, <1>12,
     <1>13, <1>14, <1>15, <1>16, <1>17, <1>18
     DEF PluginStep, ActivateStep, DeactivateStep, RecoveryStep

LEMMA RequestTypes ==
    ASSUME TypeOK, NEW n \in Node, Request(n)
    PROVE  \E r \in Reg, step \in {"read", "dRead", "rRead", "aRead"} :
              /\ Begin(n, r, step)
              /\ r.seen = {}
              /\ step = "rRead" => r.fenced \in Node \ (alive \cup {n})
              /\ step = "aRead" => mapper = {}
<1>1. ASSUME NEW v \in Vol, Activate(n, v) \/ Deactivate(n, v)
      PROVE  \E step \in {"read", "dRead"} : Begin(n, [NoReg EXCEPT !.vol = v], step)
  BY <1>1 DEF Activate, Deactivate
<1>2. ASSUME NEW f \in Node, RecoverFencedOwner(n, f)
      PROVE  Begin(n, [NoReg EXCEPT !.fenced = f], "rRead") /\ f \notin alive \cup {n}
  BY <1>2 DEF RecoverFencedOwner
<1>3. AdoptOwnerModel(n) => Begin(n, NoReg, "aRead") /\ mapper = {}
  BY DEF AdoptOwnerModel
<1>4. ASSUME NEW v \in Vol, Activate(n, v) \/ Deactivate(n, v)
      PROVE  \E r \in Reg, step \in {"read", "dRead"} : Begin(n, r, step) /\ r.seen = {}
  <2> DEFINE r == [NoReg EXCEPT !.vol = v]
  <2>1. r \in Reg /\ r.seen = {} /\ \E step \in {"read", "dRead"} : Begin(n, r, step)
    BY <1>1, <1>4, RegTypes, Zenon
  <2> HIDE DEF r
  <2> QED BY <2>1
<1>5. ASSUME NEW f \in Node, RecoverFencedOwner(n, f)
      PROVE  \E r \in Reg : /\ Begin(n, r, "rRead") /\ r.seen = {}
                             /\ r.fenced \in Node \ (alive \cup {n})
  <2> DEFINE r == [NoReg EXCEPT !.fenced = f]
  <2>1. /\ r \in Reg /\ r.seen = {} /\ r.fenced = f
        /\ Begin(n, r, "rRead") /\ f \notin alive \cup {n}
    BY <1>2, <1>5, RegTypes, Zenon
  <2> HIDE DEF r
  <2> QED BY <2>1
<1>6. CASE AdoptOwnerModel(n)
  BY <1>3, <1>6, RegTypes
<1> QED BY <1>4, <1>5, <1>6 DEF Request

LEMMA TypeEnvironment ==
    ASSUME TypeOK, NEW n \in Node, Environment(n)
    PROVE  TypeOK'
<1> USE DEF clusterVars, runtimeVars, haVars, historyVars
<1>1. CASE Crash(n)
  BY <1>1, FinishTypes DEF TypeOK, Crash
<1>2. CASE Reboot(n) \/ Partition(n) \/ Heal(n) \/ LockExpires(n)
  BY <1>2 DEF TypeOK, Reboot, Partition, Heal, LockExpires
<1>3. CASE HaReport(n) \/ HaAssign(n)
  BY <1>3 DEF TypeOK, HaReport, HaAssign
<1> QED BY <1>1, <1>2, <1>3 DEF Environment

-----------------------------------------------------------------------------
(* What the lock protects, whoever else loads the pool                     *)

LEMMA HeldInit == Init => HeldInv
<1> SUFFICES ASSUME Init PROVE HeldInv
  OBVIOUS
<1>1. TypeOK
  BY RegTypes, StepTypes, OwnerAssumption DEF Init, TypeOK
<1>2. HeldParts
  BY RegTypes, OwnerAssumption
     DEF Init, HeldParts, DeadIdle, Audited, OneClaim, OneAudited
<1> QED BY <1>1, <1>2 DEF HeldInv

\* The operation on n goes on or ends; it loads nothing and claims nothing.
LEMMA GoesOnHeld ==
    ASSUME HeldInv, NEW n \in Node, n \in alive' \/ pc'[n] = "idle",
           alive \ {n} \subseteq alive', mapper' \subseteq mapper,
           lock' \in {lock, None}, late' = late,
           unlocked'.loads = unlocked.loads, unlocked'.claims = unlocked.claims,
           tags'.nodes \subseteq tags.nodes,
           \A m \in Node : m # n => reg'[m] = reg[m] /\ pc'[m] = pc[m],
           n \notin reg'[n].seen,
           pc'[n] = "idle" => reg'[n].seen = {},
           lock' = n => reg'[n].seen \cap mapper \subseteq late \cap unlocked.loads,
           lock' = n /\ pc'[n] \in {"ownCheck", "lvchange"} /\ LeaseMode # "disabled" =>
              Node \ {n} \subseteq reg'[n].seen,
           lock' = n /\ pc'[n] \in {"newAudit", "claimTag"} =>
              tags'.nodes \subseteq unlocked.claims
    PROVE  HeldParts'
<1>1. \A m \in Node : lock' = m => lock = m
  BY OwnerAssumption
<1>2. DeadIdle'
  BY DEF HeldInv, HeldParts, DeadIdle
<1>3. Audited'
  BY <1>1 DEF HeldInv, HeldParts, Audited
<1>4. OneClaim'
  BY <1>1 DEF HeldInv, HeldParts, OneClaim
<1>5. OneAudited'
  BY DEF HeldInv, HeldParts, OneAudited
<1> QED BY <1>2, <1>3, <1>4, <1>5 DEF HeldParts

LEMMA FinishHeld ==
    ASSUME HeldInv, NEW n \in Node, Finish(n), alive \ {n} \subseteq alive',
           mapper' \subseteq mapper, late' = late,
           unlocked'.loads = unlocked.loads, unlocked'.claims = unlocked.claims,
           tags'.nodes \subseteq tags.nodes
    PROVE  HeldParts'
<1>1. /\ pc'[n] = "idle" /\ reg'[n].seen = {} /\ lock' \in {lock, None}
      /\ \A m \in Node : m # n => reg'[m] = reg[m] /\ pc'[m] = pc[m]
  BY FinishTypes DEF HeldInv
<1> QED BY <1>1, GoesOnHeld

\* A step that only moves n, to a step whose entry promises nothing.
LEMMA MoveHeld ==
    ASSUME HeldInv, NEW n \in Node, NEW step \in Step, Goto(n, step), pc[n] # "idle",
           step \notin {"idle", "ownCheck", "lvchange", "newAudit", "claimTag"},
           alive' = alive, mapper' \subseteq mapper, lock' = lock, late' = late,
           unlocked'.loads = unlocked.loads, unlocked'.claims = unlocked.claims,
           tags'.nodes \subseteq tags.nodes,
           \A m \in Node : m # n => reg'[m] = reg[m], reg'[n].seen = reg[n].seen
    PROVE  HeldParts'
<1>1. pc'[n] = step /\ \A m \in Node : m # n => pc'[m] = pc[m]
  BY GotoTypes DEF HeldInv
<1>2. /\ n \notin reg[n].seen /\ n \in alive
      /\ lock = n => reg[n].seen \cap mapper \subseteq late \cap unlocked.loads
  BY DEF HeldInv, HeldParts, Audited, DeadIdle
<1> QED BY <1>1, <1>2, GoesOnHeld

\* n loads the pool, in an operation or not.
LEMMA LoadsHeld ==
    ASSUME HeldInv, NEW n \in Node, Loads(n, lock = n) \/ Loads(n, FALSE),
           UNCHANGED <<tags, alive>>, lock' \in {lock, None},
           \A m \in Node : m # n => reg'[m] = reg[m] /\ pc'[m] = pc[m],
           \/ Finish(n)
           \/ UNCHANGED <<pc, reg, lock>>,
           pc[n] = "lvchange" \/ Loads(n, FALSE)
    PROVE  HeldParts'
<1>1. /\ mapper' = mapper \cup {n} /\ late \subseteq late'
      /\ unlocked'.claims = unlocked.claims
      /\ n \in mapper => unlocked'.loads = unlocked.loads
      /\ n \notin mapper =>
            \/ unlocked'.loads = unlocked.loads \cup {n}
            \/ unlocked'.loads = unlocked.loads \ {n} /\ lock = n
      /\ n \notin mapper => \A m \in Node : lock = m /\ n \in reg[m].seen => n \in late'
  BY LoadTypes DEF HeldInv
<1>2. /\ \A m \in Node : lock' = m => lock = m
      /\ \/ pc'[n] = "idle" /\ reg'[n].seen = {} /\ lock' # n
         \/ UNCHANGED <<pc, reg, lock>>
  BY FinishTypes, OwnerAssumption DEF HeldInv
<1>3. DeadIdle'
  BY <1>2 DEF HeldInv, HeldParts, DeadIdle
<1>4. OneClaim'
  BY <1>1, <1>2 DEF HeldInv, HeldParts, OneClaim
<1>5. Audited'
  <2>1. ASSUME NEW m \in Node, lock' = m
        PROVE  reg'[m].seen \cap mapper' \subseteq late' \cap unlocked'.loads
    <3>1. CASE m = n
      BY <1>1, <1>2, <2>1, <3>1 DEF HeldInv, HeldParts, Audited
    <3>2. CASE m # n
      BY <1>1, <1>2, <2>1, <3>2 DEF HeldInv, HeldParts, Audited
    <3> QED BY <3>1, <3>2
  <2> QED BY <1>2, <2>1 DEF HeldInv, HeldParts, Audited
<1>6. OneAudited'
  <2>1. CASE unlocked'.loads = unlocked.loads /\ n \in mapper
    BY <1>1, <2>1 DEF HeldInv, HeldParts, OneAudited
  <2>2. CASE unlocked'.loads = unlocked.loads \cup {n}
    BY <1>1, <2>2 DEF HeldInv, HeldParts, OneAudited
  <2>3. CASE /\ unlocked'.loads = unlocked.loads \ {n} /\ lock = n /\ n \notin mapper
             /\ unlocked'.loads # unlocked.loads \cup {n}
    <3>1. pc[n] = "lvchange"
      BY <2>3 DEF Loads, HeldInv, TypeOK
    <3>2. LeaseMode # "disabled" => mapper \subseteq unlocked.loads
      BY <2>3, <3>1 DEF HeldInv, HeldParts, Audited, TypeOK
    <3> QED BY <1>1, <2>3, <3>2 DEF OneAudited
  <2> QED BY <1>1, <2>1, <2>2, <2>3
<1> QED BY <1>3, <1>4, <1>5, <1>6 DEF HeldParts

LEMMA HeldPlugin ==
    ASSUME HeldInv, NEW n \in Node, PluginStep(n)
    PROVE  HeldInv'
<1> USE StepTypes DEF clusterVars, runtimeVars, haVars, historyVars
<1>1. TypeOK'
  BY TypePlugin DEF HeldInv, HeldParts
<1> SUFFICES HeldParts'
  BY <1>1 DEF HeldInv
<1>2. /\ n \notin reg[n].seen
      /\ lock = n => reg[n].seen \cap mapper \subseteq late \cap unlocked.loads
      /\ pc \in [Node -> Step] /\ reg \in [Node -> Reg] /\ pc[n] \in Step
      /\ pc[n] # "idle" => n \in alive
  BY DEF HeldInv, HeldParts, Audited, DeadIdle, TypeOK
<1>3. CASE ReadSelf(n)
  <2>1. reg'[n].seen = reg[n].seen /\ \A m \in Node : m # n => reg'[m] = reg[m]
    BY <1>2, <1>3 DEF ReadSelf, Reg
  <2> QED BY <1>3, <2>1, MoveHeld DEF ReadSelf
<1>4. CASE ReadFree(n)
  <2>1. /\ pc[n] = "read" /\ pc'[n] = "newAudit" /\ tags.nodes = {}
        /\ \A m \in Node : m # n => pc'[m] = pc[m]
    BY <1>2, <1>4 DEF ReadFree, Goto, Unowned
  <2> QED BY <1>2, <1>4, <2>1, GoesOnHeld DEF ReadFree
<1>5. CASE ReadFenced(n)
  <2>1. PICK o \in Node, e \in Epoch : reg' = [reg EXCEPT ![n].fenced = o, ![n].epoch = e]
    BY <1>5 DEF ReadFenced
  <2>2. reg'[n].seen = reg[n].seen /\ \A m \in Node : m # n => reg'[m] = reg[m]
    BY <1>2, <2>1 DEF Reg
  <2> QED BY <1>5, <2>2, MoveHeld DEF ReadFenced
<1>6. CASE ReadRefused(n) \/ AuditRefused(n) \/ ClaimFailed(n) \/ ReleaseGuard(n) \/ Verify(n)
  BY <1>6, FinishHeld DEF ReadRefused, AuditRefused, ClaimFailed, ReleaseGuard, Verify
<1>7. ASSUME NEW p \in Node, AuditPeer(n, p) PROVE HeldParts'
  <2>1. /\ pc[n] \in AuditSteps /\ p # n /\ p \notin mapper
        /\ reg'[n].seen = reg[n].seen \cup {p}
        /\ UNCHANGED <<alive, lock, mapper, tags, pc, unlocked, late>>
        /\ \A m \in Node : m # n => reg'[m] = reg[m]
    BY <1>2, <1>7 DEF AuditPeer, Peers, PeerAbsent, Reg
  <2>2. lock = n /\ pc[n] \in {"newAudit", "claimTag"} => tags.nodes \subseteq unlocked.claims
    BY DEF HeldInv, HeldParts, OneClaim
  <2> QED BY <1>2, <2>1, <2>2, GoesOnHeld
<1>8. CASE AuditPassed(n)
  <2>1. /\ pc[n] \in AuditSteps /\ AuditComplete(n)
        /\ UNCHANGED <<alive, lock, mapper, tags, unlocked, late>>
        /\ \A m \in Node : m # n => reg'[m] = reg[m] /\ pc'[m] = pc[m]
        /\ reg'[n].seen = IF pc[n] = "barrierAudit" THEN reg[n].seen ELSE {}
    BY <1>2, <1>8 DEF AuditPassed, Goto, Reg
  <2>2. /\ pc'[n] # "idle" /\ pc'[n] # "newAudit" /\ pc'[n] # "lvchange"
        /\ pc'[n] = "claimTag" => pc[n] = "newAudit"
        /\ pc'[n] = "ownCheck" => pc[n] = "barrierAudit"
    BY <1>2, <1>8, <2>1 DEF AuditPassed, Goto, AfterClaim
  <2>3. pc'[n] = "ownCheck" /\ LeaseMode # "disabled" => Node \ {n} \subseteq reg'[n].seen
    BY <2>1, <2>2 DEF AuditComplete, Peers
  <2>4. lock = n /\ pc'[n] = "claimTag" => tags.nodes \subseteq unlocked.claims
    BY <2>2 DEF HeldInv, HeldParts, OneClaim
  <2> QED BY <1>2, <2>1, <2>2, <2>3, <2>4, GoesOnHeld
<1>9. CASE HaClear(n) \/ RecoverClear(n) \/ ReleaseClear(n)
  <2>1. UNCHANGED <<alive, mapper, late>> /\ pc[n] \in {"haClear", "rClear", "dClear"}
    BY <1>9 DEF HaClear, RecoverClear, ReleaseClear
  <2>2. CASE Finish(n) /\ UNCHANGED <<tags, unlocked>>
    BY <2>1, <2>2, FinishHeld
  <2>3. ASSUME NEW o, ClearOwner(n, o), NEW step \in {"haRead", "verify", "dVerify"},
               Goto(n, step), UNCHANGED <<reg, lock>>
        PROVE  HeldParts'
    <3>1. /\ tags'.nodes \subseteq tags.nodes /\ unlocked'.loads = unlocked.loads
          /\ unlocked'.claims = unlocked.claims
      BY <2>3, ClearTypes DEF HeldInv
    <3> QED BY <2>1, <2>3, <3>1, MoveHeld
  <2> QED BY <1>9, <2>2, <2>3 DEF HaClear, RecoverClear, ReleaseClear
<1>10. CASE HaRead(n)
  <2>1. CASE Finish(n)
    BY <1>10, <2>1, FinishHeld DEF HaRead
  <2>2. CASE Goto(n, "claimTag") /\ UNCHANGED <<reg, lock>> /\ Unowned
    <3>1. /\ pc[n] = "haRead" /\ pc'[n] = "claimTag" /\ tags.nodes = {}
          /\ \A m \in Node : m # n => pc'[m] = pc[m]
      BY <1>2, <1>10, <2>2 DEF HaRead, Goto, Unowned
    <3> QED BY <1>2, <1>10, <2>2, <3>1, GoesOnHeld DEF HaRead
  <2> QED BY <1>10, <2>1, <2>2 DEF HaRead
<1>11. CASE ClaimTag(n)
  <2>1. /\ pc[n] = "claimTag" /\ pc'[n] = "claimRead" /\ tags'.nodes = tags.nodes \cup {n}
        /\ UNCHANGED <<alive, lock, mapper, late>> /\ reg'[n].seen = reg[n].seen
        /\ \A m \in Node : m # n => reg'[m] = reg[m] /\ pc'[m] = pc[m]
        /\ unlocked'.loads = unlocked.loads
        /\ unlocked'.claims = IF lock = n THEN unlocked.claims \ {n} ELSE unlocked.claims \cup {n}
    BY <1>2, <1>11 DEF ClaimTag, Goto, Reg, HeldInv, TypeOK
  <2>2. DeadIdle' /\ OneAudited'
    BY <1>2, <2>1 DEF HeldInv, HeldParts, DeadIdle, OneAudited
  <2>3. Audited'
    BY <1>2, <2>1 DEF HeldInv, HeldParts, Audited
  <2>4. OneClaim'
    <3>1. CASE lock = n
      BY <2>1, <3>1 DEF HeldInv, HeldParts, OneClaim
    <3>2. CASE lock # n
      BY <2>1, <3>2 DEF HeldInv, HeldParts, OneClaim
    <3> QED BY <3>1, <3>2
  <2> QED BY <2>2, <2>3, <2>4 DEF HeldParts
<1>12. CASE ClaimRead(n)
  <2>1. CASE Finish(n)
    BY <1>12, <2>1, FinishHeld DEF ClaimRead
  <2>2. CASE Goto(n, AfterClaim(n)) /\ UNCHANGED <<reg, lock>>
    <3>1. PICK step \in {"prepare", "barrierAudit"} : Goto(n, step)
      BY <2>2 DEF AfterClaim
    <3> QED BY <1>12, <2>2, <3>1, MoveHeld DEF ClaimRead
  <2> QED BY <1>12, <2>1, <2>2 DEF ClaimRead
<1>13. CASE GuardPrepared(n) \/ GuardRefused(n)
  BY <1>13, MoveHeld DEF GuardPrepared, GuardRefused
<1>14. CASE OwnCheck(n)
  <2>1. CASE Finish(n)
    BY <1>14, <2>1, FinishHeld DEF OwnCheck
  <2>2. CASE Goto(n, "lvchange") /\ UNCHANGED <<reg, lock>>
    <3>1. /\ pc'[n] = "lvchange" /\ pc[n] = "ownCheck"
          /\ \A m \in Node : m # n => pc'[m] = pc[m]
      BY <1>2, <1>14, <2>2 DEF Goto, OwnCheck
    <3>2. lock = n /\ LeaseMode # "disabled" => Node \ {n} \subseteq reg[n].seen
      BY <3>1 DEF HeldInv, HeldParts, Audited
    <3> QED BY <1>2, <1>14, <2>2, <3>1, <3>2, GoesOnHeld DEF OwnCheck
  <2> QED BY <1>14, <2>1, <2>2 DEF OwnCheck
<1>15. CASE LvChange(n)
  <2>1. CASE UNCHANGED <<mapper, unlocked, late>>
    BY <1>15, <2>1, FinishHeld DEF LvChange
  <2>2. CASE Loads(n, lock = n)
    <3>1. /\ lock' \in {lock, None}
          /\ \A m \in Node : m # n => reg'[m] = reg[m] /\ pc'[m] = pc[m]
      BY <1>15, FinishTypes DEF LvChange, HeldInv
    <3> QED BY <1>15, <2>2, <3>1, LoadsHeld DEF LvChange
  <2> QED BY <1>15, <2>1, <2>2 DEF LvChange
<1>16. CASE ReadGuardOwner(n)
  <2>1. CASE Finish(n)
    BY <1>16, <2>1, FinishHeld DEF ReadGuardOwner
  <2>2. CASE ~Finish(n)
    <3> DEFINE g == LeaseMode = "runtime-guard" /\ \E e \in Epoch : OwnedBy(n, e)
    <3>1. /\ Goto(n, "dChild") /\ lock' = lock
          /\ reg' = [reg EXCEPT ![n] = [reg[n] EXCEPT !.guard = g]]
      BY <1>16, <2>2, Zenon DEF ReadGuardOwner
    <3> HIDE DEF g
    <3>2. reg'[n].seen = reg[n].seen /\ \A m \in Node : m # n => reg'[m] = reg[m]
      BY <1>2, <3>1 DEF Reg
    <3> QED BY <1>16, <3>1, <3>2, MoveHeld DEF ReadGuardOwner
  <2> QED BY <2>1, <2>2
<1>17. CASE DeactivateChild(n) \/ DeactivatePool(n)
  <2>1. CASE Finish(n)
    BY <1>17, <2>1, FinishHeld DEF DeactivateChild, DeactivatePool
  <2>2. CASE UNCHANGED <<reg, lock>> /\ \E step \in {"dPool", "dOwner"} : Goto(n, step)
    BY <1>17, <2>2, MoveHeld DEF DeactivateChild, DeactivatePool
  <2> QED BY <1>17, <2>1, <2>2 DEF DeactivateChild, DeactivatePool
<1>18. CASE ReleaseOwner(n)
  <2>1. CASE Finish(n)
    BY <1>18, <2>1, FinishHeld DEF ReleaseOwner
  <2>2. ASSUME NEW e \in Epoch, reg' = [reg EXCEPT ![n].epoch = e], Goto(n, "dClear"), lock' = lock
        PROVE  HeldParts'
    <3>1. reg'[n].seen = reg[n].seen /\ \A m \in Node : m # n => reg'[m] = reg[m]
      BY <1>2, <2>2 DEF Reg
    <3> QED BY <1>18, <2>2, <3>1, MoveHeld DEF ReleaseOwner
  <2>3. CASE Goto(n, "dGuard") /\ UNCHANGED <<reg, lock>>
    BY <1>18, <2>3, MoveHeld DEF ReleaseOwner
  <2> QED BY <1>18, <2>1, <2>2, <2>3 DEF ReleaseOwner, AfterRelease
<1>19. CASE ReleaseVerify(n)
  <2>1. CASE Finish(n)
    BY <1>19, <2>1, FinishHeld DEF ReleaseVerify
  <2>2. CASE Goto(n, "dGuard") /\ UNCHANGED <<reg, lock>>
    BY <1>19, <2>2, MoveHeld DEF ReleaseVerify
  <2> QED BY <1>19, <2>1, <2>2 DEF ReleaseVerify, AfterRelease
<1>20. CASE RecoverRead(n)
  <2>1. CASE Finish(n)
    BY <1>20, <2>1, FinishHeld DEF RecoverRead
  <2>2. ASSUME NEW e \in Epoch, reg' = [reg EXCEPT ![n].epoch = e], Goto(n, "rRuntime"), lock' = lock
        PROVE  HeldParts'
    <3>1. reg'[n].seen = reg[n].seen /\ \A m \in Node : m # n => reg'[m] = reg[m]
      BY <1>2, <2>2 DEF Reg
    <3> QED BY <1>20, <2>2, <3>1, MoveHeld DEF RecoverRead
  <2> QED BY <1>20, <2>1, <2>2 DEF RecoverRead
<1>21. CASE AdoptRead(n) \/ AdoptHarden(n) \/ LocalRuntimeAbsent(n) \/ AdoptTag(n)
  <2>1. /\ UNCHANGED <<alive, mapper, unlocked, late>> /\ tags'.nodes = tags.nodes
        /\ pc[n] # "idle"
    BY <1>21 DEF AdoptRead, AdoptHarden, LocalRuntimeAbsent, AdoptTag, HeldInv, TypeOK
  <2>2. CASE Finish(n)
    BY <2>1, <2>2, FinishHeld
  <2>3. CASE /\ UNCHANGED <<reg, lock>>
             /\ \E step \in {"aRuntime", "aTag", "rClear", "aHarden", "verify"} : Goto(n, step)
    BY <2>1, <2>3, MoveHeld
  <2> QED BY <1>21, <2>2, <2>3 DEF AdoptRead, AdoptHarden, LocalRuntimeAbsent, AdoptTag
<1> QED
  BY <1>3, <1>4, <1>5, <1>6, <1>7, <1>8, <1>9, <1>10, <1>11, <1>12, <1>13, <1>14, <1>15,
     <1>16, <1>17, <1>18, <1>19, <1>20, <1>21
     DEF PluginStep, ActivateStep, DeactivateStep, RecoveryStep

LEMMA HeldRequest ==
    ASSUME HeldInv, NEW n \in Node, Request(n)
    PROVE  HeldInv'
<1>1. PICK r \in Reg, step \in {"read", "dRead", "rRead", "aRead"} :
        Begin(n, r, step) /\ r.seen = {}
  BY RequestTypes DEF HeldInv
<1>2. /\ TypeOK'
      /\ lock = None /\ lock' = n /\ n \in alive
      /\ pc'[n] = step /\ reg'[n].seen = {}
      /\ \A m \in Node : m # n => reg'[m] = reg[m] /\ pc'[m] = pc[m]
      /\ UNCHANGED <<tags, alive, mapper>>
      /\ unlocked'.loads = unlocked.loads \cap mapper
      /\ unlocked'.claims = unlocked.claims \cap tags.nodes
  BY <1>1, BeginTypes, StepTypes DEF HeldInv
<1>3. DeadIdle' /\ OneAudited'
  BY <1>2 DEF HeldInv, HeldParts, DeadIdle, OneAudited
<1>4. Audited'
  BY <1>2 DEF HeldInv, HeldParts, Audited
<1>5. OneClaim'
  BY <1>2 DEF HeldInv, HeldParts, OneClaim
<1> QED BY <1>2, <1>3, <1>4, <1>5 DEF HeldInv, HeldParts

LEMMA HeldEnvironment ==
    ASSUME HeldInv, NEW n \in Node, Environment(n)
    PROVE  HeldInv'
<1> USE DEF clusterVars, runtimeVars, haVars, historyVars
<1>1. TypeOK'
  BY TypeEnvironment DEF HeldInv
<1>2. CASE Crash(n)
  BY <1>1, <1>2, FinishHeld DEF Crash, HeldInv
<1>3. CASE ~Crash(n)
  <2>1. /\ UNCHANGED <<mapper, tags, pc, reg, unlocked, late>> /\ alive \subseteq alive'
        /\ lock' \in {lock, None}
    BY <1>3 DEF Environment, Reboot, Partition, Heal, LockExpires, HaReport, HaAssign
  <2>2. DeadIdle' /\ OneAudited'
    BY <2>1 DEF HeldInv, HeldParts, DeadIdle, OneAudited
  <2>3. Audited'
    BY <2>1, OwnerAssumption DEF HeldInv, HeldParts, Audited
  <2>4. OneClaim'
    BY <2>1, OwnerAssumption DEF HeldInv, HeldParts, OneClaim
  <2> QED BY <1>1, <2>2, <2>3, <2>4 DEF HeldInv, HeldParts
<1> QED BY <1>2, <1>3

\* The invariant survives even the activations of others than the plugin.
LEMMA HeldInductive ==
    ASSUME HeldInv, [StrayNext]_vars
    PROVE  HeldInv'
<1>1. ASSUME NEW n \in Node, PluginStep(n) \/ Request(n) \/ Environment(n) PROVE HeldInv'
  BY <1>1, HeldPlugin, HeldRequest, HeldEnvironment
<1>2. ASSUME NEW n \in Node, StrayActivation(n) PROVE HeldInv'
  <2>1. /\ Loads(n, FALSE) /\ n \in alive
        /\ UNCHANGED <<tags, alive, conn, children, lock, pc, reg, haDown, haNode, nextEpoch>>
    BY <1>2 DEF StrayActivation, clusterVars, haVars
  <2>2. TypeOK'
    <3>1. /\ unlocked' \in [loads : SUBSET Node, claims : SUBSET Node, clears : SUBSET Node]
          /\ late' \subseteq Node /\ mapper' = mapper \cup {n}
      BY <2>1, LoadTypes DEF HeldInv
    <3> QED BY <2>1, <3>1 DEF HeldInv, TypeOK
  <2>3. HeldParts'
    BY <2>1, LoadsHeld
  <2> QED BY <2>2, <2>3 DEF HeldInv
<1>3. CASE UNCHANGED vars
  BY <1>3 DEF vars, HeldInv, HeldParts, TypeOK, DeadIdle, Audited, OneClaim, OneAudited
<1> QED BY <1>1, <1>2, <1>3 DEF StrayNext, Next

-----------------------------------------------------------------------------
(* What the tags protect                                                   *)

LEMMA CoverInit == Init => CoverParts
<1> SUFFICES ASSUME Init PROVE CoverParts
  OBVIOUS
<1>1. NotLoaded /\ SchemaFirst /\ Adopting /\ NoTakeover /\ Fenced /\ ClearsGone
  BY StepTypes
     DEF Init, NotLoaded, AbsentSteps, SchemaFirst, Adopting, NoTakeover, Fenced, ClearsGone
<1>2. TagCover /\ OneCommitted
  BY DEF Init, TagCover, OneCommitted, Committed
<1> QED BY <1>1, <1>2 DEF CoverParts

\* The operation on n goes on or ends; the owner-node tags stay as they are, and
\* n commits to the pool only as its one owner.
LEMMA GoesOnCover ==
    ASSUME OwnerInv, NEW n \in Node, lock' \in {lock, None},
           pc[n] # "idle" \/ (pc'[n] = "idle" /\ mapper' \subseteq mapper),
           mapper' \subseteq mapper \/ (pc[n] = "lvchange" /\ mapper' = mapper \cup {n}),
           tags'.schema = tags.schema, tags'.nodes = tags.nodes,
           unlocked'.clears = unlocked.clears,
           \A m \in Node : m # n => reg'[m] = reg[m] /\ pc'[m] = pc[m],
           pc'[n] = "lvchange" => tags.schema /\ tags.nodes = {n},
           pc'[n] \in AbsentSteps => n \notin mapper',
           pc'[n] \in (ActivateSteps \ {"read"}) => tags.schema,
           pc'[n] \in AdoptSteps => pc[n] \in AdoptSteps,
           pc'[n] \in {"haAudit", "haClear", "haRead"} => TakeoverEnabled,
           pc'[n] \in RecoverSteps => pc[n] \in RecoverSteps /\ reg'[n].fenced = reg[n].fenced
    PROVE  CoverParts'
<1> USE DEF OwnerInv, CoverParts
<1>1. \A m \in Node : lock' = m => lock = m
  BY OwnerAssumption
<1>2. pc[n] = "lvchange" => tags.schema
  BY StepTypes DEF SchemaFirst
<1>3. NotLoaded' /\ NoTakeover'
  BY DEF NotLoaded, NoTakeover, TakeoverEnabled
<1>4. SchemaFirst'
  BY DEF SchemaFirst
<1>5. Adopting'
  BY <1>2 DEF Adopting
<1>6. Fenced'
  <2>1. ASSUME NEW m \in Node, lock' = m, pc'[m] \in RecoverSteps
        PROVE  reg'[m].fenced \in Node \ (mapper' \cup {m}) /\ pc'[reg'[m].fenced] = "idle"
    <3>1. lock = m /\ pc[m] \in RecoverSteps /\ reg'[m].fenced = reg[m].fenced
      BY <1>1, <2>1
    <3>2. reg[m].fenced \in Node \ (mapper \cup {m}) /\ pc[reg[m].fenced] = "idle"
      BY <3>1 DEF Fenced
    <3>3. reg[m].fenced # n \/ (pc'[n] = "idle" /\ mapper' \subseteq mapper)
      BY <3>2
    <3> QED BY <3>1, <3>2, <3>3
  <2> QED BY <2>1 DEF Fenced
<1>7. ClearsGone'
  BY DEF ClearsGone
<1>8. \A m \in Node : Committed(m)' => Committed(m) \/ (m = n /\ tags.schema /\ tags.nodes = {n})
  BY DEF Committed
<1>9. TagCover'
  BY <1>8 DEF TagCover, TakeoverEnabled
<1>10. OneCommitted'
  <2>1. SUFFICES ASSUME ~TakeoverEnabled, NEW k \in Node, NEW m \in Node,
                        Committed(k)', k \notin unlocked.clears,
                        Committed(m)', m \notin unlocked.clears
                 PROVE  k = m
    BY DEF OneCommitted, TakeoverEnabled
  <2>2. CASE Committed(k) /\ Committed(m)
    BY <2>1, <2>2 DEF OneCommitted
  <2>3. CASE ~(Committed(k) /\ Committed(m))
    <3>1. tags.schema /\ tags.nodes = {n}
      BY <1>8, <2>1, <2>3
    <3>2. k = n /\ m = n
      BY <1>8, <2>1, <3>1 DEF TagCover
    <3> QED BY <3>2
  <2> QED BY <2>2, <2>3
<1> QED BY <1>3, <1>4, <1>5, <1>6, <1>7, <1>9, <1>10

LEMMA FinishCover ==
    ASSUME OwnerInv, NEW n \in Node, Finish(n), tags' = tags,
           mapper' \subseteq mapper \/ (pc[n] = "lvchange" /\ mapper' = mapper \cup {n}),
           unlocked'.clears = unlocked.clears
    PROVE  CoverParts'
<1>1. /\ pc'[n] = "idle" /\ lock' \in {lock, None}
      /\ \A m \in Node : m # n => reg'[m] = reg[m] /\ pc'[m] = pc[m]
  BY FinishTypes DEF OwnerInv, HeldInv
<1> QED BY <1>1, StepTypes, GoesOnCover DEF AbsentSteps

LEMMA MoveCover ==
    ASSUME OwnerInv, NEW n \in Node, pc[n] # "idle", NEW step \in Step, Goto(n, step),
           mapper' \subseteq mapper, lock' = lock, tags' = tags, unlocked' = unlocked,
           \A m \in Node : m # n => reg'[m] = reg[m],
           step = "lvchange" => tags.schema /\ tags.nodes = {n},
           step \in AbsentSteps => n \notin mapper',
           step \in (ActivateSteps \ {"read"}) => tags.schema,
           step \in AdoptSteps => pc[n] \in AdoptSteps,
           step \in {"haAudit", "haClear", "haRead"} => TakeoverEnabled,
           step \in RecoverSteps => pc[n] \in RecoverSteps /\ reg'[n].fenced = reg[n].fenced
    PROVE  CoverParts'
<1>1. pc'[n] = step /\ \A m \in Node : m # n => pc'[m] = pc[m]
  BY GotoTypes DEF OwnerInv, HeldInv
<1> QED BY <1>1, GoesOnCover

\* Clearing the tags of a node that has not loaded the pool, or without the lock.
LEMMA ClearCover ==
    ASSUME OwnerInv, NEW n \in Node, pc[n] # "idle", NEW o, ClearOwner(n, o),
           NEW step \in {"haRead", "verify", "dVerify"}, Goto(n, step),
           UNCHANGED <<mapper, reg, lock>>,
           step = "haRead" => TakeoverEnabled /\ tags.schema,
           TakeoverEnabled \/ lock # n \/ o \notin Node \/ ~Committed(o)
    PROVE  CoverParts'
<1> USE DEF OwnerInv, CoverParts
<1>1. /\ tags'.schema = tags.schema /\ tags'.nodes = tags.nodes \ {o}
      /\ unlocked'.clears = IF o \in tags.nodes /\ lock # n
                            THEN unlocked.clears \cup {o} ELSE unlocked.clears
  BY ClearTypes DEF HeldInv
<1>2. pc'[n] = step /\ \A m \in Node : m # n => pc'[m] = pc[m]
  BY StepTypes, GotoTypes DEF HeldInv
<1>3. NotLoaded' /\ NoTakeover' /\ SchemaFirst' /\ Adopting'
  BY <1>1, <1>2, StepTypes DEF NotLoaded, AbsentSteps, NoTakeover, TakeoverEnabled, SchemaFirst, Adopting
<1>4. Fenced'
  BY <1>2, StepTypes DEF Fenced
<1>5. ClearsGone'
  BY <1>1 DEF ClearsGone
<1>6. \A m \in Node : Committed(m)' => Committed(m)
  BY <1>2 DEF Committed
<1>7. TagCover'
  <2> SUFFICES ASSUME ~TakeoverEnabled, tags.schema, NEW m \in Node, Committed(m),
                      m \notin unlocked'.clears
               PROVE  m \in tags'.nodes
    BY <1>1, <1>6 DEF TagCover, TakeoverEnabled
  <2>1. m \in tags.nodes
    BY <1>1 DEF TagCover
  <2>2. m # o
    BY <1>1, <2>1
  <2> QED BY <1>1, <2>1, <2>2
<1>8. OneCommitted'
  BY <1>1, <1>6 DEF OneCommitted, TakeoverEnabled
<1> QED BY <1>3, <1>4, <1>5, <1>7, <1>8

LEMMA CoverPlugin ==
    ASSUME OwnerInv, NEW n \in Node, PluginStep(n)
    PROVE  CoverParts'
<1> USE StepTypes DEF clusterVars, runtimeVars, haVars, historyVars, AbsentSteps
<1>1. pc \in [Node -> Step] /\ reg \in [Node -> Reg]
  BY DEF OwnerInv, HeldInv, TypeOK
<1>2. pc[n] \in (ActivateSteps \ {"read"}) => tags.schema
  BY DEF OwnerInv, CoverParts, SchemaFirst
<1>3. pc[n] \in {"haAudit", "haClear", "haRead"} => TakeoverEnabled
  BY DEF OwnerInv, CoverParts, NoTakeover
<1>4. pc[n] \in AbsentSteps => n \notin mapper
  BY DEF OwnerInv, CoverParts, NotLoaded
<1>5. CASE ReadSelf(n) \/ ReadFenced(n)
  <2>1. /\ pc[n] = "read" /\ UNCHANGED <<tags, mapper, lock, unlocked>> /\ tags.schema
        /\ \E step \in {"selfAudit", "haAudit"} :
              Goto(n, step) /\ (step = "haAudit" => TakeoverEnabled)
    BY <1>5 DEF ReadSelf, ReadFenced, OwnedBy
  <2>2. \A m \in Node : m # n => reg'[m] = reg[m]
    BY <1>1, <1>5 DEF ReadSelf, ReadFenced
  <2> QED BY <2>1, <2>2, MoveCover
<1>6. CASE ReadFree(n)
  BY <1>6, MoveCover DEF ReadFree
<1>7. CASE GuardPrepared(n) \/ GuardRefused(n)
  BY <1>2, <1>4, <1>7, MoveCover DEF GuardPrepared, GuardRefused
<1>8. CASE ReadRefused(n) \/ AuditRefused(n) \/ ClaimFailed(n) \/ ReleaseGuard(n) \/ Verify(n)
  BY <1>8, FinishCover
     DEF ReadRefused, AuditRefused, ClaimFailed, ReleaseGuard, Verify
<1>9. ASSUME NEW p \in Node, AuditPeer(n, p) PROVE CoverParts'
  <2>1. /\ pc[n] \in AuditSteps /\ UNCHANGED <<tags, mapper, lock, unlocked, pc>>
        /\ \A m \in Node : m # n => reg'[m] = reg[m]
    BY <1>1, <1>9 DEF AuditPeer
  <2> QED BY <1>2, <1>3, <1>4, <2>1, GoesOnCover
<1>10. CASE AuditPassed(n)
  <2>1. /\ pc[n] \in AuditSteps /\ UNCHANGED <<tags, mapper, lock, unlocked>>
        /\ \A m \in Node : m # n => reg'[m] = reg[m]
        /\ \E step \in {"haClear", "claimTag", "prepare", "barrierAudit", "ownCheck"} :
              /\ Goto(n, step)
              /\ step = "haClear" => pc[n] = "haAudit"
              /\ step = "claimTag" => pc[n] = "newAudit"
              /\ step = "prepare" => n \notin mapper
    BY <1>1, <1>10 DEF AuditPassed, AfterClaim
  <2> QED BY <1>2, <1>3, <1>4, <2>1, MoveCover
<1>11. CASE HaClear(n)
  <2>1. pc[n] = "haClear" /\ UNCHANGED mapper
    BY <1>11 DEF HaClear
  <2>2. CASE Finish(n) /\ UNCHANGED <<tags, unlocked>>
    BY <2>1, <2>2, FinishCover
  <2>3. CASE ClearOwner(n, reg[n].fenced) /\ Goto(n, "haRead") /\ UNCHANGED <<reg, lock>>
    BY <1>2, <1>3, <2>1, <2>3, ClearCover
  <2> QED BY <1>11, <2>2, <2>3 DEF HaClear
<1>12. CASE ReleaseClear(n)
  <2>1. pc[n] = "dClear" /\ UNCHANGED mapper /\ ~Committed(n)
    BY <1>4, <1>12 DEF ReleaseClear, Committed
  <2>2. CASE Finish(n) /\ UNCHANGED <<tags, unlocked>>
    BY <2>1, <2>2, FinishCover
  <2>3. CASE ClearOwner(n, n) /\ Goto(n, "dVerify") /\ UNCHANGED <<reg, lock>>
    BY <2>1, <2>3, ClearCover
  <2> QED BY <1>12, <2>2, <2>3 DEF ReleaseClear
<1>13. CASE RecoverClear(n)
  <2>1. pc[n] = "rClear" /\ UNCHANGED mapper
    BY <1>13 DEF RecoverClear
  <2>2. lock = n => ~Committed(reg[n].fenced)
    BY <2>1 DEF OwnerInv, CoverParts, Fenced, Committed
  <2>3. CASE Finish(n) /\ UNCHANGED <<tags, unlocked>>
    BY <2>1, <2>3, FinishCover
  <2>4. CASE ClearOwner(n, reg[n].fenced) /\ Goto(n, "verify") /\ UNCHANGED <<reg, lock>>
    BY <2>1, <2>2, <2>4, ClearCover
  <2> QED BY <1>13, <2>3, <2>4 DEF RecoverClear
<1>14. CASE HaRead(n)
  <2>1. CASE Finish(n)
    BY <1>14, <2>1, FinishCover DEF HaRead
  <2>2. CASE Goto(n, "claimTag") /\ UNCHANGED <<reg, lock>> /\ n \notin mapper
    BY <1>2, <1>14, <2>2, MoveCover DEF HaRead
  <2> QED BY <1>14, <2>1, <2>2 DEF HaRead
<1>15. CASE ClaimTag(n)
  <2>1. /\ pc[n] = "claimTag" /\ pc'[n] = "claimRead" /\ UNCHANGED <<lock, mapper>>
        /\ tags'.nodes = tags.nodes \cup {n} /\ tags'.schema = tags.schema
        /\ unlocked'.clears = unlocked.clears \ {n}
        /\ \A m \in Node : m # n => reg'[m] = reg[m] /\ pc'[m] = pc[m]
    BY <1>1, <1>15 DEF ClaimTag, Goto, OwnerInv, HeldInv, TypeOK
  <2>2. NotLoaded' /\ SchemaFirst' /\ Adopting' /\ NoTakeover'
    BY <1>2, <2>1
       DEF OwnerInv, CoverParts, NotLoaded, SchemaFirst, Adopting, NoTakeover, TakeoverEnabled
  <2>3. Fenced'
    BY <2>1 DEF OwnerInv, CoverParts, Fenced
  <2>4. ClearsGone'
    BY <2>1 DEF OwnerInv, CoverParts, ClearsGone
  <2>5. \A m \in Node : Committed(m)' => Committed(m) /\ m # n
    BY <1>4, <2>1 DEF Committed
  <2>6. TagCover' /\ OneCommitted'
    BY <2>1, <2>5 DEF OwnerInv, CoverParts, TagCover, OneCommitted, TakeoverEnabled
  <2> QED BY <2>2, <2>3, <2>4, <2>6 DEF CoverParts
<1>16. CASE ClaimRead(n)
  <2>1. CASE Finish(n)
    BY <1>16, <2>1, FinishCover DEF ClaimRead
  <2>2. CASE Goto(n, AfterClaim(n)) /\ UNCHANGED <<reg, lock>>
    <3>1. PICK step \in {"prepare", "barrierAudit"} :
            Goto(n, step) /\ (step = "prepare" => n \notin mapper)
      BY <2>2 DEF AfterClaim
    <3> QED BY <1>2, <1>16, <2>2, <3>1, MoveCover DEF ClaimRead
  <2> QED BY <1>16, <2>1, <2>2 DEF ClaimRead
<1>17. CASE OwnCheck(n)
  <2>1. CASE Finish(n)
    BY <1>17, <2>1, FinishCover DEF OwnCheck
  <2>2. CASE Goto(n, "lvchange") /\ UNCHANGED <<reg, lock>> /\ OwnedBy(n, reg[n].epoch)
    <3>1. tags.schema /\ tags.nodes = {n}
      BY <2>2 DEF OwnedBy
    <3> QED BY <1>17, <2>2, <3>1, MoveCover DEF OwnCheck
  <2> QED BY <1>17, <2>1, <2>2 DEF OwnCheck
<1>18. CASE LvChange(n)
  <2>1. /\ pc[n] = "lvchange" /\ Finish(n) /\ tags' = tags
        /\ UNCHANGED <<mapper, unlocked>> \/ Loads(n, lock = n)
    BY <1>18 DEF LvChange
  <2>2. CASE UNCHANGED <<mapper, unlocked>>
    BY <2>1, <2>2, FinishCover
  <2>3. CASE Loads(n, lock = n)
    <3>1. mapper' = mapper \cup {n} /\ unlocked'.clears = unlocked.clears
      BY <2>3, LoadTypes DEF OwnerInv, HeldInv
    <3> QED BY <2>1, <3>1, FinishCover
  <2> QED BY <2>1, <2>2, <2>3
<1>19. CASE ReadGuardOwner(n)
  <2>1. CASE Finish(n)
    BY <1>19, <2>1, FinishCover DEF ReadGuardOwner
  <2>2. CASE ~Finish(n)
    <3> DEFINE g == LeaseMode = "runtime-guard" /\ \E e \in Epoch : OwnedBy(n, e)
    <3>1. /\ Goto(n, "dChild") /\ lock' = lock
          /\ reg' = [reg EXCEPT ![n] = [reg[n] EXCEPT !.guard = g]]
      BY <1>19, <2>2, Zenon DEF ReadGuardOwner
    <3> HIDE DEF g
    <3>2. \A m \in Node : m # n => reg'[m] = reg[m]
      BY <1>1, <3>1
    <3> QED BY <1>19, <3>1, <3>2, MoveCover DEF ReadGuardOwner
  <2> QED BY <2>1, <2>2
<1>20. CASE DeactivateChild(n)
  <2>1. CASE Finish(n)
    BY <1>20, <2>1, FinishCover DEF DeactivateChild
  <2>2. CASE UNCHANGED <<reg, lock>> /\ Goto(n, "dPool")
    BY <1>20, <2>2, MoveCover DEF DeactivateChild
  <2> QED BY <1>20, <2>1, <2>2 DEF DeactivateChild
<1>21. CASE DeactivatePool(n)
  <2>1. CASE Finish(n) /\ UNCHANGED mapper
    BY <1>21, <2>1, FinishCover DEF DeactivatePool
  <2>2. CASE UNCHANGED <<reg, lock>> /\ Goto(n, "dOwner") /\ mapper' = mapper \ {n}
    BY <1>21, <2>2, MoveCover DEF DeactivatePool
  <2> QED BY <1>21, <2>1, <2>2 DEF DeactivatePool
<1>22. CASE ReleaseOwner(n)
  <2>1. CASE Finish(n)
    BY <1>22, <2>1, FinishCover DEF ReleaseOwner
  <2>2. ASSUME NEW e \in Epoch, reg' = [reg EXCEPT ![n].epoch = e], Goto(n, "dClear"), lock' = lock
        PROVE  CoverParts'
    <3>1. \A m \in Node : m # n => reg'[m] = reg[m]
      BY <1>1, <2>2
    <3>2. pc[n] = "dOwner" /\ UNCHANGED <<tags, mapper, unlocked>>
      BY <1>22 DEF ReleaseOwner
    <3> QED BY <1>4, <2>2, <3>1, <3>2, MoveCover
  <2>3. CASE Goto(n, "dGuard") /\ UNCHANGED <<reg, lock>>
    BY <1>22, <2>3, MoveCover DEF ReleaseOwner
  <2> QED BY <1>22, <2>1, <2>2, <2>3 DEF ReleaseOwner, AfterRelease
<1>23. CASE ReleaseVerify(n)
  <2>1. CASE Finish(n)
    BY <1>23, <2>1, FinishCover DEF ReleaseVerify
  <2>2. CASE Goto(n, "dGuard") /\ UNCHANGED <<reg, lock>>
    BY <1>23, <2>2, MoveCover DEF ReleaseVerify
  <2> QED BY <1>23, <2>1, <2>2 DEF ReleaseVerify, AfterRelease
<1>24. CASE RecoverRead(n)
  <2>1. CASE Finish(n)
    BY <1>24, <2>1, FinishCover DEF RecoverRead
  <2>2. ASSUME NEW e \in Epoch, reg' = [reg EXCEPT ![n].epoch = e], Goto(n, "rRuntime"), lock' = lock
        PROVE  CoverParts'
    <3>1. reg'[n].fenced = reg[n].fenced /\ \A m \in Node : m # n => reg'[m] = reg[m]
      BY <1>1, <2>2 DEF Reg
    <3> QED BY <1>24, <2>2, <3>1, MoveCover DEF RecoverRead
  <2> QED BY <1>24, <2>1, <2>2 DEF RecoverRead
<1>25. CASE AdoptRead(n) \/ AdoptHarden(n) \/ LocalRuntimeAbsent(n)
  <2>1. UNCHANGED <<tags, mapper, unlocked>>
    BY <1>25 DEF AdoptRead, AdoptHarden, LocalRuntimeAbsent
  <2>2. CASE Finish(n)
    BY <2>1, <2>2, FinishCover
  <2>3. CASE /\ UNCHANGED <<reg, lock>>
             /\ \/ pc[n] \in {"aRead", "aRuntime", "aHarden"} /\
                   \E step \in {"aRuntime", "aTag", "aHarden"} : Goto(n, step)
                \/ pc[n] = "rRuntime" /\ Goto(n, "rClear")
    BY <2>1, <2>3, MoveCover
  <2> QED BY <1>25, <2>2, <2>3 DEF AdoptRead, AdoptHarden, LocalRuntimeAbsent
<1>26. CASE AdoptTag(n)
  <2>1. CASE Finish(n) /\ UNCHANGED tags
    BY <1>26, <2>1, FinishCover DEF AdoptTag
  <2>2. CASE tags' = [tags EXCEPT !.schema = TRUE] /\ Goto(n, "verify") /\ UNCHANGED <<reg, lock>>
    <3>1. /\ pc[n] = "aTag" /\ pc'[n] = "verify" /\ UNCHANGED <<mapper, unlocked>>
          /\ tags'.schema /\ tags'.nodes = tags.nodes
          /\ \A m \in Node : m # n => pc'[m] = pc[m]
      BY <1>1, <1>26, <2>2 DEF AdoptTag, Goto, OwnerInv, HeldInv, TypeOK
    <3>2. NotLoaded' /\ SchemaFirst' /\ Adopting' /\ NoTakeover' /\ ClearsGone'
      BY <3>1 DEF OwnerInv, CoverParts, NotLoaded, SchemaFirst, Adopting, NoTakeover,
                  TakeoverEnabled, ClearsGone
    <3>3. Fenced'
      BY <2>2, <3>1 DEF OwnerInv, CoverParts, Fenced
    <3>4. \A m \in Node : Committed(m)' => Committed(m)
      BY <3>1 DEF Committed
    <3>5. \A m \in Node : Committed(m) => tags.schema
      BY <3>1 DEF Committed, OwnerInv, CoverParts, SchemaFirst, Adopting
    <3>6. TagCover' /\ OneCommitted'
      BY <3>1, <3>4, <3>5 DEF OwnerInv, CoverParts, TagCover, OneCommitted, TakeoverEnabled
    <3> QED BY <3>2, <3>3, <3>6 DEF CoverParts
  <2> QED BY <1>26, <2>1, <2>2 DEF AdoptTag
<1> QED
  BY <1>5, <1>6, <1>7, <1>8, <1>9, <1>10, <1>11, <1>12, <1>13, <1>14, <1>15, <1>16, <1>17,
     <1>18, <1>19, <1>20, <1>21, <1>22, <1>23, <1>24, <1>25, <1>26
     DEF PluginStep, ActivateStep, DeactivateStep, RecoveryStep

LEMMA CoverRequest ==
    ASSUME OwnerInv, NEW n \in Node, Request(n)
    PROVE  CoverParts'
<1> USE StepTypes
<1>1. PICK r \in Reg, step \in {"read", "dRead", "rRead", "aRead"} :
        /\ Begin(n, r, step)
        /\ step = "rRead" => r.fenced \in Node \ (alive \cup {n})
        /\ step = "aRead" => mapper = {}
  BY RequestTypes DEF OwnerInv, HeldInv
<1>2. /\ lock' = n /\ pc'[n] = step /\ reg'[n] = r /\ pc[n] = "idle"
      /\ \A m \in Node : m # n => reg'[m] = reg[m] /\ pc'[m] = pc[m]
      /\ UNCHANGED <<tags, alive, mapper>>
      /\ unlocked'.clears = {m \in unlocked.clears : m \in mapper \/ pc[m] # "idle"}
  BY <1>1, BeginTypes DEF OwnerInv, HeldInv
<1>3. NotLoaded' /\ SchemaFirst' /\ NoTakeover' /\ ClearsGone'
  BY <1>2 DEF OwnerInv, CoverParts, NotLoaded, AbsentSteps, SchemaFirst, NoTakeover,
              TakeoverEnabled, ClearsGone
<1>4. Adopting'
  BY <1>1, <1>2 DEF OwnerInv, CoverParts, Adopting
<1>5. Fenced'
  <2>1. mapper \subseteq alive /\ DeadIdle
    BY DEF OwnerInv, HeldInv, HeldParts, TypeOK
  <2>2. CASE step = "rRead"
    BY <1>1, <1>2, <2>1, <2>2 DEF Fenced, DeadIdle
  <2>3. CASE step # "rRead"
    BY <1>1, <1>2, <2>3 DEF Fenced
  <2> QED BY <2>2, <2>3
<1>6. \A m \in Node : Committed(m)' => Committed(m)
  BY <1>2 DEF Committed
<1>7. \A m \in Node : Committed(m) /\ m \notin unlocked'.clears => m \notin unlocked.clears
  BY <1>2 DEF Committed
<1>8. TagCover' /\ OneCommitted'
  BY <1>2, <1>6, <1>7 DEF OwnerInv, CoverParts, TagCover, OneCommitted, TakeoverEnabled
<1> QED BY <1>3, <1>4, <1>5, <1>8 DEF CoverParts

LEMMA SameCover ==
    ASSUME OwnerInv, UNCHANGED <<mapper, tags, pc, reg, unlocked>>, lock' \in {lock, None}
    PROVE  CoverParts'
<1>1. Fenced'
  BY OwnerAssumption DEF OwnerInv, CoverParts, Fenced
<1>2. NotLoaded' /\ SchemaFirst' /\ Adopting' /\ NoTakeover' /\ ClearsGone'
  BY DEF OwnerInv, CoverParts, NotLoaded, SchemaFirst, Adopting, NoTakeover, TakeoverEnabled,
         ClearsGone
<1>3. \A m \in Node : Committed(m)' <=> Committed(m)
  BY DEF Committed
<1>4. TagCover' /\ OneCommitted'
  BY <1>3 DEF OwnerInv, CoverParts, TagCover, OneCommitted, TakeoverEnabled
<1> QED BY <1>1, <1>2, <1>4 DEF CoverParts

LEMMA CoverEnvironment ==
    ASSUME OwnerInv, NEW n \in Node, Environment(n)
    PROVE  CoverParts'
<1> USE DEF clusterVars, runtimeVars, haVars, historyVars
<1>1. CASE Crash(n)
  BY <1>1, FinishCover DEF Crash
<1>2. CASE ~Crash(n)
  <2>1. UNCHANGED <<mapper, tags, pc, reg, unlocked>> /\ lock' \in {lock, None}
    BY <1>2 DEF Environment, Reboot, Partition, Heal, LockExpires, HaReport, HaAssign
  <2> QED BY <2>1, SameCover
<1> QED BY <1>1, <1>2

LEMMA OwnerInductive ==
    ASSUME OwnerInv, [Next]_vars
    PROVE  OwnerInv'
<1>1. HeldInv'
  BY HeldInductive DEF OwnerInv, StrayNext
<1>2. ASSUME NEW n \in Node, PluginStep(n) \/ Request(n) \/ Environment(n) PROVE CoverParts'
  BY <1>2, CoverPlugin, CoverRequest, CoverEnvironment
<1>3. UNCHANGED vars => CoverParts'
  BY SameCover DEF vars
<1> QED BY <1>1, <1>2, <1>3 DEF OwnerInv, Next

-----------------------------------------------------------------------------
(* Theorems                                                                *)

\* The inductive invariant: the tags cover whoever loaded the pool or is about
\* to, and what the lock holder has audited stays true, through lock expiry,
\* partitions, crashes, reboots, takeovers and both operator recoveries.
THEOREM OwnerInvariant == Spec => []OwnerInv
<1>1. Init => OwnerInv
  BY HeldInit, CoverInit DEF OwnerInv
<1>2. OwnerInv /\ [Next]_vars => OwnerInv'
  BY OwnerInductive
<1> QED BY <1>1, <1>2, PTL DEF Spec

\* What the lock protects holds next to mappers that others than the plugin
\* load at any time.
THEOREM OwnerHeldInvariant == StraySpec => []HeldInv
<1>1. HeldInv /\ [StrayNext]_vars => HeldInv'
  BY HeldInductive
<1> QED BY <1>1, HeldInit, PTL DEF StraySpec

\* Every variable of the owner model keeps its type.
THEOREM OwnerTypes == Spec => []TypeOK
<1>1. OwnerInv => TypeOK
  BY DEF OwnerInv, HeldInv
<1> QED BY <1>1, OwnerInvariant, PTL

\* A dm-thin pool is loaded in one kernel: without HA takeover whatever becomes
\* of the lock, but for kernels whose tags a recovery cleared after it had lost
\* the lock; with the LeaseGuard audits, HA takeover included, among the kernels
\* that loaded it under the lock.
THEOREM OwnerSingleKernel == Spec => []SingleKernel
<1>1. OwnerInv => SingleKernel
  <2> SUFFICES ASSUME OwnerInv PROVE SingleKernel
    OBVIOUS
  <2>1. mapper \subseteq Node
    BY DEF OwnerInv, HeldInv, TypeOK
  <2>2. ~TakeoverEnabled => \A m, n \in mapper \ unlocked.clears : m = n
    BY <2>1 DEF OwnerInv, CoverParts, OneCommitted, Committed
  <2>3. LeaseMode # "disabled" => \A m, n \in mapper \ unlocked.loads : m = n
    BY DEF OwnerInv, HeldInv, HeldParts, OneAudited
  <2> QED BY <2>2, <2>3 DEF SingleKernel
<1> QED BY <1>1, OwnerInvariant, PTL

\* Without HA takeover a loaded pool's node is on its durable tags until the
\* mapper is gone, unless a recovery without the lock removed it.
THEOREM OwnerCovers == Spec => []OwnerCoversRuntime
<1>1. OwnerInv => OwnerCoversRuntime
  BY DEF OwnerInv, HeldInv, TypeOK, CoverParts, TagCover, Committed, OwnerCoversRuntime
<1> QED BY <1>1, OwnerInvariant, PTL

\* The tags never hold two claims that were both made under the lock.
THEOREM OwnerUnambiguous == StraySpec => []TagsUnambiguous
<1>1. HeldInv => TagsUnambiguous
  <2> SUFFICES ASSUME HeldInv PROVE Cardinality(tags.nodes \ unlocked.claims) <= 1
    BY DEF TagsUnambiguous
  <2> DEFINE S == tags.nodes \ unlocked.claims
  <2>1. \A m, n \in S : m = n
    BY DEF HeldInv, HeldParts, OneClaim
  <2>2. CASE S = {}
    BY <2>2, FS_EmptySet
  <2>3. CASE S # {}
    <3>1. PICK m \in S : S = {m}
      BY <2>1, <2>3
    <3> HIDE DEF S
    <3>2. Cardinality(S) = 1
      BY <3>1, FS_Singleton
    <3> QED BY <3>2 DEF S
  <2> QED BY <2>2, <2>3
<1> QED BY <1>1, OwnerHeldInvariant, PTL

\* With a LeaseGuard mode, an activation under the lock never loads the pool
\* beside a kernel that had it loaded when the commit barrier asked.
THEOREM OwnerNeverJoins ==
    ASSUME LeaseMode # "disabled"
    PROVE  StraySpec => ConflictNeverJoined
<1> DEFINE Joins == \A n \in Node :
             pc[n] = "lvchange" /\ lock = n /\ n \in mapper' \ mapper => mapper \subseteq late
<1>1. HeldInv => Joins
  <2> SUFFICES ASSUME HeldInv, NEW n \in Node, pc[n] = "lvchange", lock = n, n \notin mapper
               PROVE  mapper \subseteq late
    OBVIOUS
  <2>1. /\ Node \ {n} \subseteq reg[n].seen
        /\ reg[n].seen \cap mapper \subseteq late \cap unlocked.loads
    BY DEF HeldInv, HeldParts, Audited
  <2> QED BY <2>1 DEF HeldInv, TypeOK
<1>2. HeldInv /\ [StrayNext]_vars => [Joins]_vars
  BY <1>1
<1> QED BY <1>2, OwnerHeldInvariant, PTL DEF StraySpec, ConflictNeverJoined

=============================================================================
