-------------------------- MODULE ChildDomainProofs --------------------------
(***************************************************************************)
(* Proofs about ChildDomain: for any number of descendants, however they   *)
(* fork, exit and wait for each other, any deadline and any record limit.  *)
(*                                                                         *)
(* DrainedIsTrue says that ECHILD, an answer about the launcher's own      *)
(* children, speaks for all descendants.  What carries it is the shape of  *)
(* the process tree: a living process is the child of a running one or of  *)
(* the launcher (Orphans), and no set of living processes is closed under  *)
(* parenthood (Rooted).  Then the set of all living processes, if it were  *)
(* not empty, would hold a child of the launcher.                          *)
(***************************************************************************)
EXTENDS ChildDomain, TLAPS

Alive == {p \in Processes : proc[p] \in {"running", "zombie"}}

\* Nobody is left, and the one process that could still be forked is over.
AllGone == Alive = {} /\ proc[Leader] = "gone"

\* The launcher is the subreaper from before its fork.
Reaping ==
    /\ domain \in {"NONE", "UNKNOWN_PREPARATION"} => bridge = "NONE"
    /\ domain = "PREPARED" => subreaper
    /\ bridge # "NONE" => subreaper
    /\ bridge = "NONE" => \A p \in Processes : proc[p] = "unborn"

\* Only a running process has children of its own, and init has none.
Orphans ==
    \A q \in Processes :
        \/ parent[q] = "launcher"
        \/ parent[q] \in Processes /\ proc[parent[q]] = "running"

Rooted == \A S \in SUBSET Alive : S # {} => \E p \in S : parent[p] \notin S

\* The domain works only after the leader's reap was handed over.
HandedOver ==
    /\ settlement = "TAKEN" => proc[Leader] = "gone"
    /\ domain \in {"DRAINING", "STEPPING", "DRAINED"} => settlement = "TAKEN"

\* What the step under way has found is still so.
StepHolds ==
    /\ domain = "STEPPING" =>
        /\ pending.at = "echild" => AllGone
        /\ pending.at \in {"found", "pinned"} =>
              proc[pending.pid] = "zombie" /\ parent[pending.pid] = "launcher"
        /\ pending.at = "pinned" => pending.pidfd = "open"
        /\ pending.at \in {"pinned", "reaped"} => Len(records) < MAX_ADOPTED_RECORDS
        /\ pending.at = "reaped" =>
              /\ proc[pending.pid] = "gone" /\ pending.pid # Leader
              /\ \A i \in 1..Len(records) : records[i] # pending.pid
    /\ domain = "DRAINED" => AllGone

Strengthening ==
    Reaping /\ Orphans /\ Rooted /\ HandedOver /\ StepHolds /\ RecordsExact

DomainInv == TypeOK /\ Strengthening

-----------------------------------------------------------------------------
(* The process tree                                                        *)

LEMMA InitHolds == Init => DomainInv
<1> SUFFICES ASSUME Init PROVE DomainInv
  OBVIOUS
<1>a. DeadlineNs \in Nat /\ MaxFaults \in Nat /\ MAX_ADOPTED_RECORDS \in Nat /\ Leader \in Processes
  BY DomainAssumption DEF Processes
<1>b. clock \in 0..DeadlineNs /\ faults \in 0..MaxFaults
  BY <1>a DEF Init
<1>c. records \in Seq(Processes) /\ Len(records) <= MAX_ADOPTED_RECORDS
  BY <1>a DEF Init
<1>1. TypeOK
  BY <1>a, <1>b, <1>c DEF Init, TypeOK, Idle
<1>2. Alive = {}
  BY DEF Init, Alive
<1>3. Reaping /\ Orphans /\ HandedOver /\ StepHolds /\ RecordsExact
  BY DEF Init, Reaping, Orphans, HandedOver, StepHolds, RecordsExact, Idle
<1>4. Rooted
  BY <1>2 DEF Rooted
<1> QED BY <1>1, <1>3, <1>4 DEF DomainInv, Strengthening

\* Processes that end leave the tree rooted.
LEMMA RootedShrinks ==
    ASSUME Rooted, parent' = parent, Alive' \subseteq Alive
    PROVE  Rooted'
BY DEF Rooted

\* A process that had no children and is nobody's ancestor joins as a leaf.
LEMMA RootedGrows ==
    ASSUME Rooted, NEW d \in Processes,
           Alive' = Alive \cup {d},
           \A q \in Processes : q # d => parent'[q] = parent[q],
           \A q \in Processes : parent[q] # d,
           parent'[d] # d
    PROVE  Rooted'
<1> SUFFICES ASSUME NEW S \in SUBSET (Alive'), S # {}
             PROVE  \E p \in S : parent'[p] \notin S
  BY DEF Rooted
<1> DEFINE T == S \ {d}
<1>1. CASE T = {}
  <2>1. S = {d}
    BY <1>1
  <2> QED BY <2>1
<1>2. CASE T # {}
  <2>1. T \in SUBSET Alive
    OBVIOUS
  <2>2. PICK p \in T : parent[p] \notin T
    BY <1>2, <2>1 DEF Rooted
  <2>3. p \in Processes /\ p # d /\ p \in S
    BY <2>1 DEF Alive
  <2>4. parent'[p] \notin S
    BY <2>2, <2>3
  <2> QED BY <2>3, <2>4
<1> QED BY <1>1, <1>2

\* ECHILD speaks for every descendant.
LEMMA NoChildNobody ==
    ASSUME TypeOK, Orphans, Rooted, Children = {}
    PROVE  Alive = {}
<1> SUFFICES ASSUME Alive # {} PROVE FALSE
  OBVIOUS
<1>1. PICK p \in Alive : parent[p] \notin Alive
  BY DEF Rooted
<1>2. parent[p] = "launcher"
  BY <1>1 DEF Orphans, Alive
<1>3. p \in Children
  BY <1>2 DEF Alive, Children
<1> QED BY <1>3

-----------------------------------------------------------------------------
(* The processes and the clock                                             *)

LEMMA ForksHolds ==
    ASSUME DomainInv, NEW p \in Processes, NEW d \in Descendants, Forks(p, d)
    PROVE  DomainInv'
<1> USE DEF DomainInv, Strengthening
<1>1. p \in Processes /\ d \in Processes /\ p # d /\ p # "launcher"
  BY DomainAssumption DEF Processes, Forks
<1>2. TypeOK'
  BY <1>1 DEF Forks, TypeOK, Working
<1>3. \A q \in Processes : parent[q] # d
  BY <1>1, DomainAssumption DEF Orphans, Forks
<1>4. Alive' = Alive \cup {d}
  BY <1>1 DEF Forks, TypeOK, Alive
<1>5. Rooted'
  <2>1. \A q \in Processes : q # d => parent'[q] = parent[q]
    BY DEF Forks, TypeOK
  <2>2. parent'[d] # d
    BY <1>1 DEF Forks, TypeOK
  <2> QED BY <1>1, <1>3, <1>4, <2>1, <2>2, RootedGrows
<1>6. p \in Alive
  BY DEF Forks, Alive
<1>7. Reaping'
  BY <1>1 DEF Reaping, Forks, TypeOK
<1>8. Orphans'
  BY <1>1, <1>3 DEF Orphans, Forks, TypeOK
<1>9. HandedOver'
  BY <1>1 DEF HandedOver, Forks, TypeOK
<1>10. StepHolds'
  BY <1>1, <1>6 DEF StepHolds, Forks, TypeOK, AllGone
<1>11. RecordsExact'
  BY <1>1 DEF RecordsExact, Forks, TypeOK
<1> QED BY <1>2, <1>5, <1>7, <1>8, <1>9, <1>10, <1>11

LEMMA ExitsHolds ==
    ASSUME DomainInv, NEW p \in Processes, Exits(p)
    PROVE  DomainInv'
<1> USE DEF DomainInv, Strengthening
<1>1. Reaper = "launcher" /\ "launcher" \notin Processes /\ parent[p] # "init"
  <2>1. bridge # "NONE"
    BY DEF Exits, Reaping
  <2>2. subreaper
    BY <2>1 DEF Reaping
  <2> QED BY <2>2, DomainAssumption DEF Reaper, Orphans
<1>2. proc' = [proc EXCEPT ![p] = "zombie"]
  BY <1>1 DEF Exits
<1>3. parent' = [q \in Processes |-> IF parent[q] = p THEN "launcher" ELSE parent[q]]
  BY <1>1 DEF Exits
<1>4. TypeOK'
  BY <1>2, <1>3 DEF Exits, TypeOK, Working
<1>5. Alive' = Alive
  BY <1>2 DEF Exits, TypeOK, Alive
<1>6. Rooted'
  <2> SUFFICES ASSUME NEW S \in SUBSET Alive, S # {}
               PROVE  \E q \in S : parent'[q] \notin S
    BY <1>5 DEF Rooted
  <2>1. PICK q \in S : parent[q] \notin S
    BY DEF Rooted
  <2>2. q \in Processes /\ "launcher" \notin S
    BY <1>1 DEF Alive
  <2>3. parent'[q] \notin S
    BY <1>3, <2>1, <2>2
  <2> QED BY <2>3
<1>7. p \in Alive
  BY DEF Exits, Alive
<1>8. Reaping'
  BY <1>2 DEF Reaping, Exits, TypeOK
<1>9. Orphans'
  BY <1>1, <1>2, <1>3 DEF Orphans, Exits, TypeOK
<1>10. HandedOver'
  BY <1>2 DEF HandedOver, Exits, TypeOK
<1>11. StepHolds'
  BY <1>1, <1>2, <1>3, <1>5, <1>7 DEF StepHolds, Exits, TypeOK, AllGone
<1>12. RecordsExact'
  BY <1>2 DEF RecordsExact, Exits, TypeOK
<1> QED BY <1>4, <1>6, <1>8, <1>9, <1>10, <1>11, <1>12

LEMMA ParentWaitsHolds ==
    ASSUME DomainInv, NEW p \in Processes, NEW d \in Processes, ParentWaits(p, d)
    PROVE  DomainInv'
<1> USE DEF DomainInv, Strengthening
<1>1. p # "launcher" /\ p # d
  BY DomainAssumption DEF ParentWaits
<1>2. TypeOK'
  BY DEF ParentWaits, TypeOK, Working
<1>3. Alive' = Alive \ {d} /\ d \in Alive
  BY DEF ParentWaits, TypeOK, Alive
<1>4. Rooted'
  BY <1>3, RootedShrinks DEF ParentWaits
<1>5. Reaping'
  BY DEF Reaping, ParentWaits, TypeOK
<1>6. Orphans'
  BY DEF Orphans, ParentWaits, TypeOK
<1>7. HandedOver'
  BY DEF HandedOver, ParentWaits, TypeOK
<1>8. StepHolds'
  BY <1>1, <1>3 DEF StepHolds, ParentWaits, TypeOK, AllGone
<1>9. RecordsExact'
  BY DEF RecordsExact, ParentWaits, TypeOK
<1> QED BY <1>2, <1>4, <1>5, <1>6, <1>7, <1>8, <1>9

\* Nothing but the clock, the faults, or nothing at all.
LEMMA ClockHolds ==
    ASSUME DomainInv, TypeOK',
           UNCHANGED <<proc, parent, subreaper, domain, pending, records, bridge, settlement>>
    PROVE  DomainInv'
BY DEF DomainInv, Strengthening, Reaping, Orphans, Rooted, HandedOver, StepHolds,
       RecordsExact, Alive, AllGone

-----------------------------------------------------------------------------
(* The leader and the bridge                                               *)

\* The tree is as it was.
LEMMA SameTree ==
    ASSUME Orphans, Rooted, UNCHANGED procVars
    PROVE  Orphans' /\ Rooted' /\ Alive' = Alive /\ AllGone' = AllGone
BY DEF Orphans, Rooted, Alive, AllGone, procVars

LEMMA PreludeTypes ==
    ASSUME DomainInv,
           \/ prepare_child_domain \/ PreparationFails \/ prepare_domain_enrollment
           \/ attach_owned_domain \/ HandsOver \/ advance_descendant_domain
    PROVE  TypeOK' /\ UNCHANGED procVars /\ UNCHANGED <<pending, records>>
<1> USE DEF DomainInv, Strengthening, TypeOK, procVars, Working, Failing
<1>1. CASE prepare_child_domain \/ prepare_domain_enrollment
  BY <1>1 DEF prepare_child_domain, prepare_domain_enrollment
<1>0. CASE PreparationFails
  BY <1>0, DomainAssumption DEF PreparationFails
<1>2. CASE attach_owned_domain
  BY <1>2, DomainAssumption DEF attach_owned_domain, claim_launcher, NewBridge
<1>3. CASE HandsOver \/ advance_descendant_domain
  BY <1>3 DEF HandsOver, advance_descendant_domain, take_exact_leader_reap,
     accept_leader_reap, _poison
<1> QED BY <1>0, <1>1, <1>2, <1>3

LEMMA PreludeHolds ==
    ASSUME DomainInv,
           \/ prepare_child_domain \/ PreparationFails \/ prepare_domain_enrollment
           \/ attach_owned_domain \/ HandsOver \/ advance_descendant_domain
    PROVE  DomainInv'
<1> USE DEF DomainInv, Strengthening
<1>1. /\ TypeOK' /\ UNCHANGED procVars /\ UNCHANGED <<pending, records>>
      /\ Orphans' /\ Rooted' /\ AllGone' = AllGone
  BY PreludeTypes, SameTree
<1>2. RecordsExact'
  BY <1>1 DEF RecordsExact, procVars
<1>3. CASE prepare_child_domain \/ PreparationFails \/ prepare_domain_enrollment
  BY <1>1, <1>2, <1>3 DEF prepare_child_domain, PreparationFails,
     prepare_domain_enrollment, reserve_bridge_enrollment, Reaping, HandedOver,
     StepHolds, procVars
<1>4. CASE attach_owned_domain
  BY <1>1, <1>2, <1>4 DEF attach_owned_domain, claim_launcher, NewBridge, Reaping,
     HandedOver, StepHolds, procVars
<1>5. CASE HandsOver
  BY <1>1, <1>2, <1>5 DEF HandsOver, take_exact_leader_reap, accept_leader_reap,
     _leader_reap_claim, _poison, NewBridge, Reaping, HandedOver, StepHolds, procVars
<1>6. CASE advance_descendant_domain
  BY <1>1, <1>2, <1>6 DEF advance_descendant_domain, Reaping, HandedOver, StepHolds,
     procVars
<1> QED BY <1>3, <1>4, <1>5, <1>6

LEMMA LauncherForksHolds ==
    ASSUME DomainInv, LauncherForks
    PROVE  DomainInv'
<1> USE DEF DomainInv, Strengthening
<1>1. Leader \in Processes
  BY DEF Processes
<1>2. TypeOK'
  BY <1>1 DEF LauncherForks, TypeOK, Working
<1>3. \A q \in Processes : parent[q] # Leader
  BY <1>1, DomainAssumption DEF Orphans, LauncherForks
<1>4. Alive' = Alive \cup {Leader}
  BY <1>1 DEF LauncherForks, TypeOK, Alive
<1>5. Rooted'
  BY <1>1, <1>3, <1>4, RootedGrows DEF LauncherForks
<1>6. Reaping'
  BY <1>1 DEF Reaping, LauncherForks, TypeOK
<1>7. Orphans'
  BY <1>1, <1>3 DEF Orphans, LauncherForks, TypeOK
<1>8. HandedOver'
  BY <1>1 DEF HandedOver, LauncherForks, TypeOK
<1>9. StepHolds'
  BY <1>1, <1>8 DEF StepHolds, HandedOver, LauncherForks, TypeOK, AllGone
<1>10. RecordsExact'
  BY <1>1 DEF RecordsExact, LauncherForks, TypeOK
<1> QED BY <1>2, <1>5, <1>6, <1>7, <1>8, <1>9, <1>10

\* One process that was over and unreaped is reaped; the tree loses a leaf.
LEMMA ReapedTree ==
    ASSUME DomainInv, NEW z \in Processes, proc[z] = "zombie", parent' = parent,
           proc' = [proc EXCEPT ![z] = "gone"]
    PROVE  /\ Orphans' /\ Rooted'
           /\ Alive' = Alive \ {z} /\ z \in Alive
           /\ proc' \in [Processes -> {"unborn", "running", "zombie", "gone"}]
<1> USE DEF DomainInv, Strengthening
<1>1. Alive' = Alive \ {z} /\ z \in Alive
  BY DEF TypeOK, Alive
<1>2. Rooted'
  BY <1>1, RootedShrinks
<1>3. Orphans'
  BY DEF Orphans, TypeOK
<1>4. proc' \in [Processes -> {"unborn", "running", "zombie", "gone"}]
  BY DEF TypeOK
<1> QED BY <1>1, <1>2, <1>3, <1>4

LEMMA SettlementHolds ==
    ASSUME DomainInv, SettlementEnds
    PROVE  DomainInv'
<1> USE DEF DomainInv, Strengthening
<1>1. Leader \in Processes /\ proc[Leader] = "zombie" /\ parent' = parent /\ settlement = "NONE"
  BY DEF Processes, SettlementEnds
<1>2. proc' = proc \/ proc' = [proc EXCEPT ![Leader] = "gone"]
  BY DEF SettlementEnds
<1>3. settlement' \in {"REAPED_EOF", "UNSETTLED"} /\ bridge = "ATTACHED"
  BY DEF SettlementEnds, NewBridge
<1>4. Orphans' /\ Rooted' /\ proc' \in [Processes -> {"unborn", "running", "zombie", "gone"}]
  BY <1>1, <1>2, ReapedTree, SameTree DEF procVars, TypeOK
<1>5. faults' \in 0..MaxFaults
  BY DomainAssumption DEF SettlementEnds, Working, Failing, TypeOK
<1>6. TypeOK'
  BY <1>3, <1>4, <1>5 DEF SettlementEnds, TypeOK
<1>7. Reaping'
  BY <1>3 DEF Reaping, SettlementEnds
<1>8. domain \notin {"DRAINING", "STEPPING", "DRAINED"}
  BY <1>1 DEF HandedOver
<1>9. HandedOver' /\ StepHolds'
  BY <1>3, <1>8 DEF HandedOver, StepHolds, SettlementEnds
<1>10. RecordsExact'
  BY <1>1, <1>2 DEF RecordsExact, SettlementEnds, TypeOK
<1> QED BY <1>4, <1>6, <1>7, <1>9, <1>10

-----------------------------------------------------------------------------
(* The steps of the drain                                                  *)

\* A step that leaves the processes and the records alone.
LEMMA QuietStep ==
    ASSUME DomainInv,
           UNCHANGED <<proc, parent, records, clock, subreaper, settlement>>,
           faults' \in 0..MaxFaults,
           domain \in {"DRAINING", "STEPPING"}, bridge = "ADVANCING",
           domain' \in {"DRAINING", "STEPPING", "DRAINED", "UNKNOWN"},
           bridge' \in {"ADVANCING", "DRAINING", "DOMAIN_DRAINED", "UNKNOWN"},
           pending' \in [at : {"idle", "discover", "echild", "none", "found", "pinned",
                               "reaped", "unknown"},
                         pid : Processes, pidfd : {"none", "open", "closed", "unknown"}],
           StepHolds'
    PROVE  DomainInv'
<1> USE DEF DomainInv, Strengthening
<1>1. TypeOK'
  BY DEF TypeOK
<1>2. Orphans' /\ Rooted'
  BY SameTree DEF procVars
<1>3. Reaping' /\ HandedOver'
  BY DEF Reaping, HandedOver
<1>4. RecordsExact'
  BY DEF RecordsExact
<1> QED BY <1>1, <1>2, <1>3, <1>4

LEMMA PendingTypes ==
    ASSUME TypeOK
    PROVE  /\ Leader \in Processes
           /\ Idle \in [at : {"idle", "discover", "echild", "none", "found", "pinned",
                               "reaped", "unknown"},
                         pid : Processes, pidfd : {"none", "open", "closed", "unknown"}]
           /\ pending.pid \in Processes
BY DEF TypeOK, Idle, Processes

\* A step that becomes unknown, whatever it was at.
LEMMA UnknownHolds ==
    ASSUME DomainInv, domain = "STEPPING", bridge = "ADVANCING", _unknown,
           UNCHANGED <<proc, parent, records, clock, subreaper, settlement>>,
           faults' \in 0..MaxFaults
    PROVE  DomainInv'
<1>1. StepHolds'
  BY DEF _unknown, StepHolds
<1>2. pending' \in [at : {"idle", "discover", "echild", "none", "found", "pinned",
                          "reaped", "unknown"},
                    pid : Processes, pidfd : {"none", "open", "closed", "unknown"}]
  BY DEF _unknown, DomainInv, TypeOK
<1> QED BY <1>1, <1>2, QuietStep DEF _unknown

LEMMA BeginsHolds ==
    ASSUME DomainInv, StepBegins
    PROVE  DomainInv'
<1> USE DEF DomainInv
<1>1. pending'.at = "discover" /\ domain' = "STEPPING"
  BY DEF StepBegins, Idle
<1>2. StepHolds'
  BY <1>1 DEF StepHolds
<1>3. pending' \in [at : {"idle", "discover", "echild", "none", "found", "pinned",
                          "reaped", "unknown"},
                    pid : Processes, pidfd : {"none", "open", "closed", "unknown"}]
  BY PendingTypes DEF StepBegins, Idle
<1> QED BY <1>2, <1>3, QuietStep DEF StepBegins, StepUnchanged, Working, TypeOK

LEMMA WaitHolds ==
    ASSUME DomainInv, wait_all_wall_wnowait
    PROVE  DomainInv'
<1> USE DEF DomainInv, Strengthening
<1>1. /\ domain = "STEPPING" /\ bridge = "ADVANCING" /\ UNCHANGED <<domain, bridge>>
      /\ UNCHANGED <<proc, parent, records, clock, subreaper, settlement, faults>>
  BY DEF wait_all_wall_wnowait, InStep, StepUnchanged, Working
<1>2. proc[Leader] = "gone" /\ Alive' = Alive
  BY <1>1 DEF HandedOver, Alive
<1>3. CASE Children = {} /\ pending' = [pending EXCEPT !.at = "echild"]
  <2>1. Alive = {}
    BY <1>3, NoChildNobody
  <2>2. pending'.at = "echild"
    BY <1>3 DEF TypeOK
  <2>3. StepHolds'
    BY <1>1, <1>2, <2>1, <2>2 DEF StepHolds, AllGone
  <2> QED BY <1>1, <1>3, <2>3, QuietStep DEF TypeOK
<1>4. CASE pending' = [pending EXCEPT !.at = "none"]
  <2>1. StepHolds'
    BY <1>1, <1>4 DEF StepHolds, TypeOK
  <2> QED BY <1>1, <1>4, <2>1, QuietStep DEF TypeOK
<1>5. CASE \E p \in Waitable : pending' = [pending EXCEPT !.at = "found", !.pid = p]
  <2>1. PICK p \in Waitable : pending' = [pending EXCEPT !.at = "found", !.pid = p]
    BY <1>5
  <2>2. p \in Processes /\ proc[p] = "zombie" /\ parent[p] = "launcher"
    BY DEF Waitable, Children, _terminal
  <2>3. pending'.at = "found" /\ pending'.pid = p
    BY <2>1 DEF TypeOK
  <2>4. StepHolds'
    BY <1>1, <2>2, <2>3 DEF StepHolds
  <2> QED BY <1>1, <2>1, <2>2, <2>4, QuietStep DEF TypeOK
<1> QED BY <1>3, <1>4, <1>5 DEF wait_all_wall_wnowait

LEMMA DecidesHolds ==
    ASSUME DomainInv, StepDrained \/ StepPending \/ Reentered
    PROVE  DomainInv'
<1> USE DEF DomainInv, Strengthening
<1>1. /\ domain = "STEPPING" /\ bridge = "ADVANCING"
      /\ UNCHANGED <<proc, parent, records, clock, subreaper, settlement>>
      /\ faults' \in 0..MaxFaults
  BY DomainAssumption DEF StepDrained, StepPending, Reentered, InStep, StepUnchanged,
     Working, Failing, TypeOK
<1>2. CASE _unknown
  BY <1>1, <1>2, UnknownHolds
<1>3. CASE StepDrained /\ ~_unknown
  <2>1. domain' = "DRAINED" /\ bridge' = "DOMAIN_DRAINED" /\ pending' = Idle
    BY <1>3 DEF StepDrained, Continues
  <2>2. AllGone'
    BY <1>1, <1>3 DEF StepDrained, InStep, StepHolds, AllGone, Alive
  <2>3. StepHolds'
    BY <2>1, <2>2 DEF StepHolds
  <2> QED BY <1>1, <2>1, <2>3, PendingTypes, QuietStep
<1>4. CASE StepPending /\ ~_unknown
  <2>1. domain' = "DRAINING" /\ bridge' = "DRAINING" /\ pending' = Idle
    BY <1>4 DEF StepPending, Continues
  <2>2. StepHolds'
    BY <2>1 DEF StepHolds
  <2> QED BY <1>1, <2>1, <2>2, PendingTypes, QuietStep
<1> QED BY <1>2, <1>3, <1>4 DEF Reentered

LEMMA PinsHolds ==
    ASSUME DomainInv, StepPins
    PROVE  DomainInv'
<1> USE DEF DomainInv, Strengthening
<1>1. /\ domain = "STEPPING" /\ bridge = "ADVANCING" /\ pending.at = "found"
      /\ UNCHANGED <<proc, parent, records, clock, subreaper, settlement, faults>>
  BY DEF StepPins, InStep, StepUnchanged, Working
<1>2. CASE _unknown
  BY <1>1, <1>2, UnknownHolds DEF TypeOK
<1>3. CASE ~_unknown
  <2>1. /\ pending' = [pending EXCEPT !.at = "pinned", !.pidfd = "open"]
        /\ UNCHANGED <<domain, bridge>> /\ Len(records) < MAX_ADOPTED_RECORDS
    BY <1>3 DEF StepPins
  <2>2. pending'.at = "pinned" /\ pending'.pidfd = "open" /\ pending'.pid = pending.pid
    BY <2>1 DEF TypeOK
  <2>3. StepHolds'
    BY <1>1, <2>1, <2>2 DEF StepHolds
  <2> QED BY <1>1, <2>1, <2>3, QuietStep DEF TypeOK
<1> QED BY <1>2, <1>3

\* The pinned child, which is not the leader, is reaped.
LEMMA PinnedReaped ==
    ASSUME DomainInv, domain = "STEPPING", pending.at = "pinned",
           proc' = [proc EXCEPT ![pending.pid] = "gone"], parent' = parent,
           UNCHANGED <<records, clock, subreaper, settlement>>,
           faults' \in 0..MaxFaults, bridge = "ADVANCING",
           \/ UNCHANGED <<domain, bridge>> /\ pending' = [pending EXCEPT !.at = "reaped"]
           \/ /\ domain' = "UNKNOWN" /\ bridge' = "UNKNOWN"
              /\ pending' = [pending EXCEPT !.at = "unknown",
                                            !.pidfd = IF @ = "open" THEN "unknown" ELSE @]
    PROVE  DomainInv'
<1> USE DEF DomainInv, Strengthening
<1>1. /\ pending.pid \in Processes /\ proc[pending.pid] = "zombie"
      /\ proc[Leader] = "gone" /\ pending.pid # Leader
  BY PendingTypes DEF StepHolds, HandedOver
<1>2. Orphans' /\ Rooted' /\ proc' \in [Processes -> {"unborn", "running", "zombie", "gone"}]
  BY <1>1, ReapedTree
<1>3. TypeOK'
  BY <1>2 DEF TypeOK
<1>4. Reaping'
  BY DEF Reaping
<1>5. HandedOver'
  BY <1>1, PendingTypes DEF HandedOver, TypeOK
<1>6. RecordsExact'
  BY <1>1 DEF RecordsExact, TypeOK
<1>7. StepHolds'
  <2>1. \A i \in 1..Len(records) : records[i] # pending.pid
    BY <1>1 DEF RecordsExact
  <2>2. CASE pending' = [pending EXCEPT !.at = "reaped"]
    <3>1. pending'.at = "reaped" /\ pending'.pid = pending.pid /\ proc'[pending.pid] = "gone"
      BY <1>1, <2>2 DEF TypeOK
    <3>2. domain' # "DRAINED" /\ Len(records) < MAX_ADOPTED_RECORDS
      BY DEF StepHolds
    <3> QED BY <1>1, <2>1, <3>1, <3>2 DEF StepHolds
  <2>3. CASE domain' = "UNKNOWN"
    BY <2>3 DEF StepHolds
  <2> QED BY <2>2, <2>3
<1> QED BY <1>2, <1>3, <1>4, <1>5, <1>6, <1>7

LEMMA ReapsHolds ==
    ASSUME DomainInv, StepReaps
    PROVE  DomainInv'
<1> USE DEF DomainInv
<1>1. /\ domain = "STEPPING" /\ bridge = "ADVANCING" /\ pending.at = "pinned"
      /\ UNCHANGED <<parent, records, clock, subreaper, settlement, faults>>
      /\ faults' \in 0..MaxFaults
  BY DEF StepReaps, InStep, StepUnchanged, Working, TypeOK
<1>2. CASE InTime
  BY <1>1, <1>2, PinnedReaped DEF StepReaps
<1>3. CASE ~InTime
  BY <1>1, <1>3, UnknownHolds DEF StepReaps
<1> QED BY <1>2, <1>3

LEMMA RecordsHolds ==
    ASSUME DomainInv, StepRecords
    PROVE  DomainInv'
<1> USE DEF DomainInv, Strengthening
<1>1. /\ domain = "STEPPING" /\ bridge = "ADVANCING" /\ pending.at = "reaped"
      /\ UNCHANGED <<proc, parent, clock, subreaper, settlement, faults>>
  BY DEF StepRecords, InStep, StepUnchanged, Working
<1>2. CASE ~InTime
  BY <1>1, <1>2, UnknownHolds DEF StepRecords, TypeOK
<1>3. CASE InTime
  <2>1. /\ records' = Append(records, pending.pid) /\ pending' = Idle
        /\ domain' = "DRAINING" /\ bridge' = "DRAINING"
    BY <1>3 DEF StepRecords
  <2>2. /\ pending.pid \in Processes /\ pending.pid # Leader /\ proc[pending.pid] = "gone"
        /\ Len(records) < MAX_ADOPTED_RECORDS
        /\ \A i \in 1..Len(records) : records[i] # pending.pid
    BY <1>1, PendingTypes DEF StepHolds
  <2>3. records' \in Seq(Processes) /\ Len(records') <= MAX_ADOPTED_RECORDS
    BY <2>1, <2>2, DomainAssumption DEF TypeOK
  <2>4. TypeOK'
    BY <1>1, <2>1, <2>3, PendingTypes DEF TypeOK
  <2>5. Reaping' /\ HandedOver' /\ StepHolds'
    BY <1>1, <2>1 DEF Reaping, HandedOver, StepHolds
  <2>6. Orphans' /\ Rooted'
    BY <1>1, SameTree DEF procVars
  <2>7. RecordsExact'
    BY <1>1, <2>1, <2>2 DEF RecordsExact, TypeOK
  <2> QED BY <2>4, <2>5, <2>6, <2>7
<1> QED BY <1>2, <1>3

LEMMA FailsHolds ==
    ASSUME DomainInv, StepFails
    PROVE  DomainInv'
<1> USE DEF DomainInv
<1>1. /\ domain = "STEPPING" /\ bridge = "ADVANCING"
      /\ UNCHANGED <<parent, records, clock, subreaper, settlement>>
      /\ faults' \in 0..MaxFaults
      /\ domain' = "UNKNOWN" /\ bridge' = "UNKNOWN"
      /\ pending' = [pending EXCEPT !.at = "unknown",
                                    !.pidfd = IF @ = "open" THEN "unknown" ELSE @]
  BY DomainAssumption DEF StepFails, StepUnchanged, Failing, TypeOK
<1>2. CASE proc' = proc
  <2>1. StepHolds'
    BY <1>1 DEF StepHolds
  <2> QED BY <1>1, <1>2, <2>1, QuietStep DEF TypeOK
<1>3. CASE pending.at = "pinned" /\ proc' = [proc EXCEPT ![pending.pid] = "gone"]
  BY <1>1, <1>3, PinnedReaped
<1> QED BY <1>2, <1>3 DEF StepFails

LEMMA DomainInductive ==
    ASSUME DomainInv, [Next]_vars
    PROVE  DomainInv'
<1>1. ASSUME World PROVE DomainInv'
  BY <1>1, ForksHolds, ExitsHolds, ParentWaitsHolds DEF World
<1>2. ASSUME Tick PROVE DomainInv'
  <2>1. TypeOK'
    BY <1>2, DomainAssumption DEF Tick, DomainInv, TypeOK
  <2> QED BY <1>2, <2>1, ClockHolds DEF Tick
<1>3. ASSUME UNCHANGED vars PROVE DomainInv'
  <2>1. TypeOK'
    BY <1>3 DEF vars, DomainInv, TypeOK
  <2> QED BY <1>3, <2>1, ClockHolds DEF vars
<1>4. ASSUME Launcher PROVE DomainInv'
  BY <1>4, PreludeHolds, LauncherForksHolds, SettlementHolds, BeginsHolds, WaitHolds,
     DecidesHolds, PinsHolds, ReapsHolds, RecordsHolds DEF Launcher
<1> QED
  BY <1>1, <1>2, <1>3, <1>4, PreludeHolds, FailsHolds, DecidesHolds DEF Next

\* What may become gone in one step of the launcher.
LEMMA PinnedStep ==
    ASSUME DomainInv, Next, NEW p \in Processes,
           proc[p] = "zombie", proc'[p] = "gone", parent[p] = "launcher"
    PROVE  \/ p = Leader /\ settlement = "NONE"
           \/ p = pending.pid /\ pending.pidfd = "open" /\ settlement = "TAKEN"
<1> USE DEF DomainInv, Strengthening
<1>1. CASE World
  BY <1>1, DomainAssumption DEF World, Forks, Exits, ParentWaits, TypeOK
<1>2. CASE SettlementEnds
  BY <1>2 DEF SettlementEnds, TypeOK
<1>3. CASE StepReaps \/ StepFails
  <2>1. domain = "STEPPING" /\ pending.at = "pinned" /\ p = pending.pid
    BY <1>3 DEF StepReaps, StepFails, InStep, TypeOK, _unknown
  <2> QED BY <2>1 DEF StepHolds, HandedOver
<1>4. CASE LauncherForks
  BY <1>4 DEF LauncherForks, TypeOK
<1>5. CASE UNCHANGED proc
  BY <1>5
<1>6. World \/ SettlementEnds \/ StepReaps \/ StepFails \/ LauncherForks \/ UNCHANGED proc
  BY DEF Next, Launcher, Tick, PreparationFails, Reentered, prepare_child_domain,
     prepare_domain_enrollment, attach_owned_domain, HandsOver,
     advance_descendant_domain, StepBegins, wait_all_wall_wnowait, StepDrained,
     StepPending, StepPins, StepRecords
<1> QED BY <1>1, <1>2, <1>3, <1>4, <1>5, <1>6

-----------------------------------------------------------------------------
(* Theorems                                                                *)

\* Every reachable state of ChildDomain and DescendantBridge satisfies the
\* inductive invariant.
THEOREM DomainInvariant == Spec => []DomainInv
<1>1. DomainInv /\ [Next]_vars => DomainInv'
  BY DomainInductive
<1> QED BY <1>1, InitHolds, PTL DEF Spec

\* The domain's state keeps its types, and its records their limit, however
\* many children ChildDomain.step adopts.
THEOREM DomainTypes == Spec => []TypeOK
<1>1. DomainInv => TypeOK
  BY DEF DomainInv
<1> QED BY <1>1, DomainInvariant, PTL

\* A domain that ChildDomain.step calls DRAINED has no process left, at any
\* depth of the tree the leader started and in any order of exits.
THEOREM DomainDrained == Spec => []DrainedIsTrue
<1>1. DomainInv => DrainedIsTrue
  BY DEF DomainInv, Strengthening, StepHolds, AllGone, Alive, TypeOK, DrainedIsTrue
<1> QED BY <1>1, DomainInvariant, PTL

\* The records ChildDomain.step keeps are exact: each adopted child once, reaped,
\* and never the leader.
THEOREM DomainRecords == Spec => []RecordsExact
<1>1. DomainInv => RecordsExact
  BY DEF DomainInv, Strengthening
<1> QED BY <1>1, DomainInvariant, PTL

\* No status is consumed but the leader's, by its own settlement, and that of
\* the child the step has pinned by a pidfd.
THEOREM DomainOnlyPinned == Spec => OnlyPinnedReaped
<1> DEFINE Pinned ==
      \A p \in Processes :
        (proc[p] = "zombie" /\ proc'[p] = "gone" /\ parent[p] = "launcher")
            => \/ p = Leader /\ settlement = "NONE"
               \/ p = pending.pid /\ pending.pidfd = "open" /\ settlement = "TAKEN"
<1>1. DomainInv /\ Next => Pinned
  BY PinnedStep
<1>2. DomainInv /\ [Next]_vars => [Pinned]_vars
  BY <1>1
<1> QED BY <1>2, DomainInvariant, PTL DEF Spec, OnlyPinnedReaped
=============================================================================
