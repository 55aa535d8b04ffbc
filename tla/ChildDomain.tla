----------------------------- MODULE ChildDomain -----------------------------
(***************************************************************************)
(* Accounting for everything the launcher's child may have started         *)
(* (prelive_descendant_accounting) and the bridge that lets it begin       *)
(* (DescendantBridge of prelive_descendant_bridge).                        *)
(*                                                                         *)
(* The launcher made itself a subreaper before its only fork: whoever      *)
(* loses its parent becomes the launcher's child.  Once the leader was     *)
(* reaped by its owner, and only then, the domain looks for any waitable   *)
(* child without reaping it, pins it by a pidfd, compares, and reaps that  *)
(* one.  No child at all (ECHILD) is the end.  The processes meanwhile     *)
(* fork, exit and wait for each other as they please.                      *)
(***************************************************************************)
EXTENDS Integers, Sequences, FiniteSets

CONSTANTS
    Leader,               \* the child the launcher forked
    Descendants,          \* processes it may start, directly or not
    DeadlineNs,           \* deadline_ns of the domain, in ticks
    MAX_ADOPTED_RECORDS,
    MaxFaults             \* bound: failing or disturbed calls in one behaviour

Processes == {Leader} \cup Descendants

ASSUME DomainAssumption ==
    /\ Leader \notin Descendants /\ IsFiniteSet(Descendants)
    /\ "launcher" \notin Processes /\ "init" \notin Processes
    /\ DeadlineNs \in Nat \ {0}
    /\ MAX_ADOPTED_RECORDS \in Nat /\ MaxFaults \in Nat

VARIABLES
    clock, faults,
    proc,        \* each process: "unborn", "running", "zombie" or "gone"
    parent,      \* whose child it is: a process, "launcher", or "init"
    subreaper,   \* PR_SET_CHILD_SUBREAPER of the launcher
    domain,      \* state of ChildDomain
    pending,     \* the step under way: what it found and how far it got
    records,     \* adopted children it accounted for
    bridge,      \* state of DescendantBridge
    settlement   \* of the leader: "NONE", "REAPED_EOF", "UNSETTLED", "TAKEN"

procVars == <<proc, parent>>
vars == <<clock, faults, proc, parent, subreaper, domain, pending, records, bridge, settlement>>

Idle == [at |-> "idle", pid |-> Leader, pidfd |-> "none"]

Children == {p \in Processes : parent[p] = "launcher" /\ proc[p] \in {"running", "zombie"}}

\* A status that says the process is over.
_terminal(p) == proc[p] = "zombie"
Waitable == {p \in Children : _terminal(p)}

InTime == clock < DeadlineNs
Working == UNCHANGED faults
Failing == faults < MaxFaults /\ faults' = faults + 1

-----------------------------------------------------------------------------
(***************************************************************************)
(* The processes.                                                          *)
(***************************************************************************)
\* Who inherits the children of a process that exits.
Reaper == IF subreaper THEN "launcher" ELSE "init"

Forks(p, d) ==
    /\ proc[p] = "running" /\ proc[d] = "unborn" /\ d # Leader
    /\ proc' = [proc EXCEPT ![d] = "running"]
    /\ parent' = [parent EXCEPT ![d] = p]
    /\ Working
    /\ UNCHANGED <<clock, subreaper, domain, pending, records, bridge, settlement>>

Exits(p) ==
    /\ proc[p] = "running"
    /\ proc' = [proc EXCEPT ![p] = IF parent[p] = "init" THEN "gone" ELSE "zombie"]
    /\ parent' = [q \in Processes |-> IF parent[q] = p THEN Reaper ELSE parent[q]]
    /\ Working
    /\ UNCHANGED <<clock, subreaper, domain, pending, records, bridge, settlement>>

\* A parent that is still running waits for its own child.
ParentWaits(p, d) ==
    /\ proc[p] = "running" /\ parent[d] = p /\ proc[d] = "zombie"
    /\ proc' = [proc EXCEPT ![d] = "gone"]
    /\ Working
    /\ UNCHANGED <<clock, parent, subreaper, domain, pending, records, bridge, settlement>>

Tick ==
    /\ clock < DeadlineNs
    /\ clock' = clock + 1
    /\ UNCHANGED <<faults, proc, parent, subreaper, domain, pending, records, bridge, settlement>>

-----------------------------------------------------------------------------
(***************************************************************************)
(* The leader: forked once, attached, reaped by its own settlement.        *)
(***************************************************************************)
\* No child before, PR_SET_CHILD_SUBREAPER and its readback, no child after.
prepare_child_domain ==
    /\ domain = "NONE" /\ InTime /\ Children = {}
    /\ Working
    /\ subreaper' = TRUE
    /\ domain' = "PREPARED"
    /\ UNCHANGED <<clock, proc, parent, pending, records, bridge, settlement>>

PreparationFails ==
    /\ domain = "NONE"
    /\ Failing
    /\ subreaper' \in BOOLEAN
    /\ domain' = "UNKNOWN_PREPARATION"
    /\ UNCHANGED <<clock, proc, parent, pending, records, bridge, settlement>>

\* One enrollment, reserved before the fork it is for.
reserve_bridge_enrollment == domain = "PREPARED" /\ bridge = "NONE"

prepare_domain_enrollment ==
    /\ reserve_bridge_enrollment
    /\ Working
    /\ bridge' = "ENROLLED"
    /\ UNCHANGED <<clock, proc, parent, subreaper, domain, pending, records, settlement>>

LauncherForks ==
    /\ bridge = "ENROLLED" /\ proc[Leader] = "unborn"
    /\ Working
    /\ proc' = [proc EXCEPT ![Leader] = "running"]
    /\ UNCHANGED <<clock, parent, subreaper, domain, pending, records, bridge, settlement>>

claim_launcher == domain = "PREPARED" /\ domain' = "LAUNCHER_CLAIMED"

\* The adapter of the leader is bound, and its capture is not under way.
enroll_descendant == proc[Leader] # "unborn" /\ settlement = "NONE"

NewBridge == "ATTACHED"

\* Before the leader's exit is observed; the enrollment is used up either way.
attach_owned_domain ==
    /\ bridge = "ENROLLED" /\ domain = "PREPARED" /\ enroll_descendant
    /\ \/ Working /\ claim_launcher /\ bridge' = NewBridge
       \/ Failing /\ domain' = "UNKNOWN" /\ UNCHANGED bridge
    /\ UNCHANGED <<clock, proc, parent, subreaper, pending, records, settlement>>

\* The exact reap of the leader, with both streams at their end or not.
SettlementEnds ==
    /\ settlement = "NONE" /\ proc[Leader] = "zombie" /\ bridge = NewBridge
    /\ \/ /\ Working
          /\ proc' = [proc EXCEPT ![Leader] = "gone"]
          /\ settlement' = "REAPED_EOF"
       \/ /\ Failing
          /\ proc' \in {proc, [proc EXCEPT ![Leader] = "gone"]}
          /\ settlement' = "UNSETTLED"
    /\ UNCHANGED <<clock, parent, subreaper, domain, pending, records, bridge>>

-----------------------------------------------------------------------------
(***************************************************************************)
(* advance_descendant_domain: at most one step of the domain per call.     *)
(***************************************************************************)
_poison == bridge' = "UNKNOWN" /\ domain' = "UNKNOWN"

\* The claim is made for the leader the domain was claimed with.
_leader_reap_claim == domain = "LAUNCHER_CLAIMED"

accept_leader_reap == _leader_reap_claim /\ domain' = "DRAINING"

advance_bridge_clock_watermark == domain = "LAUNCHER_CLAIMED" /\ InTime

\* The adapter hands over the one exact reap it holds.
take_exact_leader_reap ==
    /\ settlement = "REAPED_EOF" /\ proc[Leader] = "gone"
    /\ settlement' = "TAKEN"

\* What was handed over is still what the bridge was attached to.
_validate_transferred_chain == settlement = "TAKEN" /\ proc[Leader] = "gone"

\* The first call: both capabilities of the settlement are taken, once.
HandsOver ==
    /\ bridge = NewBridge /\ settlement # "NONE"
    /\ Working
    /\ IF settlement = "REAPED_EOF" /\ advance_bridge_clock_watermark
       THEN take_exact_leader_reap /\ accept_leader_reap /\ bridge' = "ADVANCING"
       ELSE _poison /\ UNCHANGED settlement
    /\ UNCHANGED <<clock, proc, parent, subreaper, pending, records>>

advance_descendant_domain ==
    /\ bridge = "DRAINING" /\ _validate_transferred_chain
    /\ Working
    /\ bridge' = "ADVANCING"
    /\ UNCHANGED <<clock, proc, parent, subreaper, domain, pending, records, settlement>>

\* Every exception of a step ends in UNKNOWN, and so does the bridge; an open
\* pidfd is closed on the way out.
_unknown ==
    /\ domain' = "UNKNOWN" /\ bridge' = "UNKNOWN"
    /\ pending' = [pending EXCEPT !.at = "unknown",
                                  !.pidfd = IF @ = "open" THEN "closed" ELSE @]

InStep(at) == domain = "STEPPING" /\ bridge = "ADVANCING" /\ pending.at = at

StepUnchanged == <<clock, parent, subreaper, settlement>>

\* Mutant: the identity is compared again, the clock is not.
ContinuesUnclocked(action) == action

\* _continuity: still the subreaper, and nobody else reaps.
_continuity == subreaper

\* _continuity and _clock around each call.
Continues(action) == IF _continuity /\ InTime THEN action ELSE _unknown

StepBegins ==
    /\ domain = "DRAINING" /\ bridge = "ADVANCING" /\ _validate_transferred_chain
    /\ Working
    /\ domain' = "STEPPING"
    /\ pending' = [Idle EXCEPT !.at = "discover"]
    /\ UNCHANGED <<proc, records, bridge>> /\ UNCHANGED StepUnchanged

\* Mutant: no waitable child is taken for no child.
WaitNoneIsEmpty ==
    /\ InStep("discover")
    /\ Working
    /\ \/ Waitable = {} /\ pending' = [pending EXCEPT !.at = "echild"]
       \/ \E p \in Waitable : pending' = [pending EXCEPT !.at = "found", !.pid = p]
    /\ UNCHANGED <<proc, domain, records, bridge>> /\ UNCHANGED StepUnchanged

\* Mutant: WNOWAIT is missing.
WaitConsumes ==
    /\ InStep("discover")
    /\ Working
    /\ \/ Children = {} /\ pending' = [pending EXCEPT !.at = "echild"] /\ UNCHANGED proc
       \/ /\ Children # {} /\ Waitable = {}
          /\ pending' = [pending EXCEPT !.at = "none"] /\ UNCHANGED proc
       \/ \E p \in Waitable :
            /\ pending' = [pending EXCEPT !.at = "found", !.pid = p]
            /\ proc' = [proc EXCEPT ![p] = "gone"]
    /\ UNCHANGED <<domain, records, bridge>> /\ UNCHANGED StepUnchanged

\* waitid(P_ALL, WEXITED | WNOHANG | WNOWAIT | __WALL).
wait_all_wall_wnowait ==
    /\ InStep("discover")
    /\ Working
    /\ \/ Children = {} /\ pending' = [pending EXCEPT !.at = "echild"]
       \/ Children # {} /\ Waitable = {} /\ pending' = [pending EXCEPT !.at = "none"]
       \/ \E p \in Waitable : pending' = [pending EXCEPT !.at = "found", !.pid = p]
    /\ UNCHANGED <<proc, domain, records, bridge>> /\ UNCHANGED StepUnchanged

StepDrained ==
    /\ InStep("echild")
    /\ Working
    /\ Continues(domain' = "DRAINED" /\ bridge' = "DOMAIN_DRAINED" /\ pending' = Idle)
    /\ UNCHANGED <<proc, records>> /\ UNCHANGED StepUnchanged

StepPending ==
    /\ InStep("none")
    /\ Working
    /\ Continues(domain' = "DRAINING" /\ bridge' = "DRAINING" /\ pending' = Idle)
    /\ UNCHANGED <<proc, records>> /\ UNCHANGED StepUnchanged

\* Mutant: one record too many.
StepPinsBeyond ==
    /\ InStep("found")
    /\ Working
    /\ IF InTime /\ Len(records) <= MAX_ADOPTED_RECORDS /\ _terminal(pending.pid)
       THEN /\ pending' = [pending EXCEPT !.at = "pinned", !.pidfd = "open"]
            /\ UNCHANGED <<domain, bridge>>
       ELSE _unknown
    /\ UNCHANGED <<proc, records>> /\ UNCHANGED StepUnchanged

\* Room for one more record, the identity, the pidfd, the identity again, and
\* the same status through the pidfd.
StepPins ==
    /\ InStep("found")
    /\ Working
    /\ IF InTime /\ Len(records) < MAX_ADOPTED_RECORDS /\ _terminal(pending.pid)
       THEN /\ pending' = [pending EXCEPT !.at = "pinned", !.pidfd = "open"]
            /\ UNCHANGED <<domain, bridge>>
       ELSE _unknown
    /\ UNCHANGED <<proc, records>> /\ UNCHANGED StepUnchanged

\* Mutant: the final wait still says WNOWAIT.
StepPeeks ==
    /\ InStep("pinned")
    /\ Working
    /\ IF InTime
       THEN pending' = [pending EXCEPT !.at = "reaped"] /\ UNCHANGED <<domain, bridge>>
       ELSE _unknown
    /\ UNCHANGED <<proc, records>> /\ UNCHANGED StepUnchanged

StepReaps ==
    /\ InStep("pinned")
    /\ Working
    /\ IF InTime
       THEN /\ proc' = [proc EXCEPT ![pending.pid] = "gone"]
            /\ pending' = [pending EXCEPT !.at = "reaped"]
            /\ UNCHANGED <<domain, bridge>>
       ELSE _unknown /\ UNCHANGED proc
    /\ UNCHANGED records /\ UNCHANGED StepUnchanged

\* The pidfd is closed before the record is kept.
StepRecords ==
    /\ InStep("reaped")
    /\ Working
    /\ IF InTime
       THEN /\ records' = Append(records, pending.pid)
            /\ domain' = "DRAINING" /\ bridge' = "DRAINING" /\ pending' = Idle
       ELSE _unknown /\ UNCHANGED records
    /\ UNCHANGED proc /\ UNCHANGED StepUnchanged

\* Any call of the step fails; a failed reap may have reaped, and a failed
\* close leaves the descriptor unknown.
StepFails ==
    /\ domain = "STEPPING" /\ bridge = "ADVANCING"
    /\ Failing
    /\ domain' = "UNKNOWN" /\ bridge' = "UNKNOWN"
    /\ pending' = [pending EXCEPT !.at = "unknown",
                                  !.pidfd = IF @ = "open" THEN "unknown" ELSE @]
    /\ \/ UNCHANGED proc
       \/ pending.at = "pinned" /\ proc' = [proc EXCEPT ![pending.pid] = "gone"]
    /\ UNCHANGED records /\ UNCHANGED StepUnchanged

\* A call back into the step or the bridge while a step runs: refused, and
\* what it was called on is unknown when the outer call goes on.
Reentered ==
    /\ domain = "STEPPING" /\ bridge = "ADVANCING"
    /\ Failing
    /\ _unknown
    /\ UNCHANGED <<proc, records>> /\ UNCHANGED StepUnchanged

-----------------------------------------------------------------------------
Init ==
    /\ clock = 0 /\ faults = 0
    /\ proc = [p \in Processes |-> "unborn"]
    /\ parent = [p \in Processes |-> "launcher"]
    /\ subreaper = FALSE
    /\ domain = "NONE" /\ pending = Idle /\ records = <<>>
    /\ bridge = "NONE" /\ settlement = "NONE"

Launcher ==
    \/ prepare_child_domain \/ prepare_domain_enrollment \/ LauncherForks
    \/ attach_owned_domain \/ SettlementEnds
    \/ HandsOver \/ advance_descendant_domain
    \/ StepBegins \/ wait_all_wall_wnowait \/ StepDrained \/ StepPending
    \/ StepPins \/ StepReaps \/ StepRecords

World ==
    \/ \E p \in Processes, d \in Descendants : Forks(p, d)
    \/ \E p \in Processes : Exits(p)
    \/ \E p \in Processes, d \in Processes : ParentWaits(p, d)

Next == Launcher \/ World \/ Tick \/ PreparationFails \/ StepFails \/ Reentered

\* The launcher keeps calling and time passes; no process need ever exit.
Spec == Init /\ [][Next]_vars /\ WF_vars(Launcher /\ Working) /\ WF_vars(Tick)

-----------------------------------------------------------------------------
(***************************************************************************)
(* Properties.                                                             *)
(***************************************************************************)
\* Type invariant of the domain, the bridge and the processes.
TypeOK ==
    /\ clock \in 0..DeadlineNs /\ faults \in 0..MaxFaults
    /\ proc \in [Processes -> {"unborn", "running", "zombie", "gone"}]
    /\ parent \in [Processes -> Processes \cup {"launcher", "init"}]
    /\ subreaper \in BOOLEAN
    /\ domain \in {"NONE", "PREPARED", "UNKNOWN_PREPARATION", "LAUNCHER_CLAIMED",
                   "DRAINING", "STEPPING", "DRAINED", "UNKNOWN"}
    /\ pending \in [at : {"idle", "discover", "echild", "none", "found", "pinned",
                          "reaped", "unknown"},
                    pid : Processes, pidfd : {"none", "open", "closed", "unknown"}]
    /\ records \in Seq(Processes) /\ Len(records) <= MAX_ADOPTED_RECORDS
    /\ bridge \in {"NONE", "ENROLLED", "ATTACHED", "ADVANCING", "DRAINING",
                   "DOMAIN_DRAINED", "UNKNOWN"}
    /\ settlement \in {"NONE", "REAPED_EOF", "UNSETTLED", "TAKEN"}

\* A drained domain is empty for good: the leader and whatever it started, at
\* any depth and however orphaned, are gone, and nobody is left to fork.
DrainedIsTrue ==
    domain = "DRAINED" => \A p \in Processes : proc[p] \in {"unborn", "gone"}

\* Each adopted child is recorded once, after it was reaped, and the leader,
\* which its own settlement reaps, never is.
RecordsExact ==
    /\ \A i, j \in 1..Len(records) : records[i] = records[j] => i = j
    /\ \A i \in 1..Len(records) : records[i] # Leader /\ proc[records[i]] = "gone"

\* The domain consumes no status before the leader's own reap, and afterwards
\* only that of the child the step has pinned.
OnlyPinnedReaped ==
    [][\A p \in Processes :
        (proc[p] = "zombie" /\ proc'[p] = "gone" /\ parent[p] = "launcher")
            => \/ p = Leader /\ settlement = "NONE"
               \/ p = pending.pid /\ pending.pidfd = "open" /\ settlement = "TAKEN"]_vars

\* Once the leader is settled the drain ends, in a drained domain or in
\* UNKNOWN, even when a descendant never exits.
DrainEnds == (settlement # "NONE") ~> domain \in {"DRAINED", "UNKNOWN"}
==============================================================================
