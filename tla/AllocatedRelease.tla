-------------------------- MODULE AllocatedRelease --------------------------
(***************************************************************************)
(* The descendant branch of a no-grant attempt (prelive_descendant_bridge, *)
(* prelive_allocated_abort_protocol and the prelive_allocated_release and  *)
(* resource_plan modules).  A domain composed with the graph before the    *)
(* fork is attached before the grant writer closes; after the exact reap   *)
(* its hard limit is narrowed to the cleanup deadline, the settlement and  *)
(* the leader's reap are handed to it, it takes one drain step, and a      *)
(* drained domain carries the attempt through one status read, the         *)
(* protocol match, the release inputs, the deadline and the resource plan. *)
(*                                                                         *)
(* Every operation takes the one capability its predecessor minted.  The   *)
(* clock, the status read and the drain step are calls of an injected      *)
(* backend: while one runs, the backend may call back into the operation.  *)
(***************************************************************************)
EXTENDS AbortAttempt

VARIABLES
    dom,      \* ChildDomain of the launcher: state and deadline
    rel       \* the operations after the drain step, each by its state

releaseVars == <<attemptVars, dom, rel>>

NoDomain == [state |-> "NONE", deadline |-> 0]

NoRelease ==
    [step |-> "NONE", status |-> "NONE", read |-> "UNREAD", protocol |-> "NONE",
     inputs |-> "NONE", deadline |-> "NONE", plan |-> "NONE"]

\* prepare_child_domain ran when the domain was enrolled, with the hard limit
\* as its deadline; poisoning the enrollment poisons the domain.
DomainFollows ==
    dom' = CASE enrol.domain = "NONE" /\ enrol'.domain = "READY" ->
                    [state |-> "PREPARED", deadline |-> HardLimit]
             [] enrol'.domain = "UNKNOWN" -> [dom EXCEPT !.state = "UNKNOWN"]
             [] OTHER -> dom

Shared(state) == [enrol EXCEPT !.domain = state]

\* A lifecycle that was bound, or bound and reaped, has claimed its origin.
_strict_allocated_fork_lifecycle(life) ==
    own.life = life /\ life \in {"PIDFD_BOUND", "OWNED_LEADER_REAPED_ONLY"}

\* The fork of this attempt, over the graph it was bound to, and a domain that
\* has its first deadline.
_validate_forked(shared, state, life) ==
    /\ ~att.poisoned /\ att.fork_attempted
    /\ enrol.domain = shared /\ enrol.state = "BOUND" /\ enrol.ticket
    /\ dom.state = state /\ dom.deadline = HardLimit
    /\ _strict_allocated_fork_lifecycle(life)

\* A failed operation of the bridge poisons the domain, the graph, the
\* adapter with the pidfd under it, and the attempt.
BridgePoison ==
    /\ enrol' = PoisonEnrollment(enrol)
    /\ dom' = [dom EXCEPT !.state = "UNKNOWN"]
    /\ att' = _poison(att)
    /\ AdapterPoison

BridgeUnchanged == <<clock, alive, fds, pipe, graph, record, child, holder, capt, rel>>

-----------------------------------------------------------------------------
(***************************************************************************)
(* prelive_descendant_bridge.                                              *)
(***************************************************************************)
\* The capture as it was bound: nothing monitored, read or observed yet.
CaptureFrozen ==
    /\ capt.state = "BOUND" /\ ~capt.active /\ ~capt.used /\ capt.eof = {}
    /\ adp.state = "PRIMARY" /\ ~adp.cached /\ own.state = "BOUND"

\* The adapter is enrolled, the launcher claimed and the attachment published.
attach_allocated_owned_domain ==
    /\ InPhase("LINUX_CAPTURE_BOUND_UNARMED")
    /\ enrol.domain = "FORKED"
    /\ \/ /\ Working
          /\ CaptureChainIntact /\ CaptureFrozen
          /\ _validate_forked("FORKED", "PREPARED", "PIDFD_BOUND")
          /\ adp' = [adp EXCEPT !.binding = TRUE]
          /\ dom' = [dom EXCEPT !.state = "LAUNCHER_CLAIMED"]
          /\ enrol' = Shared("ATTACHED_HARD_LIMIT_ONLY")
          /\ UNCHANGED <<att, own>>
       \/ Failing /\ BridgePoison
    /\ UNCHANGED settle
    /\ UNCHANGED BridgeUnchanged

\* validate_allocated_attachment_phase over the reaped chain.
AttachmentReaped ==
    /\ ReapedChain /\ adp.binding
    /\ _validate_forked("ATTACHED_HARD_LIMIT_ONLY", "LAUNCHER_CLAIMED",
                        "OWNED_LEADER_REAPED_ONLY")

DeadlineBinding ==
    /\ InPhase("LINUX_LEADER_REAPED_UNQUALIFIED")
    /\ AttachmentReaped
    /\ Working
    /\ enrol' = Shared("DEADLINE_BINDING")
    /\ UNCHANGED <<att, own, adp, dom, settle>>
    /\ UNCHANGED BridgeUnchanged

\* What the clock callback may not have changed: the hard limit is still the
\* domain's, and the settlement's capability is still there to be taken.
BindingPreimage ==
    /\ dom.deadline = HardLimit /\ dom.state = "LAUNCHER_CLAIMED"
    /\ settle.reaped /\ ~settle.probe /\ capt.cap = "USED" /\ ~capt.failure

\* The clock returned: the chain is read again, then the deadline narrows.
bind_allocated_settlement_deadline ==
    /\ alive /\ enrol.domain = "DEADLINE_BINDING"
    /\ Working
    /\ IF ~att.poisoned /\ BindingPreimage /\ InCleanup
       THEN /\ dom' = [dom EXCEPT !.deadline = settle.deadline]
            /\ enrol' = Shared("DEADLINE_BOUND_NON_DRAINABLE")
            /\ UNCHANGED <<att, own, adp>>
       ELSE BridgePoison
    /\ UNCHANGED settle
    /\ UNCHANGED BridgeUnchanged

\* _validate_allocated_drain_chain: the settlement and its attempt are those
\* the deadline was bound for,
DrainProvenance ==
    /\ ~att.poisoned /\ att.state = "LINUX_LEADER_REAPED_UNQUALIFIED"
    /\ settle.reaped /\ dom.deadline = settle.deadline

\* and both capabilities of the leader are taken together or not at all.
LeaderCapability(transferred) ==
    /\ own.state = "REAPED" /\ own.life = "OWNED_LEADER_REAPED_ONLY"
    /\ adp.state = IF transferred THEN "DESCENDANT_HANDOFF" ELSE "REAPED"
    /\ settle.probe = transferred

DrainChain(transferred, state) ==
    /\ DrainProvenance /\ LeaderCapability(transferred) /\ ReapedGraph
    /\ dom.state = state

\* _validate_allocated_step_outer, around every call of the step's backend,
\* and the descriptors the step may not lose.
StepAuthority == DrainProvenance /\ LeaderCapability(TRUE)
StepGraph == ReapedGraph /\ capt.epoll = "open" /\ own.pidfd = "open"

InDomain == clock < dom.deadline

\* take_descendant_settlement_capability and take_exact_leader_reap: both are
\* gone before the clock is read.
DrainTransferring ==
    /\ InPhase("LINUX_LEADER_REAPED_UNQUALIFIED")
    /\ enrol.domain = "DEADLINE_BOUND_NON_DRAINABLE" /\ DrainChain(FALSE, "LAUNCHER_CLAIMED")
    /\ Working
    /\ settle' = [settle EXCEPT !.probe = TRUE]
    /\ adp' = [adp EXCEPT !.state = "DESCENDANT_HANDOFF"]
    /\ enrol' = Shared("DRAIN_TRANSFERRING")
    /\ UNCHANGED <<att, own, dom>>
    /\ UNCHANGED BridgeUnchanged

transfer_allocated_descendant_drain ==
    /\ alive /\ enrol.domain = "DRAIN_TRANSFERRING"
    /\ Working
    /\ IF DrainChain(TRUE, "LAUNCHER_CLAIMED") /\ InDomain
       THEN /\ dom' = [dom EXCEPT !.state = "DRAINING"]
            /\ enrol' = Shared("ALLOCATED_DRAIN_READY")
            /\ UNCHANGED <<att, own, adp>>
       ELSE BridgePoison
    /\ UNCHANGED settle
    /\ UNCHANGED BridgeUnchanged

StepBegins ==
    /\ InPhase("LINUX_LEADER_REAPED_UNQUALIFIED")
    /\ enrol.domain = "ALLOCATED_DRAIN_READY" /\ DrainChain(TRUE, "DRAINING")
    /\ Working
    /\ enrol' = Shared("DESCENDANT_STEP_ADVANCING")
    /\ dom' = [dom EXCEPT !.state = "STEPPING"]
    /\ rel' = [rel EXCEPT !.step = "ADVANCING"]
    /\ UNCHANGED <<clock, alive, fds, pipe, graph, record, child, holder,
                   own, adp, capt, settle, att>>

\* What the guarded backend answered the one discovery of ChildDomain.step.
StepOutcomes == {"DRAINED", "PENDING", "ADOPTED"}

StepState(outcome) == IF outcome = "DRAINED" THEN "DRAINED" ELSE "DRAINING"

\* Too late is UNKNOWN, and the attempt is not poisoned by it; a chain that
\* changed under the backend poisons everything.
advance_allocated_descendant_once ==
    /\ alive /\ rel.step = "ADVANCING"
    /\ Working
    /\ IF ~(StepAuthority /\ StepGraph)
       THEN /\ rel' = [rel EXCEPT !.step = "UNKNOWN"]
            /\ enrol' = PoisonEnrollment(enrol)
            /\ dom' = [dom EXCEPT !.state = "UNKNOWN"]
            /\ att' = _poison(att)
       ELSE IF ~InDomain
       THEN /\ rel' = [rel EXCEPT !.step = "UNKNOWN"]
            /\ enrol' = Shared("UNKNOWN")
            /\ dom' = [dom EXCEPT !.state = "UNKNOWN"]
            /\ UNCHANGED att
       ELSE /\ \E outcome \in StepOutcomes :
                    /\ rel' = [rel EXCEPT !.step = outcome]
                    /\ dom' = [dom EXCEPT !.state = StepState(outcome)]
                    /\ enrol' = Shared(IF outcome = "DRAINED"
                                       THEN "ALLOCATED_MODEL_DOMAIN_DRAINED_NONQUALIFIED"
                                       ELSE "ALLOCATED_STEP_NONQUALIFIED")
            /\ UNCHANGED att
    /\ UNCHANGED <<clock, alive, fds, pipe, graph, record, child, holder,
                   own, adp, capt, settle>>

-----------------------------------------------------------------------------
(***************************************************************************)
(* prelive_allocated_abort_protocol: one status read, then the match.      *)
(***************************************************************************)
\* The terminal evidence of a drained domain, unchanged since it was minted.
TerminalEvidence ==
    /\ StepAuthority /\ StepGraph /\ rel.step = "DRAINED" /\ dom.state = "DRAINED"
    /\ enrol.domain = "ALLOCATED_MODEL_DOMAIN_DRAINED_NONQUALIFIED"

ReleaseUnchanged ==
    <<clock, alive, fds, graph, enrol, record, child, holder, own, adp, capt, settle, dom>>

OperationPoison(operation) ==
    /\ rel' = [rel EXCEPT ![operation] = "UNKNOWN"]
    /\ att' = _poison(att)

StatusBegins ==
    /\ alive /\ TerminalEvidence /\ rel.status = "NONE"
    /\ Working
    /\ IF InDomain
       THEN rel' = [rel EXCEPT !.status = "OBSERVING"] /\ UNCHANGED att
       ELSE OperationPoison("status")
    /\ UNCHANGED pipe
    /\ UNCHANGED ReleaseUnchanged

\* Exactly one read, latched; an empty pipe that may still be written to is
\* an answer like any other.
ReadStatusOnce ==
    /\ alive /\ rel.status = "OBSERVING" /\ rel.read = "UNREAD"
    /\ Working
    /\ IF TerminalEvidence
       THEN /\ rel' = [rel EXCEPT !.read = ReadKind("status")]
            /\ pipe' = [pipe EXCEPT !["status"] = IF @ = <<>> THEN @ ELSE Tail(@)]
            /\ UNCHANGED att
       ELSE OperationPoison("status") /\ UNCHANGED pipe
    /\ UNCHANGED ReleaseUnchanged

observe_allocated_status_tail_once ==
    /\ alive /\ rel.status = "OBSERVING" /\ rel.read # "UNREAD"
    /\ Working
    /\ IF TerminalEvidence /\ InDomain
       THEN rel' = [rel EXCEPT !.status = rel.read] /\ UNCHANGED att
       ELSE OperationPoison("status")
    /\ UNCHANGED pipe
    /\ UNCHANGED ReleaseUnchanged

\* The status EOF evidence, still current.
StatusEof == TerminalEvidence /\ rel.status = "EOF"

\* _strict_protocol_match: the one completion of this capture was settled
\* normally and its capabilities are used up,
CompletionSettled ==
    /\ capt.cap = "USED" /\ capt.used /\ ~capt.failure
    /\ settle.outcome = "LEADER_REAPED_STREAMS_EOF" /\ settle.probe

\* and the exit and the two streams are those of the policy.
StreamsMatch == \A s \in Streams : s \in capt.eof /\ capt.data[s] = <<"C">>

\* Mutant: the exit status is left out of the match.
StreamsMatchAlone == StreamsMatch

AllocatedMatch == own.obs = EXIT_ABORT_EOF /\ StreamsMatch

\* One evaluation, over the status EOF it reserved.
_validate_protocol_evaluation(state) == StatusEof /\ rel.protocol = state

match_allocated_abort_protocol_once ==
    /\ alive /\ _validate_protocol_evaluation("NONE")
    /\ Working
    /\ CompletionSettled
    /\ rel' = [rel EXCEPT !.protocol = IF AllocatedMatch THEN "MATCH" ELSE "MISMATCH"]
    /\ UNCHANGED <<pipe, att>>
    /\ UNCHANGED ReleaseUnchanged

-----------------------------------------------------------------------------
(***************************************************************************)
(* Release inputs, release deadline, resource plan.                        *)
(***************************************************************************)
\* Each capability is current only while everything it rests on still is.
ProtocolCapability == _validate_protocol_evaluation("MATCH") /\ AllocatedMatch
InputsCapability == ProtocolCapability /\ rel.inputs = "QUALIFIED"
DeadlineCapability == InputsCapability /\ rel.deadline = "ADMITTED"

qualify_allocated_release_inputs_once ==
    /\ alive /\ ProtocolCapability /\ rel.inputs = "NONE"
    /\ Working
    /\ rel' = [rel EXCEPT !.inputs = "QUALIFIED"]
    /\ UNCHANGED <<pipe, att>>
    /\ UNCHANGED ReleaseUnchanged

DeadlineAdmitting ==
    /\ alive /\ InputsCapability /\ rel.deadline = "NONE"
    /\ Working
    /\ rel' = [rel EXCEPT !.deadline = "ADMITTING"]
    /\ UNCHANGED <<pipe, att>>
    /\ UNCHANGED ReleaseUnchanged

\* One clock: before the frozen times it is refused, after the deadline it is
\* expired, and neither poisons.
admit_allocated_release_deadline_once ==
    /\ alive /\ rel.deadline = "ADMITTING"
    /\ \/ /\ Working
          /\ IF InputsCapability
             THEN /\ rel' = [rel EXCEPT !.deadline = IF InDomain THEN "ADMITTED" ELSE "EXPIRED"]
                  /\ UNCHANGED att
             ELSE OperationPoison("deadline")
       \/ /\ Failing /\ InputsCapability
          /\ rel' = [rel EXCEPT !.deadline = "ROLLBACK_REFUSED"]
          /\ UNCHANGED att
    /\ UNCHANGED pipe
    /\ UNCHANGED ReleaseUnchanged

\* The descriptors the plan names, in the state it froze them in.
PlanResources == capt.epoll = "open" /\ own.pidfd = "open" /\ ReapedGraph

bind_allocated_resource_plan_once ==
    /\ alive /\ DeadlineCapability /\ rel.plan = "NONE"
    /\ Working
    /\ PlanResources
    /\ rel' = [rel EXCEPT !.plan = "BOUND"]
    /\ UNCHANGED <<pipe, att>>
    /\ UNCHANGED ReleaseUnchanged

\* An operation is called again from its own backend: it and the attempt are
\* poisoned, and the outer call finds that out when the backend returns.
Reentered ==
    /\ alive
    /\ Failing
    /\ \/ rel.status = "OBSERVING" /\ OperationPoison("status")
       \/ rel.deadline = "ADMITTING" /\ OperationPoison("deadline")
    /\ UNCHANGED pipe
    /\ UNCHANGED ReleaseUnchanged

\* advance_allocated_descendant_once called from the step's backend.
StepReentered ==
    /\ alive /\ rel.step = "ADVANCING"
    /\ Failing
    /\ enrol' = PoisonEnrollment(enrol)
    /\ dom' = [dom EXCEPT !.state = "UNKNOWN"]
    /\ att' = _poison(att)
    /\ UNCHANGED <<clock, alive, fds, pipe, graph, record, child, holder,
                   own, adp, capt, settle, rel>>

\* bind_allocated_settlement_deadline or transfer called from their clock.
BridgeReentered ==
    /\ alive /\ enrol.domain \in {"DEADLINE_BINDING", "DRAIN_TRANSFERRING"}
    /\ Failing
    /\ BridgePoison
    /\ UNCHANGED settle
    /\ UNCHANGED BridgeUnchanged

-----------------------------------------------------------------------------
ReleaseInit ==
    /\ AttemptInit
    /\ dom = NoDomain
    /\ rel = NoRelease

DescendantSteps ==
    \/ attach_allocated_owned_domain
    \/ DeadlineBinding \/ bind_allocated_settlement_deadline
    \/ DrainTransferring \/ transfer_allocated_descendant_drain
    \/ StepBegins \/ advance_allocated_descendant_once
    \/ BridgeReentered \/ StepReentered

QualifySteps ==
    \/ StatusBegins \/ ReadStatusOnce \/ observe_allocated_status_tail_once
    \/ match_allocated_abort_protocol_once
    \/ qualify_allocated_release_inputs_once
    \/ DeadlineAdmitting \/ admit_allocated_release_deadline_once
    \/ bind_allocated_resource_plan_once
    \/ Reentered

Below == AttemptNext /\ DomainFollows /\ UNCHANGED rel

ReleaseNext == Below \/ DescendantSteps \/ QualifySteps
=============================================================================
