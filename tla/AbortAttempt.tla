---------------------------- MODULE AbortAttempt ----------------------------
(***************************************************************************)
(* AbortForkAttempt on Linux: the one attempt a persisted INTENT allows.   *)
(* It forks once, binds the pidfd, closes the child's ends, waits for the  *)
(* ready byte, binds the capture, closes the grant writer without a byte,  *)
(* monitors, reaps, proves the status pipe empty and ended, and compares   *)
(* what it froze with the abort protocol.                                  *)
(*                                                                         *)
(* Each public method runs once, in this order; every check that fails in  *)
(* one poisons the attempt for good: UNKNOWN before the fork, and          *)
(* UNKNOWN_SURVIVOR after it, because a child may exist.                   *)
(***************************************************************************)
EXTENDS OwnedCapture

VARIABLE
    att       \* AbortForkAttempt

attemptVars == <<clock, faults, alive, fds, pipe, graph, enrol, record, child, holder,
                 own, adp, capt, settle, att>>

NoAttempt ==
    [state |-> "NONE", fork_attempted |-> FALSE, poisoned |-> FALSE,
     leader_reap_confirmed |-> FALSE, status |-> "UNREAD", evidence |-> "NONE"]

\* The order in which the launcher closes its copies of the child's ends.
PARENT_CLOSE_ROLES == <<"grant_child", "status_child", "stdout_child", "stderr_child">>

\* Mutant: what was poisoned is not told from what never forked.
PoisonPlain(a) == [a EXCEPT !.state = "UNKNOWN", !.poisoned = TRUE]

_poison(a) ==
    [a EXCEPT !.state = IF a.fork_attempted THEN "UNKNOWN_SURVIVOR" ELSE "UNKNOWN",
              !.poisoned = TRUE]

Phase(next) == [att EXCEPT !.state = next]

InPhase(state) == alive /\ att.state = state

Dead == {"NONE", "UNKNOWN", "UNKNOWN_SURVIVOR"}
Over == {"LINUX_MONITOR_FAILURE_UNSETTLED", "LINUX_REAP_UNKNOWN_RETAINED",
         "LINUX_STATUS_PROTOCOL_VIOLATION", "LINUX_ABORT_PROTOCOL_MISMATCH",
         "LINUX_ABORT_PROTOCOL_VERIFIED", "LINUX_ABORT_TERMINAL_RELEASE_CLAIMED"}

-----------------------------------------------------------------------------
(***************************************************************************)
(* Claim and fork.                                                         *)
(***************************************************************************)
\* The sealed bridge's receipt still names this request's record.
_validate_frozen == enrol.bound = "PERSISTED" /\ _strict_persistence_receipt

\* In time, on the graph that was bound, with its ticket unused.
_claim_after_persistence == InTime /\ GraphFresh(graph) /\ ~enrol.ticket

\* The persisted capability is claimed by one attempt.
ClaimAttempt ==
    /\ InPhase("NONE") /\ enrol.bound = "PERSISTED"
    /\ Working
    /\ IF _validate_frozen /\ _claim_after_persistence
       THEN /\ enrol' = [enrol EXCEPT !.bound = "CLAIMED"]
            /\ att' = Phase("READY_TO_FORK")
       ELSE /\ enrol' = [PoisonEnrollment(enrol) EXCEPT !.bound = "UNKNOWN"]
            /\ UNCHANGED att
    /\ UNCHANGED <<clock, alive, fds, pipe, graph, record, child, holder,
                   own, adp, capt, settle>>

\* The whole chain once more, without a callback, right before the fork.
_final_prefork_admission ==
    /\ GraphFresh(graph) /\ graph.claimed
    /\ enrol.state = "BOUND" /\ enrol.bound = "CLAIMED"
    /\ enrol.bridge = "SEALED_INTENT" /\ ~enrol.ticket

\* Mutant: the latch is left to the parent's side of a fork that returned.
PreflightUnlatched ==
    /\ InPhase("READY_TO_FORK")
    /\ Working
    /\ att' = IF InTime /\ _final_prefork_admission
              THEN Phase("LINUX_FORKING")
              ELSE _poison(att)
    /\ UNCHANGED <<clock, alive, fds, pipe, graph, enrol, record, child, holder,
                   own, adp, capt, settle>>

\* From here on a child may exist, whatever happens.
LinuxPreflight ==
    /\ InPhase("READY_TO_FORK")
    /\ Working
    /\ att' = IF InTime /\ _final_prefork_admission
              THEN [Phase("LINUX_FORKING") EXCEPT !.fork_attempted = TRUE]
              ELSE _poison(att)
    /\ UNCHANGED <<clock, alive, fds, pipe, graph, enrol, record, child, holder,
                   own, adp, capt, settle>>

\* record_allocated_descendant_fork_once, when a domain was composed.
ForkedDomain(e) ==
    [e EXCEPT !.ticket = TRUE,
              !.domain = IF @ = "READY" THEN "FORKED" ELSE @]

LinuxFork ==
    /\ InPhase("LINUX_FORKING")
    /\ Working
    /\ IF InTime /\ enrol.domain # "UNKNOWN"
       THEN /\ child' = Forked
            /\ fds' = [fds EXCEPT !["child"] = Inherited]
            /\ _record_owned_fork
            /\ enrol' = ForkedDomain(enrol)
            /\ att' = Phase("LINUX_BINDING_PIDFD")
       ELSE att' = _poison(att) /\ UNCHANGED <<child, fds, own, enrol>>
    /\ UNCHANGED <<clock, alive, pipe, graph, record, holder, adp, capt, settle>>

\* fork() itself fails, or what the parent does right after it.
LinuxForkFails ==
    /\ InPhase("LINUX_FORKING")
    /\ Failing
    /\ \/ UNCHANGED <<child, fds>>
       \/ child' = Forked /\ fds' = [fds EXCEPT !["child"] = Inherited]
    /\ att' = _poison(att)
    /\ UNCHANGED <<clock, alive, pipe, graph, enrol, record, holder,
                   own, adp, capt, settle>>

LinuxBind ==
    /\ InPhase("LINUX_BINDING_PIDFD")
    /\ Working
    /\ IF Running THEN bind_owned_pidfd ELSE BindUnknown
    /\ att' = IF Running /\ InTime THEN Phase("LINUX_PIDFD_BOUND_UNARMED") ELSE _poison(att)
    /\ UNCHANGED <<clock, alive, fds, pipe, graph, enrol, record, child, holder,
                   adp, capt, settle>>

-----------------------------------------------------------------------------
(***************************************************************************)
(* prepare_linux_capture_unarmed_once and the grant writer.                *)
(***************************************************************************)
BoundUnobserved == own.life = "PIDFD_BOUND" /\ own.state = "BOUND"

PrepareBegins ==
    /\ InPhase("LINUX_PIDFD_BOUND_UNARMED")
    /\ Working
    /\ att' = IF BoundUnobserved THEN Phase("LINUX_CLOSING_CHILD_ENDPOINTS") ELSE _poison(att)
    /\ UNCHANGED <<clock, alive, fds, pipe, graph, enrol, record, child, holder,
                   own, adp, capt, settle>>

ClosedInOrder(i) ==
    graph.closes = {PARENT_CLOSE_ROLES[j] : j \in 1..(i - 1)}

CloseChildEndpoint ==
    /\ InPhase("LINUX_CLOSING_CHILD_ENDPOINTS")
    /\ \E i \in 1..4 :
        /\ ClosedInOrder(i)
        /\ \/ /\ close_role_once(PARENT_CLOSE_ROLES[i])
              /\ att' = IF i = 4 THEN Phase("LINUX_WAITING_READY") ELSE att
           \/ CloseRoleFails(PARENT_CLOSE_ROLES[i]) /\ att' = _poison(att)
    /\ UNCHANGED <<clock, alive, pipe, enrol, record, child, holder,
                   own, adp, capt, settle>>

\* A read of up to two bytes: anything but the one ready byte is refused.
ReadReady ==
    /\ InPhase("LINUX_WAITING_READY")
    /\ Working
    /\ \/ /\ ~InTime \/ ReadKind("status") = "EOF"
          /\ att' = _poison(att) /\ UNCHANGED pipe
       \/ /\ InTime /\ ReadKind("status") = "DATA"
          /\ att' = IF pipe["status"] = <<"R">> THEN Phase("LINUX_READY") ELSE _poison(att)
          /\ pipe' = [pipe EXCEPT !["status"] =
                        IF Len(@) <= 2 THEN <<>> ELSE SubSeq(@, 3, Len(@))]
    /\ UNCHANGED <<clock, alive, fds, graph, enrol, record, child, holder,
                   own, adp, capt, settle>>

\* Capture pipes, adapter, attachment, and the clock after them.
BindCapture ==
    /\ InPhase("LINUX_READY")
    /\ Working
    /\ capt' = bind_capture_pipes
    /\ adp' = bind_capture_child_adapter
    /\ att' = IF InTime /\ BoundUnobserved
              THEN Phase("LINUX_CAPTURE_BOUND_UNARMED") ELSE _poison(att)
    /\ UNCHANGED <<clock, alive, fds, pipe, graph, enrol, record, child, holder,
                   own, settle>>

CaptureChainIntact ==
    /\ GraphIntact(graph) /\ graph.owned = ParentEnds
    /\ BoundUnobserved /\ capt.state = "BOUND" /\ adp.state = "PRIMARY"

GrantAdmission ==
    /\ InPhase("LINUX_CAPTURE_BOUND_UNARMED")
    /\ Working
    /\ att' = IF InTime /\ CaptureChainIntact
              THEN Phase("LINUX_CLOSING_GRANT_ZERO_WRITE") ELSE _poison(att)
    /\ UNCHANGED <<clock, alive, fds, pipe, graph, enrol, record, child, holder,
                   own, adp, capt, settle>>

\* The writer is closed without a byte ever written; then the clock again.
close_linux_grant_zero_write_once ==
    /\ InPhase("LINUX_CLOSING_GRANT_ZERO_WRITE")
    /\ \/ /\ close_role_once("grant_parent")
          /\ att' = IF InTime THEN Phase("LINUX_GRANT_WRITER_CLOSED_UNSETTLED")
                              ELSE _poison(att)
       \/ CloseRoleFails("grant_parent") /\ att' = _poison(att)
    /\ UNCHANGED <<clock, alive, pipe, enrol, record, child, holder,
                   own, adp, capt, settle>>

-----------------------------------------------------------------------------
(***************************************************************************)
(* monitor_linux_abort_unreaped_once and reap_linux_completion_once.  The  *)
(* loops themselves are MonitorNext and ReapNext of OwnedCapture.          *)
(***************************************************************************)
MonitorBegins ==
    /\ InPhase("LINUX_GRANT_WRITER_CLOSED_UNSETTLED")
    /\ Working
    /\ IF InTime
       THEN att' = Phase("LINUX_MONITORING_UNREAPED") /\ capt' = StartMonitor
       ELSE att' = _poison(att) /\ UNCHANGED capt
    /\ UNCHANGED <<clock, alive, fds, pipe, graph, enrol, record, child, holder,
                   own, adp, settle>>

MonitorOutcome ==
    CASE CompletionUnreaped -> Phase("LINUX_MONITOR_COMPLETE_UNREAPED")
      [] capt.failure       -> Phase("LINUX_MONITOR_FAILURE_UNSETTLED")
      [] OTHER              -> _poison(att)

monitor_linux_abort_unreaped_once ==
    /\ InPhase("LINUX_MONITORING_UNREAPED") /\ ~capt.active
    /\ Working
    /\ att' = MonitorOutcome
    /\ UNCHANGED <<clock, alive, fds, pipe, graph, enrol, record, child, holder,
                   own, adp, capt, settle>>

\* Mutant: the hard limit does not bound the cleanup.
CleanupUnbounded == clock + CleanupBudget

\* The cleanup deadline: a budget from now, inside the hard limit.
CleanupDeadline ==
    IF clock + CleanupBudget < HardLimit THEN clock + CleanupBudget ELSE HardLimit

ReapAdmission ==
    /\ InPhase("LINUX_MONITOR_COMPLETE_UNREAPED")
    /\ Working
    /\ IF CompletionUnreaped /\ clock < CleanupDeadline
       THEN ConsumeCompletion(CleanupDeadline) /\ att' = Phase("LINUX_REAPING_COMPLETION")
       ELSE att' = _poison(att) /\ UNCHANGED <<capt, settle>>
    /\ UNCHANGED <<clock, alive, fds, pipe, graph, enrol, record, child, holder, own, adp>>

reap_linux_completion_once ==
    /\ InPhase("LINUX_REAPING_COMPLETION") /\ capt.state # "SETTLING"
    /\ Working
    /\ att' = [att EXCEPT
                 !.leader_reap_confirmed = settle.reaped,
                 !.state = IF settle.outcome = "LEADER_REAPED_STREAMS_EOF"
                           THEN "LINUX_LEADER_REAPED_UNQUALIFIED"
                           ELSE "LINUX_REAP_UNKNOWN_RETAINED"]
    /\ UNCHANGED <<clock, alive, fds, pipe, graph, enrol, record, child, holder,
                   own, adp, capt, settle>>

-----------------------------------------------------------------------------
(***************************************************************************)
(* The status tail, the protocol match and the terminal release claim.     *)
(***************************************************************************)
\* _validate_linux_reaped_chain: the leader is reaped and its settlement is
\* the one this attempt made,
ReapedAuthority ==
    /\ att.leader_reap_confirmed
    /\ own.state = "REAPED" /\ own.life = "OWNED_LEADER_REAPED_ONLY"
    /\ capt.state = "SETTLEMENT_FINISHED" /\ settle.reaped
    /\ enrol.ticket

\* every endpoint but the three read ends is closed, each by its one close,
ReapedGraph ==
    /\ GraphIntact(graph)
    /\ graph.owned = ParentEnds \ {"grant_parent"}
    /\ graph.closes = ChildEnds \cup {"grant_parent"}

\* validate_transferred_normal_completion: neither capability was taken,
CompletionTransferred == adp.state = "REAPED" /\ ~settle.probe

\* and a composed domain may only be forked or attached: once its deadline is
\* bound this attempt may not go on by itself.
ReapedChain ==
    /\ ReapedAuthority /\ ReapedGraph /\ CompletionTransferred
    /\ enrol.domain \in {"NONE", "FORKED", "ATTACHED_HARD_LIMIT_ONLY"}

\* A composed domain in any other phase is poisoned with its graph.
ContinuedDomain ==
    IF enrol.domain \in {"NONE", "FORKED", "ATTACHED_HARD_LIMIT_ONLY"}
    THEN enrol ELSE PoisonEnrollment(enrol)

StatusTailBegins ==
    /\ InPhase("LINUX_LEADER_REAPED_UNQUALIFIED") /\ ReapedChain
    /\ Working
    /\ att' = Phase("LINUX_OBSERVING_STATUS_TAIL")
    /\ UNCHANGED <<clock, alive, fds, pipe, graph, enrol, record, child, holder,
                   own, adp, capt, settle>>

\* Called although the chain went on in another direction.
StatusTailRefused ==
    /\ InPhase("LINUX_LEADER_REAPED_UNQUALIFIED") /\ ~ReapedChain
    /\ Failing
    /\ att' = _poison(att)
    /\ enrol' = ContinuedDomain
    /\ UNCHANGED <<clock, alive, fds, pipe, graph, record, child, holder,
                   own, adp, capt, settle>>

\* One byte, the end, or nothing yet; the clock bounds each read.
ReadStatusTail ==
    /\ InPhase("LINUX_OBSERVING_STATUS_TAIL") /\ att.status = "UNREAD"
    /\ Working
    /\ IF InCleanup
       THEN /\ ReadKind("status") # "EAGAIN"
            /\ att' = [att EXCEPT !.status = ReadKind("status")]
            /\ pipe' = [pipe EXCEPT !["status"] = IF @ = <<>> THEN @ ELSE Tail(@)]
       ELSE att' = _poison(att) /\ UNCHANGED pipe
    /\ UNCHANGED <<clock, alive, fds, graph, enrol, record, child, holder,
                   own, adp, capt, settle>>

\* The clock after the read decides whether what was read counts.
observe_linux_status_tail_once ==
    /\ InPhase("LINUX_OBSERVING_STATUS_TAIL") /\ att.status # "UNREAD"
    /\ Working
    /\ att' = IF ~InCleanup \/ ~ReapedChain THEN _poison(att)
              ELSE Phase(IF att.status = "EOF" THEN "LINUX_STATUS_EOF_OBSERVED_UNQUALIFIED"
                                               ELSE "LINUX_STATUS_PROTOCOL_VIOLATION")
    /\ UNCHANGED <<clock, alive, fds, pipe, graph, enrol, record, child, holder,
                   own, adp, capt, settle>>

\* Mutant: whatever was observed and reaped alike counts as the abort.
ProtocolMatchAnyExit == \A s \in Streams : capt.data[s] = <<"C">>

\* Exit 73 observed and reaped, and each stream holds its canary alone.
ProtocolMatch ==
    /\ own.obs = EXIT_ABORT_EOF
    /\ \A s \in Streams : capt.data[s] = <<"C">>

\* A comparison of frozen evidence: no clock and no system call.
verify_linux_abort_protocol_once ==
    /\ InPhase("LINUX_STATUS_EOF_OBSERVED_UNQUALIFIED")
    /\ Working
    /\ att' = IF ~ReapedChain THEN _poison(att)
              ELSE IF ProtocolMatch
              THEN [Phase("LINUX_ABORT_PROTOCOL_VERIFIED") EXCEPT !.evidence = "MATCH"]
              ELSE [Phase("LINUX_ABORT_PROTOCOL_MISMATCH") EXCEPT !.evidence = "MISMATCH"]
    /\ UNCHANGED <<clock, alive, fds, pipe, graph, enrol, record, child, holder,
                   own, adp, capt, settle>>

\* The match still follows from the status, the exit and the streams.
_validate_terminal_protocol_current ==
    ReapedChain /\ att.evidence = "MATCH" /\ att.status = "EOF" /\ ProtocolMatch

\* What is left to release: epoll, the three read ends, the reaped pidfd.
_terminal_resource_preimage ==
    /\ graph.state = "FD_GRAPH_READY" /\ graph.lost = {}
    /\ graph.owned = {"status_parent", "stdout_parent", "stderr_parent"}
    /\ graph.closes = {PARENT_CLOSE_ROLES[i] : i \in 1..4} \cup {"grant_parent"}
    /\ ~capt.active /\ capt.epoll = "open"
    /\ own.state = "REAPED" /\ own.pidfd = "open"

\* The claim takes the one descendant capability of the settlement.
claim_abort_terminal_release_once ==
    /\ InPhase("LINUX_ABORT_PROTOCOL_VERIFIED")
    /\ Working
    /\ IF /\ enrol.domain = "NONE" /\ InCleanup
          /\ _validate_terminal_protocol_current /\ _terminal_resource_preimage
       THEN /\ att' = Phase("LINUX_ABORT_TERMINAL_RELEASE_CLAIMED")
            /\ settle' = [settle EXCEPT !.probe = TRUE]
       ELSE att' = _poison(att) /\ UNCHANGED settle
    /\ UNCHANGED <<clock, alive, fds, pipe, graph, enrol, record, child, holder,
                   own, adp, capt>>

\* A call or a check fails in any method: the attempt is poisoned.
AttemptFails ==
    /\ alive /\ att.state \notin Dead \cup Over
    /\ ~capt.active /\ capt.state # "SETTLING"
    /\ Failing
    /\ att' = _poison(att)
    /\ UNCHANGED <<clock, alive, fds, pipe, graph, enrol, record, child, holder,
                   own, adp, capt, settle>>

\* The caller settles a failed capture passively, inside the hard limit, and
\* may look for other children and close the epoll descriptor after it.
SettleFailedCapture ==
    /\ InPhase("LINUX_MONITOR_FAILURE_UNSETTLED")
    /\ Working
    /\ SettleBegins(HardLimit)
    /\ UNCHANGED <<clock, alive, fds, pipe, graph, enrol, record, child, holder,
                   own, adp, att>>

AfterSettlement ==
    /\ InPhase("LINUX_MONITOR_FAILURE_UNSETTLED")
    /\ \/ probe_children_after_reap
       \/ close_capture_epoll
    /\ UNCHANGED att

-----------------------------------------------------------------------------
AttemptInit ==
    /\ GraphInit /\ ChildInit /\ CaptureInit
    /\ att = NoAttempt

\* What the launcher does; every step of it ends in a state it can go on from.
Prefork ==
    GraphNext /\ att.state = "NONE" /\ UNCHANGED <<child, holder, captureVars, att>>

Capture == (MonitorNext \/ ReapNext \/ SettleNext) /\ UNCHANGED att

AttemptSteps ==
    \/ ClaimAttempt \/ LinuxPreflight \/ LinuxFork \/ LinuxForkFails \/ LinuxBind
    \/ PrepareBegins \/ CloseChildEndpoint \/ ReadReady \/ BindCapture
    \/ GrantAdmission \/ close_linux_grant_zero_write_once
    \/ MonitorBegins \/ monitor_linux_abort_unreaped_once
    \/ ReapAdmission \/ reap_linux_completion_once
    \/ StatusTailBegins \/ StatusTailRefused \/ ReadStatusTail \/ observe_linux_status_tail_once
    \/ verify_linux_abort_protocol_once \/ claim_abort_terminal_release_once
    \/ SettleFailedCapture \/ AfterSettlement \/ AttemptFails

AroundChild == ChildNext /\ UNCHANGED <<captureVars, att>>

AttemptNext == Prefork \/ Capture \/ AttemptSteps \/ AroundChild

States ==
    Dead \cup Over \cup
    {"READY_TO_FORK", "LINUX_FORKING", "LINUX_BINDING_PIDFD",
     "LINUX_PIDFD_BOUND_UNARMED", "LINUX_CLOSING_CHILD_ENDPOINTS",
     "LINUX_WAITING_READY", "LINUX_READY", "LINUX_CAPTURE_BOUND_UNARMED",
     "LINUX_CLOSING_GRANT_ZERO_WRITE", "LINUX_GRANT_WRITER_CLOSED_UNSETTLED",
     "LINUX_MONITORING_UNREAPED", "LINUX_MONITOR_COMPLETE_UNREAPED",
     "LINUX_REAPING_COMPLETION", "LINUX_LEADER_REAPED_UNQUALIFIED",
     "LINUX_OBSERVING_STATUS_TAIL", "LINUX_STATUS_EOF_OBSERVED_UNQUALIFIED"}

AttemptTypeOK ==
    /\ GraphTypeOK /\ ChildTypeOK /\ CaptureTypeOK
    /\ att \in [state : States, fork_attempted : BOOLEAN, poisoned : BOOLEAN,
                leader_reap_confirmed : BOOLEAN,
                status : {"UNREAD", "DATA", "EOF"},
                evidence : {"NONE", "MATCH", "MISMATCH"}]
=============================================================================
