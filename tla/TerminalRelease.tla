--------------------------- MODULE TerminalRelease ---------------------------
(***************************************************************************)
(* The terminal release of a verified attempt without a descendant domain: *)
(* _AbortTerminalReleaseClaim releases the epoll descriptor, the three     *)
(* read ends and, behind an anchor, the pidfd, in this order and each once.*)
(* Each release asks an injected backend twice, to observe the resource    *)
(* and to close it; from inside either call the backend may call any       *)
(* release of the same claim.                                              *)
(***************************************************************************)
EXTENDS AllocatedRelease

VARIABLE
    claim     \* _AbortTerminalReleaseClaim

pipelineVars == <<releaseVars, claim>>

\* The release order of the claim's receipt, with the anchor before the pidfd.
Order == <<"epoll", "status", "stdout", "stderr", "anchor", "pidfd">>
Resources == {Order[i] : i \in 1..6}
Before(r) == {Order[j] : j \in {k \in 1..5 : \E i \in 1..6 : Order[i] = r /\ k < i}}

NewClaim ==
    [running |-> "NONE", at |-> "idle", release_active |-> "NONE",
     attempted |-> {}, closes |-> [r \in Resources |-> 0],
     nested |-> {}, outcome |-> [r \in Resources |-> "NONE"]]

Claimed == att.state = "LINUX_ABORT_TERMINAL_RELEASE_CLAIMED"

\* The claim's own deadline is the cleanup deadline it was minted under.
InRelease == clock < settle.deadline

ClaimUnchanged == <<attemptVars, dom, rel>>

Confirmed(r) == claim.outcome[r] = "CONFIRMED"

\* A resource may be released only behind a timely release of the one before
\* it, which rests in turn on everything released earlier.
_timely_epoll_model_outcome == Confirmed("epoll")
_timely_status_model_outcome == Confirmed("status") /\ _timely_epoll_model_outcome
_timely_stdout_model_outcome == Confirmed("stdout") /\ _timely_status_model_outcome
_timely_stderr_model_outcome == Confirmed("stderr") /\ _timely_stdout_model_outcome

Prerequisite(r) ==
    CASE r = "epoll"  -> TRUE
      [] r = "status" -> _timely_epoll_model_outcome
      [] r = "stdout" -> _timely_status_model_outcome
      [] r = "stderr" -> _timely_stdout_model_outcome
      [] r = "anchor" -> _timely_stderr_model_outcome
      [] r = "pidfd"  -> Confirmed("anchor") /\ _timely_stderr_model_outcome

\* What is read again around every call of the backend: the captured canary
\* of a stream, and the reaped leader behind the pidfd.
_stdout_release_evidence ==
    "stdout" \in capt.eof /\ capt.data["stdout"] = <<"C">> /\ "stdout_parent" \in graph.owned
_stderr_release_evidence ==
    "stderr" \in capt.eof /\ capt.data["stderr"] = <<"C">> /\ "stderr_parent" \in graph.owned
_pidfd_anchor_evidence == own.state = "REAPED" /\ own.pidfd = "open"

Evidence(r) ==
    /\ r \in {"stdout", "stderr", "anchor", "pidfd"} => _stdout_release_evidence
    /\ r \in {"stderr", "anchor", "pidfd"} => _stderr_release_evidence
    /\ r \in {"anchor", "pidfd"} => _pidfd_anchor_evidence

\* Entered once, with no release active and everything before it timely.
ReleaseBegins(r) ==
    /\ alive /\ Claimed
    /\ claim.release_active = "NONE" /\ claim.running = "NONE"
    /\ r \notin claim.attempted /\ Prerequisite(r) /\ Evidence(r)
    /\ claim' = [claim EXCEPT !.running = r, !.at = "observe", !.release_active = r,
                              !.attempted = @ \cup {r}]
    /\ UNCHANGED ClaimUnchanged

\* A release called from the backend of the running one: it is refused, and
\* the slot of the running one is poisoned.
NestedRelease ==
    /\ alive /\ claim.running # "NONE"
    /\ Failing
    /\ claim' = [claim EXCEPT !.release_active = "POISONED",
                              !.nested = @ \cup {claim.running}]
    /\ UNCHANGED <<clock, alive, fds, pipe, graph, enrol, record, child, holder,
                   own, adp, capt, settle, att, dom, rel>>

\* The outcome is frozen and the slot is free again, whatever happened.
Finished(outcome) ==
    claim' = [claim EXCEPT !.outcome[claim.running] = outcome,
                           !.running = "NONE", !.at = "idle", !.release_active = "NONE"]

\* Mutant: what is read again leaves out the slot.
EvidenceHeld == Evidence(claim.running)

SlotHeld == claim.release_active = claim.running /\ Evidence(claim.running)

\* Mutant: the time of the observation is not looked at.
ReleaseObservedLate ==
    /\ alive /\ claim.running \in Resources \ {"anchor"} /\ claim.at = "observe"
    /\ IF SlotHeld
       THEN claim' = [claim EXCEPT !.at = "close", !.closes[claim.running] = @ + 1]
       ELSE Finished("UNKNOWN")
    /\ UNCHANGED ClaimUnchanged

\* The backend observed (or compared) the resource; the claim is read again
\* and only then the one close is asked for.
ReleaseObserved ==
    /\ alive /\ claim.running \in Resources \ {"anchor"} /\ claim.at = "observe"
    /\ IF SlotHeld /\ InRelease
       THEN claim' = [claim EXCEPT !.at = "close", !.closes[claim.running] = @ + 1]
       ELSE Finished("UNKNOWN")
    /\ UNCHANGED ClaimUnchanged

\* The pidfd and its anchor turned out to be different objects: nothing closes.
PidfdQuarantined ==
    /\ alive /\ claim.running = "pidfd" /\ claim.at = "observe"
    /\ Failing
    /\ Finished(IF SlotHeld /\ InRelease THEN "IDENTITY_QUARANTINED" ELSE "UNKNOWN")
    /\ UNCHANGED <<clock, alive, fds, pipe, graph, enrol, record, child, holder,
                   own, adp, capt, settle, att, dom, rel>>

ReleaseClosed ==
    /\ alive /\ claim.running # "NONE" /\ claim.at = "close"
    /\ Finished(IF ~SlotHeld THEN "UNKNOWN"
                ELSE IF InRelease THEN "CONFIRMED" ELSE "CONFIRMED_LATE")
    /\ UNCHANGED ClaimUnchanged

\* The anchor is one call, and late is unknown.
acquire_pidfd_anchor_model_once ==
    /\ alive /\ claim.running = "anchor" /\ claim.at = "observe"
    /\ Finished(IF SlotHeld /\ InRelease THEN "CONFIRMED" ELSE "UNKNOWN")
    /\ UNCHANGED ClaimUnchanged

\* The backend raised, or answered what it may not.
ReleaseRaises ==
    /\ alive /\ claim.running # "NONE"
    /\ Failing
    /\ Finished("UNKNOWN")
    /\ UNCHANGED <<clock, alive, fds, pipe, graph, enrol, record, child, holder,
                   own, adp, capt, settle, att, dom, rel>>

release_epoll_model_once == ReleaseBegins("epoll")
release_status_model_once == ReleaseBegins("status")
release_stdout_model_once == ReleaseBegins("stdout")
release_stderr_model_once == ReleaseBegins("stderr")
AnchorBegins == ReleaseBegins("anchor")
release_pidfd_model_once == ReleaseBegins("pidfd")

ClaimSteps ==
    \/ release_epoll_model_once \/ release_status_model_once
    \/ release_stdout_model_once \/ release_stderr_model_once
    \/ AnchorBegins \/ release_pidfd_model_once
    \/ ReleaseObserved \/ ReleaseClosed \/ acquire_pidfd_anchor_model_once

ClaimNext == ClaimSteps \/ NestedRelease \/ PidfdQuarantined \/ ReleaseRaises

-----------------------------------------------------------------------------
Init ==
    /\ ReleaseInit
    /\ claim = NewClaim

Next == (ReleaseNext /\ UNCHANGED claim) \/ ClaimNext

\* The launcher is one thread that keeps running, the child is scheduled, and
\* time passes.  Nothing is asked of the foreign process or of a fault.
Launcher ==
    \/ (Prefork \/ Capture \/ AttemptSteps) /\ DomainFollows /\ UNCHANGED <<rel, claim>>
    \/ (DescendantSteps \/ QualifySteps) /\ UNCHANGED claim
    \/ ClaimSteps

Spec ==
    /\ Init /\ [][Next]_pipelineVars
    /\ WF_pipelineVars(Launcher /\ Working)
    /\ WF_pipelineVars(ChildSteps /\ UNCHANGED <<captureVars, att, dom, rel, claim>>)
    /\ WF_pipelineVars(Tick /\ UNCHANGED <<captureVars, att, dom, rel, claim>>)

-----------------------------------------------------------------------------
(***************************************************************************)
(* Properties of the whole pipeline.                                       *)
(***************************************************************************)
\* Type invariant of the graph, the child, the attempt and both releases.
TypeOK ==
    /\ AttemptTypeOK
    /\ dom \in [state : {"NONE", "PREPARED", "LAUNCHER_CLAIMED", "DRAINING", "STEPPING",
                         "DRAINED", "UNKNOWN"},
                deadline : 0..HardLimit]
    /\ rel.step \in StepOutcomes \cup {"NONE", "ADVANCING", "UNKNOWN"}
    /\ rel.status \in {"NONE", "OBSERVING", "EOF", "DATA", "EAGAIN", "UNKNOWN"}
    /\ claim.running \in Resources \cup {"NONE"}
    /\ claim.closes \in [Resources -> Nat]

\* A child exists only after the INTENT record of its request is complete and
\* synced on disk, under the name where the one who looks for it after a crash
\* will find it.
IntentBeforeFork ==
    child.pc # "none" => record = [content |-> "exact", synced |-> TRUE, root |-> "exact"]

\* A poisoned attempt that is classified UNKNOWN, not UNKNOWN_SURVIVOR, left
\* no child behind, whatever failed and when.
SurvivorClassified ==
    att.state = "UNKNOWN" => child.pc = "none"

\* A verified abort is one that happened: the child left by the zero-write end
\* of its grant pipe, it is reaped, and no process can write to its streams.
VerifiedIsTrue ==
    att.state \in {"LINUX_ABORT_PROTOCOL_VERIFIED", "LINUX_ABORT_TERMINAL_RELEASE_CLAIMED"}
        => /\ child = [pc |-> "gone", code |-> EXIT_ABORT_EOF]
           /\ \A p \in Pipes, q \in Procs : Writer(p) \notin fds[q]

\* The handle accounts for every endpoint the launcher holds: each is owned,
\* or is left alone because it was not the allocated object any more.
EndpointsAccounted ==
    (alive /\ graph.state # "ALLOCATION_REFUSED")
        => fds["launcher"] = graph.owned \cup graph.lost

\* While the launcher lives only its own consumer takes the child's status,
\* after it observed it, and only once the capture handle was used up.
ObservedBeforeReaped ==
    [][(alive' /\ Zombie /\ child'.pc = "gone") => own.obs = child.code /\ capt.used]_pipelineVars

\* A resource plan is bound only for an abort that happened, with every
\* descriptor it names still open and no writer left anywhere.
PlanIsTrue ==
    rel.plan = "BOUND"
        => /\ child = [pc |-> "gone", code |-> EXIT_ABORT_EOF]
           /\ own.pidfd = "open" /\ capt.epoll = "open"
           /\ alive => fds["launcher"] = ParentEnds \ {"grant_parent"}
           /\ \A p \in Pipes, q \in Procs : Writer(p) \notin fds[q]

\* The claim closes in its order: a resource is closed at most once, and only
\* when all those before it were confirmed closed before the deadline; and a
\* close that the backend's own nested call disturbed is never confirmed.
ReleaseIsHonest ==
    /\ \A r \in Resources :
        claim.closes[r] > 0
            => claim.closes[r] = 1 /\ \A b \in Before(r) : claim.outcome[b] = "CONFIRMED"
    /\ \A r \in claim.nested : claim.outcome[r] \notin {"CONFIRMED", "CONFIRMED_LATE"}

\* The child does not outlive its deadline, whatever happens to the launcher;
\* and every attempt ends: verified, refused, poisoned, or with its domain.
RunEnds ==
    /\ Running ~> ~Running
    /\ (att.state # "NONE")
        ~> (~alive \/ att.state \in Dead \cup Over \/ rel.step \notin {"NONE", "ADVANCING"})

-----------------------------------------------------------------------------
(***************************************************************************)
(* The pipeline implements the controller of prelive_no_grant_abort_model. *)
(* The model decides that the exit was the expected one before the reap,   *)
(* the code after it: until then a reaped child of another status counts   *)
(* as a survivor.                                                          *)
(***************************************************************************)
Expected == child.code = EXIT_ABORT_EOF

SettledPhase ==
    IF ~Expected \/ capt.state = "UNKNOWN_SETTLEMENT" THEN "UNKNOWN_SURVIVOR"
    ELSE IF own.state = "REAPED" THEN "REAPED_EXACT" ELSE "REAPING_EXACT"

AbstractPhase ==
    CASE att.poisoned -> att.state
      [] ~att.poisoned /\ att.state = "NONE" ->
            IF enrol.state = "UNKNOWN" THEN "UNKNOWN"
            ELSE IF enrol.bound = "PERSISTED" THEN "INTENT_VERIFIED" ELSE "NEW"
      [] att.state = "READY_TO_FORK" -> "INTENT_VERIFIED"
      [] att.state = "LINUX_FORKING" -> "FORKING_ABORT_CHILD"
      [] att.state = "LINUX_BINDING_PIDFD" -> "CHILD_RECORDED"
      [] att.state = "LINUX_PIDFD_BOUND_UNARMED" -> "PIDFD_BOUND"
      [] att.state \in {"LINUX_CLOSING_CHILD_ENDPOINTS", "LINUX_WAITING_READY",
                        "LINUX_READY"} -> "OBSERVING_READY"
      [] att.state = "LINUX_CAPTURE_BOUND_UNARMED" -> "READY_CAPTURED"
      [] att.state = "LINUX_CLOSING_GRANT_ZERO_WRITE" -> "CLOSING_GRANT_WRITER"
      [] att.state = "LINUX_GRANT_WRITER_CLOSED_UNSETTLED" -> "GRANT_WRITER_CLOSED"
      [] att.state = "LINUX_MONITORING_UNREAPED" -> "OBSERVING_ABORT_EXIT"
      [] att.state = "LINUX_MONITOR_COMPLETE_UNREAPED" ->
            IF Expected THEN "ABORT_EXIT_OBSERVED" ELSE "UNKNOWN_SURVIVOR"
      [] att.state = "LINUX_REAPING_COMPLETION" -> SettledPhase
      [] att.state \in {"LINUX_LEADER_REAPED_UNQUALIFIED", "LINUX_OBSERVING_STATUS_TAIL",
                        "LINUX_STATUS_EOF_OBSERVED_UNQUALIFIED"} ->
            IF Expected THEN "REAPED_EXACT" ELSE "UNKNOWN_SURVIVOR"
      [] att.state \in {"LINUX_ABORT_PROTOCOL_VERIFIED",
                        "LINUX_ABORT_TERMINAL_RELEASE_CLAIMED"} -> "COMPLETE"
      [] OTHER -> "UNKNOWN_SURVIVOR"

Controller ==
    INSTANCE NoGrantAbort
        WITH state <- AbstractPhase, forked <- att.fork_attempted, up <- alive,
             proc <- CASE child.pc = "none" -> "none" [] Running -> "running"
                       [] Zombie -> "exited" [] OTHER -> "gone",
             code <- child.code

\* Every behaviour of the launcher, its child and the faults around them is
\* one of the controller the repository's own model describes.
ImplementsController == Controller!Spec

(***************************************************************************)
(* The release of the pidfd implements ExactFDReleaseBinding.  The claim   *)
(* does not tell a close that raised from one that was disturbed: both are *)
(* a close of which nothing is known.                                      *)
(***************************************************************************)
BindingState ==
    LET disturbed == "pidfd" \in claim.nested
        asked     == claim.closes["pidfd"] > 0
    IN CASE ~Confirmed("anchor") -> "UNBOUND"
         [] claim.running = "pidfd" ->
                IF disturbed THEN "RESOURCE_RELEASE_UNKNOWN"
                ELSE IF asked THEN "CLOSING_PRIMARY" ELSE "VERIFYING_RESOURCE_BINDING"
         [] claim.running # "pidfd" /\ claim.outcome["pidfd"] = "NONE" /\ Confirmed("anchor") ->
                "BOUND_UNQUALIFIED"
         [] claim.outcome["pidfd"] = "CONFIRMED" -> "PRIMARY_CLOSED_ANCHOR_OWNED"
         [] claim.outcome["pidfd"] = "CONFIRMED_LATE" -> "PRIMARY_CLOSED_CONFIRMED_LATE"
         [] claim.outcome["pidfd"] = "IDENTITY_QUARANTINED" -> "QUARANTINED_RESOURCE_IDENTITY"
         [] claim.outcome["pidfd"] = "UNKNOWN" ->
                IF asked THEN "PRIMARY_CLOSE_UNKNOWN" ELSE "RESOURCE_RELEASE_UNKNOWN"

PidfdBinding ==
    INSTANCE ExactRelease
        WITH state <- BindingState, running <- claim.running = "pidfd",
             poisoned <- "pidfd" \in claim.nested,
             primary_owned <- claim.closes["pidfd"] = 0,
             late <- Confirmed("anchor") /\ ~InRelease

\* Whatever the backend answers, when it calls back and when the deadline
\* falls, the pidfd is closed only as the exact release of one descriptor is:
\* compared in time, given up before the close, and confirmed only undisturbed.
ImplementsRelease == PidfdBinding!Spec
==============================================================================
