---------------------------- MODULE OwnedCapture ----------------------------
(***************************************************************************)
(* The launcher's authority over its child: the fork record and its pidfd  *)
(* (prelive_owned_child), and the capture handle that drains stdout and    *)
(* stderr, observes the exit without reaping it, and reaps it at most once *)
(* through the adapter it claimed (prelive_capture_settlement).            *)
(*                                                                         *)
(* The operators here are the bodies of those functions; AbortAttempt says *)
(* when the launcher runs them.                                            *)
(***************************************************************************)
EXTENDS AbortChild

CONSTANT
    CaptureLimit    \* capture_limit of the request, in tokens per stream

ASSUME LimitAssumption == CaptureLimit \in Nat \ {0}

VARIABLES
    own,      \* fork record and _OwnedPidfdHandle
    adp,      \* _CaptureChildAdapter
    capt,     \* CaptureHandle
    settle    \* SettlementHandle

captureVars == <<own, adp, capt, settle>>

Streams == {"stdout", "stderr"}

NoOwned == [life |-> "NONE", state |-> "NONE", obs |-> 0, pidfd |-> "none"]
NoAdapter == [state |-> "NONE", cached |-> FALSE, binding |-> FALSE]
NoCapture ==
    [state |-> "NONE", step |-> "idle", active |-> FALSE, failure |-> FALSE,
     used |-> FALSE, eof |-> {}, data |-> [s \in Streams |-> <<>>],
     cap |-> "NONE", epoll |-> "none"]
NoSettlement ==
    [outcome |-> "NONE", reaped |-> FALSE, deadline |-> 0, probe |-> FALSE,
     children |-> "UNPROBED"]

-----------------------------------------------------------------------------
(***************************************************************************)
(* prelive_owned_child.                                                    *)
(***************************************************************************)
\* The parent's first act after fork(): a child exists and nothing is bound.
_record_owned_fork == own' = [own EXCEPT !.life = "SPAWNED_UNBOUND"]

\* The executable of a process that already exited cannot be read: a child
\* that is not running refuses the bind.
bind_owned_pidfd ==
    /\ own.life = "SPAWNED_UNBOUND" /\ Running
    /\ own' = [own EXCEPT !.life = "PIDFD_BOUND", !.state = "BOUND", !.pidfd = "open"]

\* A pidfd that was opened before the refusal is closed again.
BindUnknown == own' = [own EXCEPT !.life = "UNKNOWN_CHILD_MAY_EXIST"]

bind_capture_child_adapter == [NoAdapter EXCEPT !.state = "PRIMARY"]

\* _poison of the adapter takes the pidfd handle and the lifecycle with it.
AdapterPoison ==
    /\ adp' = [adp EXCEPT !.state = "UNKNOWN"]
    /\ own' = [own EXCEPT !.life = "UNKNOWN", !.state = "UNKNOWN"]

\* waitid(WEXITED | WNOHANG | WNOWAIT): the zombie stays.
observe_exit_nonblocking ==
    IF own.state = "BOUND" /\ Zombie
    THEN [own EXCEPT !.state = "TERMINAL_OBSERVED_NOT_REAPED", !.obs = child.code]
    ELSE own

\* The phase an adapter observes in is the phase of the capture handle.
observe_or_cached ==
    /\ \/ adp.state = "PRIMARY" /\ capt.state = "BOUND" /\ capt.active
       \/ adp.state = "SETTLEMENT" /\ capt.state = "SETTLING"
    /\ own' = observe_exit_nonblocking
    /\ adp' = [adp EXCEPT !.cached = own'.state = "TERMINAL_OBSERVED_NOT_REAPED"]

\* assert_current_no_callback, and validate_cached when the monitor looks.
CachedCurrent ==
    /\ adp.state = "PRIMARY"
    /\ own.state = IF adp.cached THEN "TERMINAL_OBSERVED_NOT_REAPED" ELSE "BOUND"

enter_settlement ==
    /\ adp.state = "PRIMARY" /\ capt.failure /\ capt.used /\ ~capt.active
    /\ adp' = [adp EXCEPT !.state = "SETTLEMENT"]

enter_completed_settlement ==
    /\ adp.state = "PRIMARY" /\ ~capt.failure /\ capt.used /\ ~capt.active
    /\ capt.cap = "USED"
    /\ adp' = [adp EXCEPT !.state = "SETTLEMENT"]

\* waitid(WEXITED | WNOHANG) on the pidfd; the status must be the observed one.
reap_observed_exit ==
    /\ own.state = "TERMINAL_OBSERVED_NOT_REAPED"
    /\ Zombie /\ child.code = own.obs
    /\ own' = [own EXCEPT !.state = "REAPED", !.life = "OWNED_LEADER_REAPED_ONLY"]
    /\ child' = [child EXCEPT !.pc = "gone"]

reap_cached_once ==
    /\ adp.state = "SETTLEMENT" /\ adp.cached
    /\ capt.state = "SETTLING" /\ capt.used
    /\ reap_observed_exit
    /\ adp' = [adp EXCEPT !.state = "REAPED"]

\* waitid failed, after it reaped the child or before.
ReapUnknown ==
    /\ adp.state = "SETTLEMENT"
    /\ AdapterPoison
    /\ \/ child' = [child EXCEPT !.pc = "gone"]
       \/ UNCHANGED child

\* What a failure leaves of the adapter, by the step it struck: a reap that
\* raised, a hand-over or an observation the adapter itself may have poisoned,
\* or a step that does not ask the adapter.
AdapterAfterFailure ==
    \/ capt.step = "reap" /\ ReapUnknown
    \/ capt.step \in {"handoff", "enter", "observe"} /\ AdapterPoison /\ UNCHANGED child
    \/ capt.step # "reap" /\ UNCHANGED <<adp, own, child>>

-----------------------------------------------------------------------------
(***************************************************************************)
(* prelive_capture_settlement: the handle and the monitor.                 *)
(***************************************************************************)
bind_capture_pipes == [NoCapture EXCEPT !.state = "BOUND", !.epoll = "open"]

Truncated == \E s \in Streams : Len(capt.data[s]) > CaptureLimit

StartMonitor ==
    [capt EXCEPT !.active = TRUE, !.step = "turn"]

MonitorEnds(state) ==
    capt' = [capt EXCEPT !.state = state, !.active = FALSE, !.step = "idle",
                         !.failure = state \in {"EXECUTION_TIMEOUT_UNSETTLED",
                                                "CAPTURE_TRUNCATED_UNSETTLED"}]

\* What one turn reads of the streams in ready: their bytes, and the end of
\* those nobody writes to any more.
Ended(p) == \A q \in Procs : Writer(p) \notin fds[q]

drain_ready_turn(ready) ==
    /\ capt' = [capt EXCEPT
                  !.data = [s \in Streams |-> IF s \in ready
                                              THEN capt.data[s] \o pipe[s]
                                              ELSE capt.data[s]],
                  !.eof = @ \cup {s \in ready : Ended(s)},
                  !.step = "turn"]
    /\ pipe' = [p \in Pipes |-> IF p \in ready THEN <<>> ELSE pipe[p]]

Ready == {s \in Streams \ capt.eof : pipe[s] # <<>> \/ Ended(s)}

\* Mutant: WNOWAIT is missing, so that the look at the child reaps it.
MonitorTurnReaps ==
    /\ alive /\ capt.active /\ capt.step = "turn"
    /\ Working
    /\ CachedCurrent /\ ~Truncated /\ InTime /\ ~adp.cached
    /\ capt' = [capt EXCEPT !.step = "observed"]
    /\ observe_or_cached
    /\ child' = IF Zombie THEN [child EXCEPT !.pc = "gone"] ELSE child
    /\ UNCHANGED <<clock, alive, fds, pipe, graph, enrol, record, holder, settle>>

\* The head of the loop: the clock, the limits, and one look at the child
\* unless its exit is cached already.
MonitorTurn ==
    /\ alive /\ capt.active /\ capt.step = "turn"
    /\ Working
    /\ CachedCurrent
    /\ IF Truncated
       THEN MonitorEnds("CAPTURE_TRUNCATED_UNSETTLED") /\ UNCHANGED <<own, adp>>
       ELSE IF ~InTime
       THEN MonitorEnds("EXECUTION_TIMEOUT_UNSETTLED") /\ UNCHANGED <<own, adp>>
       ELSE IF adp.cached
       THEN capt' = [capt EXCEPT !.step = "settled?"] /\ UNCHANGED <<own, adp>>
       ELSE capt' = [capt EXCEPT !.step = "observed"] /\ observe_or_cached
    /\ UNCHANGED <<clock, alive, fds, pipe, graph, enrol, record, child, holder, settle>>

\* The clock again, after a look at the child.
MonitorResample ==
    /\ alive /\ capt.active /\ capt.step = "observed"
    /\ Working
    /\ IF ~InTime THEN MonitorEnds("EXECUTION_TIMEOUT_UNSETTLED")
                  ELSE capt' = [capt EXCEPT !.step = "settled?"]
    /\ UNCHANGED <<clock, alive, fds, pipe, graph, enrol, record, child, holder,
                   own, adp, settle>>

\* Exit observed and both streams at their end: the completion capability.
MonitorCompletes ==
    /\ alive /\ capt.active /\ capt.step = "settled?"
    /\ Working
    /\ adp.cached /\ capt.eof = Streams
    /\ capt' = [capt EXCEPT !.state = "LEADER_OBSERVED_CAPTURE_COMPLETE_NOT_REAPED",
                            !.active = FALSE, !.step = "idle", !.cap = "FRESH"]
    /\ UNCHANGED <<clock, alive, fds, pipe, graph, enrol, record, child, holder,
                   own, adp, settle>>

\* epoll returned any part of what is ready, or nothing after its timeout.
MonitorPolls ==
    /\ alive /\ capt.active /\ capt.step = "settled?"
    /\ Working
    /\ ~(adp.cached /\ capt.eof = Streams)
    /\ \E ready \in SUBSET Ready :
            /\ ready = {} => Ready = {}
            /\ drain_ready_turn(ready)
    /\ UNCHANGED <<clock, alive, fds, graph, enrol, record, child, holder, own, adp, settle>>

\* Any exception in the loop.  An adapter call that failed is poisoned too.
MonitorFails ==
    /\ alive /\ capt.active
    /\ Failing
    /\ capt' = [capt EXCEPT !.state = "UNKNOWN_MONITOR", !.active = FALSE, !.step = "idle"]
    /\ \/ AdapterPoison
       \/ UNCHANGED <<own, adp>>
    /\ UNCHANGED <<clock, alive, fds, pipe, graph, enrol, record, child, holder, settle>>

-----------------------------------------------------------------------------
(***************************************************************************)
(* Settlement of a completed capture: reap_attached_completion_once.       *)
(***************************************************************************)
InCleanup == clock < settle.deadline

\* A stream that ended and was kept whole, and a completion of two of them.
_strict_stream_snapshot(s) == s \in capt.eof /\ Len(capt.data[s]) <= CaptureLimit
_strict_completion == \A s \in Streams : _strict_stream_snapshot(s)

\* validate_attached_completion_unreaped: the capability of this completion.
CompletionUnreaped ==
    /\ capt.state = "LEADER_OBSERVED_CAPTURE_COMPLETE_NOT_REAPED"
    /\ capt.cap = "FRESH" /\ ~capt.failure /\ ~capt.used
    /\ adp.state = "PRIMARY" /\ adp.cached
    /\ own.state = "TERMINAL_OBSERVED_NOT_REAPED" /\ own.life = "PIDFD_BOUND"
    /\ _strict_completion

ConsumeCompletion(deadline) ==
    /\ CompletionUnreaped
    /\ capt' = [capt EXCEPT !.state = "SETTLING", !.used = TRUE, !.cap = "USED",
                            !.step = "handoff"]
    /\ settle' = [settle EXCEPT !.deadline = deadline]

SettlementUnknown(reaped) ==
    /\ capt' = [capt EXCEPT !.state = "UNKNOWN_SETTLEMENT", !.step = "idle"]
    /\ settle' = [settle EXCEPT !.outcome = "UNKNOWN_NORMAL_COMPLETION",
                                !.reaped = reaped]

\* The settlement under way is that of a completed capture.
Reaping == alive /\ capt.state = "SETTLING" /\ ~capt.failure

ReapHandsOff ==
    /\ Reaping /\ capt.step = "handoff"
    /\ Working
    /\ IF InCleanup
       THEN /\ enter_completed_settlement
            /\ capt' = [capt EXCEPT !.step = "reap"]
            /\ UNCHANGED settle
       ELSE SettlementUnknown(FALSE) /\ UNCHANGED adp
    /\ UNCHANGED <<clock, alive, fds, pipe, graph, enrol, record, child, holder, own>>

ReapsChild ==
    /\ Reaping /\ capt.step = "reap"
    /\ Working
    /\ IF InCleanup
       THEN /\ reap_cached_once
            /\ capt' = [capt EXCEPT !.step = "reaped"]
            /\ UNCHANGED settle
       ELSE SettlementUnknown(FALSE) /\ UNCHANGED <<adp, own, child>>
    /\ UNCHANGED <<clock, alive, fds, pipe, graph, enrol, record, holder>>

\* The clock after the reap: too late is unknown, but the reap is on record.
ReapSettles ==
    /\ Reaping /\ capt.step = "reaped"
    /\ Working
    /\ IF InCleanup
       THEN /\ capt' = [capt EXCEPT !.state = "SETTLEMENT_FINISHED", !.step = "idle"]
            /\ settle' = [settle EXCEPT !.outcome = "LEADER_REAPED_STREAMS_EOF",
                                        !.reaped = TRUE]
       ELSE SettlementUnknown(TRUE)
    /\ UNCHANGED <<clock, alive, fds, pipe, graph, enrol, record, child, holder, own, adp>>

ReapFails ==
    /\ Reaping
    /\ Failing
    /\ SettlementUnknown(capt.step = "reaped")
    /\ AdapterAfterFailure
    /\ UNCHANGED <<clock, alive, fds, pipe, graph, enrol, record, holder>>

-----------------------------------------------------------------------------
(***************************************************************************)
(* Settlement of a failed capture: _settle_passively, a loop that observes,*)
(* reaps and drains until both are done or the cleanup deadline passes.    *)
(***************************************************************************)
Settling == alive /\ capt.state = "SETTLING" /\ capt.failure

SettlementFinishes(outcome) ==
    /\ capt' = [capt EXCEPT !.state = "SETTLEMENT_FINISHED", !.step = "idle"]
    /\ settle' = [settle EXCEPT !.outcome = outcome]

SettleBegins(deadline) ==
    /\ capt.state \in {"EXECUTION_TIMEOUT_UNSETTLED", "CAPTURE_TRUNCATED_UNSETTLED"}
    /\ capt.failure /\ ~capt.used
    /\ capt' = [capt EXCEPT !.state = "SETTLING", !.used = TRUE, !.step = "enter"]
    /\ settle' = [settle EXCEPT !.deadline = deadline]

SettleHandsOff ==
    /\ Settling /\ capt.step = "enter"
    /\ Working
    /\ enter_settlement
    /\ capt' = [capt EXCEPT !.step = "observe"]
    /\ UNCHANGED <<clock, alive, fds, pipe, graph, enrol, record, child, holder,
                   own, settle>>

\* The head of the loop; a reaped child is not observed again.
SettleObserves ==
    /\ Settling /\ capt.step = "observe"
    /\ Working
    /\ IF ~InCleanup
       THEN SettlementFinishes("CLEANUP_DEADLINE_UNSETTLED") /\ UNCHANGED <<own, adp>>
       ELSE /\ IF settle.reaped THEN UNCHANGED <<own, adp>> ELSE observe_or_cached
            /\ capt' = [capt EXCEPT !.step = IF ~settle.reaped /\ adp'.cached
                                             THEN "reap" ELSE "check"]
            /\ UNCHANGED settle
    /\ UNCHANGED <<clock, alive, fds, pipe, graph, enrol, record, child, holder>>

SettleReaps ==
    /\ Settling /\ capt.step = "reap"
    /\ Working
    /\ IF ~InCleanup
       THEN SettlementFinishes("CLEANUP_DEADLINE_UNSETTLED") /\ UNCHANGED <<own, adp, child>>
       ELSE /\ reap_cached_once
            /\ capt' = [capt EXCEPT !.step = "check"]
            /\ settle' = [settle EXCEPT !.reaped = TRUE]
    /\ UNCHANGED <<clock, alive, fds, pipe, graph, enrol, record, holder>>

SettleDrains ==
    /\ Settling /\ capt.step = "check"
    /\ Working
    /\ IF ~InCleanup
       THEN SettlementFinishes("CLEANUP_DEADLINE_UNSETTLED") /\ UNCHANGED pipe
       ELSE IF settle.reaped /\ capt.eof = Streams
       THEN SettlementFinishes("LEADER_REAPED_STREAMS_EOF") /\ UNCHANGED pipe
       ELSE /\ \E ready \in SUBSET Ready :
                    /\ ready = {} => Ready = {}
                    /\ drain_ready_turn(ready)
                    /\ capt'.step = "turn"
            /\ UNCHANGED settle
    /\ UNCHANGED <<clock, alive, fds, graph, enrol, record, child, holder, own, adp>>

\* drain_ready_turn leaves the handle settling; the loop starts over.
SettleTurns ==
    /\ Settling /\ capt.step = "turn"
    /\ Working
    /\ capt' = [capt EXCEPT !.step = "observe"]
    /\ UNCHANGED <<clock, alive, fds, pipe, graph, enrol, record, child, holder,
                   own, adp, settle>>

SettleFails ==
    /\ Settling
    /\ Failing
    /\ capt' = [capt EXCEPT !.state = "UNKNOWN_SETTLEMENT", !.step = "idle"]
    /\ settle' = [settle EXCEPT !.outcome = "UNKNOWN_CHILD_OR_CAPTURE_API"]
    /\ AdapterAfterFailure
    /\ UNCHANGED <<clock, alive, fds, pipe, graph, enrol, record, holder>>

-----------------------------------------------------------------------------
(***************************************************************************)
(* After the reap: one look for other children, and the epoll descriptor.  *)
(***************************************************************************)
probe_children_after_reap ==
    /\ alive /\ settle.reaped /\ ~settle.probe
    /\ Working
    /\ settle' = [settle EXCEPT
                    !.probe = TRUE,
                    !.children = IF InCleanup THEN "ECHILD_OBSERVED_AFTER_EXACT_REAP"
                                              ELSE "NOT_RUN_DEADLINE"]
    /\ UNCHANGED <<clock, alive, fds, pipe, graph, enrol, record, child, holder,
                   own, adp, capt>>

close_capture_epoll ==
    /\ alive /\ capt.state = "SETTLEMENT_FINISHED"
    /\ \/ Working /\ capt' = [capt EXCEPT !.state = "CLOSED", !.epoll = "closed"]
       \/ Failing /\ capt' = [capt EXCEPT !.state = "UNKNOWN_EPOLL_CLOSE", !.epoll = "unknown"]
    /\ UNCHANGED <<clock, alive, fds, pipe, graph, enrol, record, child, holder,
                   own, adp, settle>>

CaptureInit ==
    /\ own = NoOwned
    /\ adp = NoAdapter
    /\ capt = NoCapture
    /\ settle = NoSettlement

MonitorNext ==
    MonitorTurn \/ MonitorResample \/ MonitorCompletes \/ MonitorPolls \/ MonitorFails

ReapNext == ReapHandsOff \/ ReapsChild \/ ReapSettles \/ ReapFails

SettleNext ==
    \/ SettleHandsOff \/ SettleObserves \/ SettleReaps \/ SettleDrains
    \/ SettleTurns \/ SettleFails

CaptureTypeOK ==
    /\ own \in [life : {"NONE", "SPAWNED_UNBOUND", "PIDFD_BOUND",
                        "OWNED_LEADER_REAPED_ONLY", "UNKNOWN_CHILD_MAY_EXIST", "UNKNOWN"},
                state : {"NONE", "BOUND", "TERMINAL_OBSERVED_NOT_REAPED", "REAPED", "UNKNOWN"},
                obs : ExitCodes \cup {0}, pidfd : {"none", "open"}]
    /\ adp \in [state : {"NONE", "PRIMARY", "SETTLEMENT", "REAPED",
                         "DESCENDANT_HANDOFF", "UNKNOWN"},
                cached : BOOLEAN, binding : BOOLEAN]
    /\ capt.cap \in {"NONE", "FRESH", "USED"} /\ capt.eof \subseteq Streams
    /\ settle.deadline \in 0..HardLimit
=============================================================================
