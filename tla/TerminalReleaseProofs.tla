------------------------ MODULE TerminalReleaseProofs ------------------------
(***************************************************************************)
(* Proofs about the no-grant pipeline, for any deadline, cleanup budget    *)
(* and capture limit and any number of failing calls.                      *)
(*                                                                         *)
(* No property of the pipeline is inductive by itself.  A verified abort   *)
(* is true because the ends of file it rests on are true (Ends), because   *)
(* no process can come to hold a writer after its pipe ended (Accounted),  *)
(* and because the exit that was compared is the child's (Observed); a     *)
(* plan is true because the descendant branch excludes the attempt's own   *)
(* (Branches).  PipelineInv is the conjunction of these facts; each group  *)
(* of steps keeps its parts (the lemmas named ...Keeps) and its types (the *)
(* lemmas named ...KeepsTypes).                                            *)
(***************************************************************************)
EXTENDS TerminalRelease, TLAPS

-----------------------------------------------------------------------------
(* The types of the records                                                *)

Token == {"R", "C", "x"}
Handle == [state : {"UNALLOCATED", "ALLOCATION_REFUSED", "FD_GRAPH_READY",
                    "FD_GRAPH_CLOSED", "UNKNOWN_FD_GRAPH"},
           owned : SUBSET Roles, lost : SUBSET Roles, closes : SUBSET Roles,
           claimed : BOOLEAN]
Domains == {"NONE", "READY", "FORKED", "ATTACHED_HARD_LIMIT_ONLY", "DEADLINE_BINDING",
            "DEADLINE_BOUND_NON_DRAINABLE", "DRAIN_TRANSFERRING", "ALLOCATED_DRAIN_READY",
            "DESCENDANT_STEP_ADVANCING", "ALLOCATED_STEP_NONQUALIFIED",
            "ALLOCATED_MODEL_DOMAIN_DRAINED_NONQUALIFIED", "UNKNOWN"}
Enrollment == [state : {"NONE", "GRAPH_ENROLLED", "BOUND", "UNKNOWN"},
               domain : Domains,
               bound : {"NONE", "BOUND", "PERSISTING", "PERSISTED", "CLAIMED", "UNKNOWN"},
               bridge : {"READY", "PERSISTING", "SEALED_INTENT", "UNKNOWN"},
               backend : {"READY", "PERSISTING", "UNKNOWN"},
               ticket : BOOLEAN]
IntentRecord == [content : {"absent", "partial", "exact"}, synced : BOOLEAN,
                 root : {"exact", "foreign"}]
Process == [pc : RunningPc \cup {"none", "zombie", "gone"}, code : ExitCodes \cup {0}]
Owned == [life : {"NONE", "SPAWNED_UNBOUND", "PIDFD_BOUND", "OWNED_LEADER_REAPED_ONLY",
                  "UNKNOWN_CHILD_MAY_EXIST", "UNKNOWN"},
          state : {"NONE", "BOUND", "TERMINAL_OBSERVED_NOT_REAPED", "REAPED", "UNKNOWN"},
          obs : ExitCodes \cup {0}, pidfd : {"none", "open"}]
Adapter == [state : {"NONE", "PRIMARY", "SETTLEMENT", "REAPED", "DESCENDANT_HANDOFF", "UNKNOWN"},
            cached : BOOLEAN, binding : BOOLEAN]
CaptureStates == {"NONE", "BOUND", "CAPTURE_TRUNCATED_UNSETTLED", "EXECUTION_TIMEOUT_UNSETTLED",
                  "LEADER_OBSERVED_CAPTURE_COMPLETE_NOT_REAPED", "UNKNOWN_MONITOR", "SETTLING",
                  "UNKNOWN_SETTLEMENT", "SETTLEMENT_FINISHED", "CLOSED", "UNKNOWN_EPOLL_CLOSE"}
CaptureStep == {"idle", "turn", "observed", "settled?", "handoff", "reap", "reaped", "enter",
                "observe", "check"}
Captured == [state : CaptureStates, step : CaptureStep, active : BOOLEAN, failure : BOOLEAN,
             used : BOOLEAN, eof : SUBSET Streams, data : [Streams -> Seq(Token)],
             cap : {"NONE", "FRESH", "USED"}, epoll : {"none", "open", "closed", "unknown"}]
Settlement == [outcome : {"NONE", "UNKNOWN_NORMAL_COMPLETION", "LEADER_REAPED_STREAMS_EOF",
                          "CLEANUP_DEADLINE_UNSETTLED", "UNKNOWN_CHILD_OR_CAPTURE_API"},
               reaped : BOOLEAN, deadline : 0..HardLimit, probe : BOOLEAN,
               children : {"UNPROBED", "ECHILD_OBSERVED_AFTER_EXACT_REAP", "NOT_RUN_DEADLINE"}]
Attempt == [state : States, fork_attempted : BOOLEAN, poisoned : BOOLEAN,
            leader_reap_confirmed : BOOLEAN, status : {"UNREAD", "DATA", "EOF"},
            evidence : {"NONE", "MATCH", "MISMATCH"}]
Domain == [state : {"NONE", "PREPARED", "LAUNCHER_CLAIMED", "DRAINING", "STEPPING", "DRAINED",
                    "UNKNOWN"},
           deadline : 0..HardLimit]
Release == [step : StepOutcomes \cup {"NONE", "ADVANCING", "UNKNOWN"},
            status : {"NONE", "OBSERVING", "EOF", "DATA", "EAGAIN", "UNKNOWN"},
            read : {"UNREAD", "EOF", "DATA", "EAGAIN"},
            protocol : {"NONE", "MATCH", "MISMATCH"}, inputs : {"NONE", "QUALIFIED"},
            deadline : {"NONE", "ADMITTING", "ADMITTED", "EXPIRED", "ROLLBACK_REFUSED", "UNKNOWN"},
            plan : {"NONE", "BOUND"}]
Outcome == {"NONE", "CONFIRMED", "CONFIRMED_LATE", "IDENTITY_QUARANTINED", "UNKNOWN"}
TerminalClaim == [running : Resources \cup {"NONE"}, at : {"idle", "observe", "close"},
                  release_active : Resources \cup {"NONE", "POISONED"},
                  attempted : SUBSET Resources, closes : [Resources -> Nat],
                  nested : SUBSET Resources, outcome : [Resources -> Outcome]]

\* Every variable has its type, the fields TypeOK leaves open included.
Typed ==
    /\ clock \in Nat /\ faults \in 0..MaxFaults /\ alive \in BOOLEAN
    /\ fds \in [Procs -> SUBSET Roles] /\ pipe \in [Pipes -> Seq(Token)]
    /\ graph \in Handle /\ enrol \in Enrollment /\ record \in IntentRecord
    /\ child \in Process /\ holder \in {"no", "holding", "wrote", "gone"}
    /\ own \in Owned /\ adp \in Adapter /\ capt \in Captured /\ settle \in Settlement
    /\ att \in Attempt /\ dom \in Domain /\ rel \in Release /\ claim \in TerminalClaim

-----------------------------------------------------------------------------
(* The invariant                                                           *)

Sealed == [content |-> "exact", synced |-> TRUE, root |-> "exact"]

\* How far the enrollment, the bridge and its backend have come together, and
\* what is on disk by then.  A sealed record is never touched again.
IntentDurable ==
    /\ enrol.state \in {"NONE", "GRAPH_ENROLLED"} => enrol.bound = "NONE"
    /\ enrol.bound \in {"NONE", "BOUND"} => enrol.bridge = "READY" /\ enrol.backend = "READY"
    /\ enrol.bridge = "PERSISTING" => enrol.bound = "PERSISTING"
    /\ enrol.backend = "PERSISTING" => enrol.bridge = "PERSISTING"
    /\ enrol.bound = "PERSISTING" => /\ enrol.bridge \in {"PERSISTING", "SEALED_INTENT"}
                                     /\ enrol.backend \in {"PERSISTING", "READY"}
    /\ enrol.bridge = "PERSISTING" /\ enrol.backend = "READY" => record.synced
    /\ enrol.bound \in {"PERSISTED", "CLAIMED"} => enrol.bridge = "SEALED_INTENT"
    /\ enrol.bridge = "SEALED_INTENT" => record = Sealed
    /\ att.state # "NONE" => record = Sealed

\* The latch says whether a child may exist, and so does the attempt's state.
ForkLatched ==
    /\ att.fork_attempted <=> att.state \notin {"NONE", "READY_TO_FORK", "UNKNOWN"}
    /\ child.pc # "none" => att.fork_attempted
    /\ att.state = "LINUX_FORKING" => child.pc = "none"

WriteEnds == {"status_child", "stdout_child", "stderr_child"}

\* Who holds which descriptor.
Accounted ==
    /\ ~alive => fds["launcher"] = {}
    /\ graph.owned \cap graph.lost = {}
    /\ graph.state \in {"UNALLOCATED", "ALLOCATION_REFUSED"} => graph.owned = {}
    /\ EndpointsAccounted
    /\ fds["holder"] \subseteq WriteEnds
    /\ ~Running => fds["child"] = {}

\* An end of file that was read is one: no process can write any more.
Ends ==
    /\ \A s \in capt.eof : Ended(s)
    /\ att.status = "EOF" \/ rel.read = "EOF" => Ended("status")
    /\ att.state = "NONE" => capt.eof = {} /\ att.status = "UNREAD"
    /\ att.state = "LINUX_STATUS_EOF_OBSERVED_UNQUALIFIED" => att.status = "EOF"
    /\ rel.status = "EOF" => rel.read = "EOF"

\* What was observed of the child is what it left.
Observed ==
    /\ own.state \in {"TERMINAL_OBSERVED_NOT_REAPED", "REAPED"} \/ adp.cached =>
        child.pc \in {"zombie", "gone"} /\ own.obs = child.code
    /\ own.state = "REAPED" => child.pc = "gone"

Survivor == "UNKNOWN_SURVIVOR"
ReapPhases ==
    {"LINUX_REAPING_COMPLETION", "LINUX_LEADER_REAPED_UNQUALIFIED",
     "LINUX_OBSERVING_STATUS_TAIL", "LINUX_STATUS_EOF_OBSERVED_UNQUALIFIED",
     "LINUX_ABORT_PROTOCOL_VERIFIED", "LINUX_ABORT_TERMINAL_RELEASE_CLAIMED"}

\* The monitor and the settlement run in their own phases of the attempt, and
\* a child about to be reaped has been observed.
CapturePhases ==
    /\ capt.active => att.state \in {"LINUX_MONITORING_UNREAPED", Survivor}
    /\ capt.state = "SETTLING" =>
        /\ capt.used /\ ~capt.active
        /\ att.state \in {"LINUX_REAPING_COMPLETION", "LINUX_MONITOR_FAILURE_UNSETTLED", Survivor}
        /\ capt.step \in {"handoff", "reap"} => adp.cached
    /\ capt.cap # "NONE" => capt.eof = Streams
    /\ att.state \in ReapPhases => capt.cap = "USED"

\* The two ways on from the reap exclude each other.
Branches ==
    /\ rel # NoRelease =>
        /\ att.state \in {"LINUX_LEADER_REAPED_UNQUALIFIED", Survivor}
        /\ enrol.domain \notin {"NONE", "READY", "FORKED", "ATTACHED_HARD_LIMIT_ONLY"}
    /\ enrol.domain \notin {"NONE", "READY", "UNKNOWN"} => att.fork_attempted
    /\ Claimed => enrol.domain = "NONE"

\* A bound plan's graph is the one it was bound for.
PlanHeld ==
    rel.plan = "BOUND" => graph.owned = ParentEnds \ {"grant_parent"} /\ graph.lost = {}

\* The claim: every release was entered behind confirmed ones, the one under way
\* has no outcome yet, and a disturbed slot stays poisoned until it is freed.
ClaimOrder ==
    /\ claim # NewClaim => Claimed
    /\ claim.running = "NONE" <=> claim.at = "idle"
    /\ claim.running # "NONE" =>
        /\ claim.running \in claim.attempted /\ claim.outcome[claim.running] = "NONE"
        /\ claim.closes[claim.running] = IF claim.at = "close" THEN 1 ELSE 0
        /\ claim.running \in claim.nested => claim.release_active = "POISONED"
    /\ \A r \in claim.attempted : \A b \in Before(r) : claim.outcome[b] = "CONFIRMED"
    /\ \A r \in Resources \ claim.attempted :
        claim.closes[r] = 0 /\ claim.outcome[r] = "NONE" /\ r \notin claim.nested
    /\ ReleaseIsHonest

PipelineInv ==
    /\ Typed /\ IntentDurable /\ ForkLatched /\ Accounted /\ Ends /\ Observed /\ CapturePhases
    /\ Branches /\ VerifiedIsTrue /\ PlanIsTrue /\ PlanHeld /\ ClaimOrder

-----------------------------------------------------------------------------
(* The types of the values the steps assign                                *)

LEMMA LimitTypes ==
    /\ Deadline \in Nat \ {0} /\ CleanupBudget \in Nat \ {0} /\ MaxFaults \in Nat
    /\ HardLimit \in Nat /\ HardLimit = Deadline + CleanupBudget /\ CaptureLimit \in Nat \ {0}
BY BoundsAssumption, LimitAssumption DEF HardLimit

LEMMA FaultTypes ==
    ASSUME faults \in 0..MaxFaults, Working \/ Failing
    PROVE  faults' \in 0..MaxFaults
BY LimitTypes DEF Working, Failing, CanFail

LEMMA FdsTypes ==
    ASSUME NEW f \in [Procs -> SUBSET Roles], NEW p \in Procs, NEW s \in SUBSET Roles
    PROVE  [f EXCEPT ![p] = s] \in [Procs -> SUBSET Roles]
OBVIOUS

LEMMA PipeTypes ==
    ASSUME NEW f \in [Pipes -> Seq(Token)], NEW p \in Pipes, NEW s \in Seq(Token)
    PROVE  [f EXCEPT ![p] = s] \in [Pipes -> Seq(Token)]
OBVIOUS

LEMMA RoleTypes ==
    /\ ParentEnds \subseteq Roles /\ ChildEnds \subseteq Roles /\ WriteEnds \subseteq ChildEnds
    /\ "grant_parent" \in Roles /\ \A i \in 1..4 : PARENT_CLOSE_ROLES[i] \in Roles
    /\ "launcher" \in Procs /\ "child" \in Procs /\ "holder" \in Procs
    /\ "status" \in Pipes /\ "stdout" \in Pipes /\ "stderr" \in Pipes /\ "grant" \in Pipes
<1>1. \A i \in 1..4 : PARENT_CLOSE_ROLES[i] \in Roles
  <2>1. 1..4 = {1, 2, 3, 4}
    OBVIOUS
  <2> QED BY <2>1 DEF PARENT_CLOSE_ROLES, Roles, ChildEnds
<1> QED BY <1>1 DEF ParentEnds, ChildEnds, Roles, WriteEnds, Procs, Pipes

LEMMA HandleTypes ==
    /\ FreshHandle \in Handle
    /\ [FreshHandle EXCEPT !.state = "UNALLOCATED", !.owned = {}] \in Handle
    /\ \A g \in Handle : /\ claim_close_only_once(g) \in Handle
                         /\ [g EXCEPT !.state = "ALLOCATION_REFUSED"] \in Handle
                         /\ [claim_close_only_once(g) EXCEPT !.state = "UNKNOWN_FD_GRAPH"] \in Handle
BY DEF FreshHandle, Handle, claim_close_only_once

LEMMA ClosedTypes ==
    ASSUME NEW g \in Handle, NEW role \in Roles
    PROVE  /\ CloseConfirmed(g, role) \in Handle /\ CloseUnknown(g, role) \in Handle
           /\ CloseTargetLost(g, role) \in Handle
BY DEF Handle, CloseConfirmed, CloseUnknown, CloseTargetLost

LEMMA EnrollmentTypes ==
    ASSUME NEW e \in Enrollment
    PROVE  /\ PoisonEnrollment(e) \in Enrollment /\ NotPersisted(e) \in Enrollment
           /\ BridgeRefuses(e) \in Enrollment /\ BackendRefuses(e) \in Enrollment
           /\ BoundNoGrantIntentCapability(e) \in Enrollment /\ ForkedDomain(e) \in Enrollment
<1>1. PoisonEnrollment(e) \in Enrollment
  BY DEF PoisonEnrollment, Enrollment, Domains
<1>2. NotPersisted(e) \in Enrollment
  BY <1>1 DEF NotPersisted, Enrollment
<1>3. BridgeRefuses(e) \in Enrollment
  BY <1>2 DEF BridgeRefuses, Enrollment
<1>4. BackendRefuses(e) \in Enrollment
  BY <1>3 DEF BackendRefuses, Enrollment
<1>5. BoundNoGrantIntentCapability(e) \in Enrollment
  BY DEF BoundNoGrantIntentCapability, Enrollment
<1>6. ForkedDomain(e) \in Enrollment
  BY DEF ForkedDomain, Enrollment, Domains
<1> QED BY <1>1, <1>2, <1>3, <1>4, <1>5, <1>6

LEMMA EnrollmentFieldTypes ==
    ASSUME NEW e \in Enrollment
    PROVE  /\ \A d \in Domains : [e EXCEPT !.domain = d] \in Enrollment
           /\ [e EXCEPT !.state = "GRAPH_ENROLLED"] \in Enrollment
           /\ [e EXCEPT !.bound = "PERSISTING", !.bridge = "PERSISTING",
                        !.backend = "PERSISTING"] \in Enrollment
           /\ [e EXCEPT !.backend = "READY"] \in Enrollment
           /\ [e EXCEPT !.bridge = "SEALED_INTENT"] \in Enrollment
           /\ [e EXCEPT !.bound = "PERSISTED"] \in Enrollment
           /\ [e EXCEPT !.bound = "CLAIMED"] \in Enrollment
           /\ [PoisonEnrollment(e) EXCEPT !.bound = "UNKNOWN"] \in Enrollment
<1>1. [PoisonEnrollment(e) EXCEPT !.bound = "UNKNOWN"] \in Enrollment
  BY EnrollmentTypes DEF Enrollment
<1>2. \A d \in Domains : [e EXCEPT !.domain = d] \in Enrollment
  BY DEF Enrollment
<1> QED BY <1>1, <1>2 DEF Enrollment

LEMMA RecordTypes ==
    /\ NoRecord \in IntentRecord /\ Sealed \in IntentRecord
    /\ \A r \in IntentRecord : /\ [r EXCEPT !.root = "foreign"] \in IntentRecord
                               /\ [r EXCEPT !.content = "partial"] \in IntentRecord
                               /\ [r EXCEPT !.content = "exact"] \in IntentRecord
                               /\ [r EXCEPT !.synced = TRUE] \in IntentRecord
BY DEF NoRecord, IntentRecord, Sealed

LEMMA ProcessTypes ==
    /\ NoChild \in Process /\ Forked \in Process
    /\ \A c \in ExitCodes, pc \in {"zombie", "gone"} : [pc |-> pc, code |-> c] \in Process
    /\ \A c \in Process, pc \in RunningPc \cup {"gone"} : [c EXCEPT !.pc = pc] \in Process
BY DEF NoChild, Forked, Process, RunningPc

LEMMA OwnedTypes ==
    /\ NoOwned \in Owned
    /\ \A o \in Owned :
        /\ [o EXCEPT !.life = "SPAWNED_UNBOUND"] \in Owned
        /\ [o EXCEPT !.life = "PIDFD_BOUND", !.state = "BOUND", !.pidfd = "open"] \in Owned
        /\ [o EXCEPT !.life = "UNKNOWN_CHILD_MAY_EXIST"] \in Owned
        /\ [o EXCEPT !.life = "UNKNOWN", !.state = "UNKNOWN"] \in Owned
        /\ [o EXCEPT !.state = "REAPED", !.life = "OWNED_LEADER_REAPED_ONLY"] \in Owned
    /\ \A o \in Owned, c \in ExitCodes \cup {0} :
        [o EXCEPT !.state = "TERMINAL_OBSERVED_NOT_REAPED", !.obs = c] \in Owned
BY DEF NoOwned, Owned

LEMMA ObservedTypes ==
    ASSUME own \in Owned, child \in Process
    PROVE  observe_exit_nonblocking \in Owned
<1>1. child.code \in ExitCodes \cup {0}
  BY DEF Process
<1> QED BY <1>1, OwnedTypes DEF observe_exit_nonblocking

LEMMA AdapterTypes ==
    /\ NoAdapter \in Adapter /\ bind_capture_child_adapter \in Adapter
    /\ \A a \in Adapter :
        /\ [a EXCEPT !.state = "SETTLEMENT"] \in Adapter
        /\ [a EXCEPT !.state = "REAPED"] \in Adapter
        /\ [a EXCEPT !.state = "DESCENDANT_HANDOFF"] \in Adapter
        /\ [a EXCEPT !.state = "UNKNOWN"] \in Adapter
        /\ [a EXCEPT !.binding = TRUE] \in Adapter
    /\ \A a \in Adapter, b \in BOOLEAN : [a EXCEPT !.cached = b] \in Adapter
BY Zenon DEF NoAdapter, bind_capture_child_adapter, Adapter

LEMMA CapturedTypes ==
    /\ NoCapture \in Captured /\ bind_capture_pipes \in Captured
    /\ \A c \in Captured, st \in CaptureStep : [c EXCEPT !.step = st] \in Captured
    /\ \A c \in Captured, s \in CaptureStates : [c EXCEPT !.state = s, !.step = "idle"] \in Captured
<1>1. [s \in Streams |-> <<>>] \in [Streams -> Seq(Token)]
  OBVIOUS
<1>2. NoCapture \in Captured
  BY <1>1 DEF NoCapture, Captured, CaptureStates, CaptureStep, Streams
<1>3. bind_capture_pipes \in Captured
  BY <1>2 DEF bind_capture_pipes, Captured, CaptureStates
<1>4. \A c \in Captured, st \in CaptureStep : [c EXCEPT !.step = st] \in Captured
  BY DEF Captured
<1>5. \A c \in Captured, s \in CaptureStates : [c EXCEPT !.state = s, !.step = "idle"] \in Captured
  BY DEF Captured, CaptureStep
<1> QED BY <1>2, <1>3, <1>4, <1>5

LEMMA MonitorTypes ==
    ASSUME NEW c \in Captured
    PROVE  /\ [c EXCEPT !.active = TRUE, !.step = "turn"] \in Captured
           /\ \A s \in CaptureStates, b \in BOOLEAN :
                [c EXCEPT !.state = s, !.active = FALSE, !.step = "idle", !.failure = b] \in Captured
           /\ \A s \in CaptureStates :
                [c EXCEPT !.state = s, !.active = FALSE, !.step = "idle"] \in Captured
           /\ [c EXCEPT !.state = "LEADER_OBSERVED_CAPTURE_COMPLETE_NOT_REAPED",
                        !.active = FALSE, !.step = "idle", !.cap = "FRESH"] \in Captured
           /\ [c EXCEPT !.state = "SETTLING", !.used = TRUE, !.cap = "USED",
                        !.step = "handoff"] \in Captured
           /\ [c EXCEPT !.state = "SETTLING", !.used = TRUE, !.step = "enter"] \in Captured
           /\ [c EXCEPT !.state = "CLOSED", !.epoll = "closed"] \in Captured
           /\ [c EXCEPT !.state = "UNKNOWN_EPOLL_CLOSE", !.epoll = "unknown"] \in Captured
<1>1. /\ "turn" \in CaptureStep /\ "idle" \in CaptureStep /\ "handoff" \in CaptureStep
      /\ "enter" \in CaptureStep /\ "LEADER_OBSERVED_CAPTURE_COMPLETE_NOT_REAPED" \in CaptureStates
      /\ "SETTLING" \in CaptureStates /\ "CLOSED" \in CaptureStates
      /\ "UNKNOWN_EPOLL_CLOSE" \in CaptureStates
  BY DEF CaptureStep, CaptureStates
<1> QED BY <1>1, Zenon DEF Captured

\* What a turn reads leaves sequences of tokens on both sides.
LEMMA DrainTypes ==
    ASSUME capt \in Captured, pipe \in [Pipes -> Seq(Token)],
           NEW ready \in SUBSET Streams, drain_ready_turn(ready)
    PROVE  capt' \in Captured /\ pipe' \in [Pipes -> Seq(Token)]
<1>1. pipe' \in [Pipes -> Seq(Token)]
  BY DEF drain_ready_turn
<1>2. \A s \in Streams : pipe[s] \in Seq(Token)
  BY DEF Streams, Pipes
<1>3. \A s \in Streams : capt.data[s] \in Seq(Token)
  BY DEF Captured
<1> DEFINE d == [s \in Streams |-> IF s \in ready THEN capt.data[s] \o pipe[s] ELSE capt.data[s]]
           e == capt.eof \cup {s \in ready : Ended(s)}
<1>4. d \in [Streams -> Seq(Token)]
  BY <1>2, <1>3
<1>5. e \in SUBSET Streams
  BY DEF Captured
<1>6. capt' = [capt EXCEPT !.data = d, !.eof = e, !.step = "turn"]
  BY DEF drain_ready_turn
<1> HIDE DEF d, e
<1>7. capt' \in Captured
  BY <1>4, <1>5, <1>6 DEF Captured, CaptureStep
<1> QED BY <1>1, <1>7

LEMMA SettlementTypes ==
    /\ NoSettlement \in Settlement
    /\ \A s \in Settlement, d \in 0..HardLimit : [s EXCEPT !.deadline = d] \in Settlement
    /\ \A s \in Settlement, b \in BOOLEAN :
        /\ [s EXCEPT !.outcome = "UNKNOWN_NORMAL_COMPLETION", !.reaped = b] \in Settlement
        /\ [s EXCEPT !.outcome = "LEADER_REAPED_STREAMS_EOF", !.reaped = b] \in Settlement
    /\ \A s \in Settlement :
        /\ [s EXCEPT !.reaped = TRUE] \in Settlement
        /\ [s EXCEPT !.probe = TRUE] \in Settlement
        /\ [s EXCEPT !.outcome = "UNKNOWN_CHILD_OR_CAPTURE_API"] \in Settlement
        /\ [s EXCEPT !.outcome = "CLEANUP_DEADLINE_UNSETTLED"] \in Settlement
        /\ [s EXCEPT !.outcome = "LEADER_REAPED_STREAMS_EOF"] \in Settlement
    /\ \A s \in Settlement,
          c \in {"ECHILD_OBSERVED_AFTER_EXACT_REAP", "NOT_RUN_DEADLINE"} :
        [s EXCEPT !.probe = TRUE, !.children = c] \in Settlement
<1>1. 0 \in 0..HardLimit
  BY LimitTypes
<1>2. NoSettlement \in Settlement
  BY <1>1 DEF NoSettlement, Settlement
<1> QED BY <1>2, Zenon DEF Settlement

LEMMA AttemptTypes ==
    /\ NoAttempt \in Attempt
    /\ \A a \in Attempt, s \in States : [a EXCEPT !.state = s] \in Attempt
    /\ \A a \in Attempt : _poison(a) \in Attempt
    /\ \A a \in Attempt : [a EXCEPT !.state = "LINUX_FORKING", !.fork_attempted = TRUE] \in Attempt
    /\ \A a \in Attempt, s \in {"DATA", "EOF"} : [a EXCEPT !.status = s] \in Attempt
    /\ \A a \in Attempt, s \in States, b \in BOOLEAN :
        [a EXCEPT !.leader_reap_confirmed = b, !.state = s] \in Attempt
    /\ \A a \in Attempt, s \in States, v \in {"MATCH", "MISMATCH"} :
        [a EXCEPT !.state = s, !.evidence = v] \in Attempt
<1>1. NoAttempt \in Attempt
  BY DEF NoAttempt, Attempt, States, Dead
<1>2. {"UNKNOWN_SURVIVOR", "UNKNOWN", "LINUX_FORKING"} \subseteq States
  BY DEF States, Dead
<1>3. \A a \in Attempt : _poison(a) \in Attempt
  BY <1>2 DEF _poison, Attempt
<1>4. \A a \in Attempt : [a EXCEPT !.state = "LINUX_FORKING", !.fork_attempted = TRUE] \in Attempt
  BY <1>2 DEF Attempt
<1> QED BY <1>1, <1>3, <1>4, Zenon DEF Attempt

LEMMA DomainTypes ==
    /\ NoDomain \in Domain /\ [state |-> "PREPARED", deadline |-> HardLimit] \in Domain
    /\ \A d \in Domain, s \in {"LAUNCHER_CLAIMED", "DRAINING", "STEPPING", "DRAINED", "UNKNOWN"} :
        [d EXCEPT !.state = s] \in Domain
    /\ \A d \in Domain, t \in 0..HardLimit : [d EXCEPT !.deadline = t] \in Domain
<1>1. 0 \in 0..HardLimit /\ HardLimit \in 0..HardLimit
  BY LimitTypes
<1> QED BY <1>1 DEF NoDomain, Domain

LEMMA ReleaseTypes ==
    /\ NoRelease \in Release
    /\ \A r \in Release, s \in StepOutcomes \cup {"ADVANCING", "UNKNOWN"} :
        [r EXCEPT !.step = s] \in Release
    /\ \A r \in Release, s \in {"OBSERVING", "EOF", "DATA", "EAGAIN", "UNKNOWN"} :
        [r EXCEPT !.status = s] \in Release
    /\ \A r \in Release, s \in {"EOF", "DATA", "EAGAIN"} : [r EXCEPT !.read = s] \in Release
    /\ \A r \in Release, s \in {"MATCH", "MISMATCH"} : [r EXCEPT !.protocol = s] \in Release
    /\ \A r \in Release : [r EXCEPT !.inputs = "QUALIFIED"] \in Release
    /\ \A r \in Release : [r EXCEPT !.plan = "BOUND"] \in Release
    /\ \A r \in Release,
          s \in {"ADMITTING", "ADMITTED", "EXPIRED", "ROLLBACK_REFUSED", "UNKNOWN"} :
        [r EXCEPT !.deadline = s] \in Release
<1>1. NoRelease \in Release
  BY DEF NoRelease, Release
<1>2. \A r \in Release, s \in StepOutcomes \cup {"ADVANCING", "UNKNOWN"} :
        [r EXCEPT !.step = s] \in Release
  BY DEF Release
<1>3. \A r \in Release, s \in {"OBSERVING", "EOF", "DATA", "EAGAIN", "UNKNOWN"} :
        [r EXCEPT !.status = s] \in Release
  BY DEF Release
<1>4. \A r \in Release,
          s \in {"ADMITTING", "ADMITTED", "EXPIRED", "ROLLBACK_REFUSED", "UNKNOWN"} :
        [r EXCEPT !.deadline = s] \in Release
  BY DEF Release
<1>5. \A r \in Release, s \in {"EOF", "DATA", "EAGAIN"} : [r EXCEPT !.read = s] \in Release
  BY DEF Release
<1>6. /\ \A r \in Release, s \in {"MATCH", "MISMATCH"} : [r EXCEPT !.protocol = s] \in Release
      /\ \A r \in Release : [r EXCEPT !.inputs = "QUALIFIED"] \in Release
      /\ \A r \in Release : [r EXCEPT !.plan = "BOUND"] \in Release
  BY DEF Release
<1> QED BY <1>1, <1>2, <1>3, <1>4, <1>5, <1>6

-----------------------------------------------------------------------------
(* Typed is preserved                                                      *)

GraphTyped ==
    /\ clock \in Nat /\ faults \in 0..MaxFaults /\ alive \in BOOLEAN
    /\ fds \in [Procs -> SUBSET Roles] /\ pipe \in [Pipes -> Seq(Token)]
    /\ graph \in Handle /\ enrol \in Enrollment /\ record \in IntentRecord

LEMMA GraphKeepsTypes ==
    ASSUME GraphTyped, IntentDurable, GraphNext
    PROVE  GraphTyped'
<1> USE DEF GraphTyped
<1>1. ASSUME allocate_real_fd_graph \/ AllocationRefusal PROVE GraphTyped'
  <2>1. /\ graph' \in Handle
    BY <1>1, HandleTypes DEF allocate_real_fd_graph, AllocationRefusal
  <2>2. fds' \in [Procs -> SUBSET Roles]
    <3>1. {} \in SUBSET Roles /\ {"grant_child"} \in SUBSET Roles /\ ChildEnds \in SUBSET Roles /\ Roles \in SUBSET Roles
      BY DEF Roles, ChildEnds
    <3>2. "launcher" \in Procs
      BY RoleTypes
    <3>3. CASE allocate_real_fd_graph
      BY <3>3, <3>1, <3>2, FdsTypes DEF allocate_real_fd_graph
    <3>4. CASE AllocationRefusal
      BY <3>4, <3>1, <3>2, FdsTypes DEF AllocationRefusal
    <3> QED BY <1>1, <3>3, <3>4
  <2> QED BY <1>1, <2>1, <2>2, FaultTypes DEF allocate_real_fd_graph, AllocationRefusal
<1>2. ASSUME enroll_allocated_no_grant_graph \/ EnrollmentRefused PROVE GraphTyped'
  BY <1>2, HandleTypes, EnrollmentFieldTypes, FaultTypes
  DEF enroll_allocated_no_grant_graph, EnrollmentRefused
<1>3. ASSUME enroll_allocated_descendant_domain \/ bind_once \/ BindRefused PROVE GraphTyped'
  <2>1. "READY" \in Domains
    BY DEF Domains
  <2> QED BY <1>3, <2>1, EnrollmentTypes, EnrollmentFieldTypes, FaultTypes
          DEF enroll_allocated_descendant_domain, bind_once, BindRefused
<1>4. ASSUME persist_bound_intent_once \/ CreateRecord \/ WriteAll \/ persist_exact_file
      PROVE  GraphTyped'
  BY <1>4, EnrollmentTypes, EnrollmentFieldTypes, RecordTypes, FaultTypes
  DEF persist_bound_intent_once, CreateRecord, WriteAll, persist_exact_file
<1>5. ASSUME SealIntent \/ PersistedNoGrantIntentCapability \/ RootReplaced PROVE GraphTyped'
  BY <1>5, EnrollmentTypes, EnrollmentFieldTypes, RecordTypes, FaultTypes
  DEF SealIntent, PersistedNoGrantIntentCapability, RootReplaced
<1>6. ASSUME PersistFails PROVE GraphTyped'
  <2>1. enrol.backend \in {"READY", "PERSISTING"}
    BY <1>6 DEF PersistFails, IntentDurable
  <2>2. enrol' \in {NotPersisted(enrol), BridgeRefuses(enrol), BackendRefuses(enrol)}
    BY <1>6, <2>1 DEF PersistFails
  <2> QED BY <1>6, <2>2, EnrollmentTypes, FaultTypes DEF PersistFails
<1> QED BY <1>1, <1>2, <1>3, <1>4, <1>5, <1>6 DEF GraphNext

\* The child and what is around it.
ChildTyped == GraphTyped /\ child \in Process /\ holder \in {"no", "holding", "wrote", "gone"}

LEMMA ExitTypes ==
    ASSUME ChildTyped, NEW c \in ExitCodes, Exit(c)
    PROVE  child' \in Process /\ fds' \in [Procs -> SUBSET Roles]
<1>1. {} \in SUBSET Roles /\ "child" \in Procs
  BY RoleTypes
<1> QED BY <1>1, ProcessTypes, FdsTypes DEF ChildTyped, GraphTyped, Exit

LEMMA ChildKeepsTypes ==
    ASSUME ChildTyped, ChildNext
    PROVE  ChildTyped'
<1> USE DEF ChildTyped, GraphTyped
<1>0. EXIT_ABORT_EOF \in ExitCodes /\ EXIT_GRANT_DATA \in ExitCodes /\ EXIT_CHILD_ERROR \in ExitCodes
      /\ Signaled \in ExitCodes
  BY DEF ExitCodes
<1>p. /\ "closing" \in RunningPc /\ "ready" \in RunningPc /\ "stdout" \in RunningPc
      /\ "stderr" \in RunningPc /\ "wait_grant" \in RunningPc
  BY DEF RunningPc
<1>1. ASSUME current_child_identity PROVE ChildTyped'
  BY <1>1, <1>0, <1>p, ExitTypes, ProcessTypes, FaultTypes DEF current_child_identity, Goto
<1>2. ASSUME ChildClosesParentEnds PROVE ChildTyped'
  <2>1. fds["child"] \ ParentEnds \in SUBSET Roles /\ "child" \in Procs
    BY RoleTypes
  <2>2. fds' \in [Procs -> SUBSET Roles]
    BY <1>2, <2>1, FdsTypes DEF ChildClosesParentEnds
  <2> QED BY <1>2, <2>2, <1>p, ProcessTypes, FaultTypes DEF ChildClosesParentEnds, Goto
<1>3. ASSUME NEW p \in Pipes, NEW at, NEW token \in Token, NEW next \in RunningPc,
             _write_exact(p, at, token, next)
      PROVE  ChildTyped'
  <2>1. Append(pipe[p], token) \in Seq(Token)
    OBVIOUS
  <2>2. [pipe EXCEPT ![p] = Append(@, token)] \in [Pipes -> Seq(Token)]
    BY <2>1, PipeTypes
  <2>3. [child EXCEPT !.pc = next] \in Process
    BY ProcessTypes
  <2> QED BY <1>3, <2>2, <2>3, <1>0, ExitTypes, FaultTypes DEF _write_exact, Goto
<1>4. ASSUME ChildWrites PROVE ChildTyped'
  <2>1. "R" \in Token /\ "C" \in Token
    BY DEF Token
  <2> QED BY <1>3, <1>4, <1>p, <2>1, RoleTypes DEF ChildWrites
<1>5. ASSUME read_grant \/ ChildDeadline \/ _exit_once \/ Killed PROVE ChildTyped'
  BY <1>5, <1>0, ExitTypes, FaultTypes DEF read_grant, ChildDeadline, _exit_once, Killed
<1>6. ASSUME HolderOpens PROVE ChildTyped'
  <2>1. PICK role \in fds["child"] \cap (ChildEnds \ {"grant_child"}) :
          fds' = [fds EXCEPT !["holder"] = {role}]
    BY <1>6 DEF HolderOpens
  <2>2. {role} \in SUBSET Roles /\ "holder" \in Procs
    BY RoleTypes
  <2>3. fds' \in [Procs -> SUBSET Roles]
    BY <2>1, <2>2, FdsTypes
  <2> QED BY <1>6, <2>3, FaultTypes DEF HolderOpens
<1>7. ASSUME HolderWrites PROVE ChildTyped'
  <2>1. PICK p \in Pipes : pipe' = [pipe EXCEPT ![p] = Append(@, "x")]
    BY <1>7 DEF HolderWrites
  <2>2. "x" \in Token
    BY DEF Token
  <2>3. Append(pipe[p], "x") \in Seq(Token)
    BY <2>2
  <2>4. pipe' \in [Pipes -> Seq(Token)]
    BY <2>1, <2>3, PipeTypes
  <2> QED BY <1>7, <2>4, FaultTypes DEF HolderWrites
<1>8. ASSUME HolderCloses PROVE ChildTyped'
  <2>1. {} \in SUBSET Roles /\ "holder" \in Procs
    BY RoleTypes
  <2> QED BY <1>8, <2>1, FdsTypes, FaultTypes DEF HolderCloses
<1>9. ASSUME LauncherDies PROVE ChildTyped'
  <2>1. {} \in SUBSET Roles /\ "launcher" \in Procs
    BY RoleTypes
  <2> QED BY <1>9, <2>1, FdsTypes, ProcessTypes, FaultTypes DEF LauncherDies
<1>10. ASSUME Tick PROVE ChildTyped'
  BY <1>10 DEF Tick
<1> QED BY <1>1, <1>2, <1>4, <1>5, <1>6, <1>7, <1>8, <1>9, <1>10 DEF ChildNext, ChildSteps

\* The capture.  What it leaves alone is the graph and the foreign process.
CaptureTyped ==
    ChildTyped /\ own \in Owned /\ adp \in Adapter /\ capt \in Captured /\ settle \in Settlement

LEMMA ObserveTypes ==
    ASSUME CaptureTyped, observe_or_cached
    PROVE  own' \in Owned /\ adp' \in Adapter
<1>1. own' \in Owned
  BY ObservedTypes DEF observe_or_cached, CaptureTyped, ChildTyped
<1>2. adp' = [adp EXCEPT !.cached = (own'.state = "TERMINAL_OBSERVED_NOT_REAPED")]
  BY DEF observe_or_cached
<1>3. (own'.state = "TERMINAL_OBSERVED_NOT_REAPED") \in BOOLEAN
  OBVIOUS
<1> DEFINE b == (own'.state = "TERMINAL_OBSERVED_NOT_REAPED")
<1> HIDE DEF b
<1>4. adp' = [adp EXCEPT !.cached = b] /\ b \in BOOLEAN
  BY <1>2, <1>3 DEF b
<1>5. adp' \in Adapter
  BY <1>4, AdapterTypes DEF CaptureTyped
<1> QED BY <1>1, <1>5

LEMMA PoisonTypes ==
    ASSUME CaptureTyped, AdapterPoison
    PROVE  own' \in Owned /\ adp' \in Adapter
BY OwnedTypes, AdapterTypes DEF CaptureTyped, AdapterPoison

LEMMA ReapTypes ==
    ASSUME CaptureTyped, reap_cached_once \/ ReapUnknown
    PROVE  own' \in Owned /\ adp' \in Adapter /\ child' \in Process
<1>1. CASE reap_cached_once
  BY <1>1, OwnedTypes, AdapterTypes, ProcessTypes
  DEF CaptureTyped, ChildTyped, reap_cached_once, reap_observed_exit
<1>2. CASE ReapUnknown
  <2>1. own' \in Owned /\ adp' \in Adapter
    BY <1>2, PoisonTypes DEF ReapUnknown
  <2> QED BY <1>2, <2>1, ProcessTypes DEF CaptureTyped, ChildTyped, ReapUnknown
<1> QED BY <1>1, <1>2

LEMMA FailureTypes ==
    ASSUME CaptureTyped, AdapterAfterFailure
    PROVE  own' \in Owned /\ adp' \in Adapter /\ child' \in Process
<1>1. CASE ReapUnknown
  BY <1>1, ReapTypes
<1>2. CASE AdapterPoison /\ UNCHANGED child
  BY <1>2, PoisonTypes DEF CaptureTyped, ChildTyped
<1>3. CASE UNCHANGED <<adp, own, child>>
  BY <1>3 DEF CaptureTyped, ChildTyped
<1> QED BY <1>1, <1>2, <1>3 DEF AdapterAfterFailure

LEMMA StepTypes ==
    /\ {"idle", "turn", "observed", "settled?", "handoff", "reap", "reaped", "enter",
        "observe", "check"} \subseteq CaptureStep
    /\ {"CAPTURE_TRUNCATED_UNSETTLED", "EXECUTION_TIMEOUT_UNSETTLED", "UNKNOWN_MONITOR",
        "UNKNOWN_SETTLEMENT", "SETTLEMENT_FINISHED"} \subseteq CaptureStates
BY DEF CaptureStep, CaptureStates

LEMMA MonitorKeepsTypes ==
    ASSUME CaptureTyped, MonitorNext
    PROVE  CaptureTyped'
<1> USE DEF CaptureTyped, ChildTyped, GraphTyped
<1>e. ASSUME NEW s \in {"CAPTURE_TRUNCATED_UNSETTLED", "EXECUTION_TIMEOUT_UNSETTLED"},
             MonitorEnds(s)
      PROVE  capt' \in Captured
  <2>1. s \in CaptureStates
    BY StepTypes
  <2>2. (s \in {"EXECUTION_TIMEOUT_UNSETTLED", "CAPTURE_TRUNCATED_UNSETTLED"}) = TRUE
    OBVIOUS
  <2>3. capt' = [capt EXCEPT !.state = s, !.active = FALSE, !.step = "idle", !.failure = TRUE]
    BY <1>e, <2>2 DEF MonitorEnds
  <2> QED BY <2>1, <2>3, MonitorTypes
<1>s. \A st \in {"settled?", "observed", "turn", "reap", "check"} : [capt EXCEPT !.step = st] \in Captured
  BY StepTypes, CapturedTypes
<1>1. ASSUME MonitorTurn PROVE CaptureTyped'
  <2>1. capt' \in Captured /\ own' \in Owned /\ adp' \in Adapter
    <3>1. CASE Truncated
      BY <1>1, <3>1, <1>e DEF MonitorTurn
    <3>2. CASE ~Truncated /\ ~InTime
      BY <1>1, <3>2, <1>e DEF MonitorTurn
    <3>3. CASE ~Truncated /\ InTime /\ adp.cached
      BY <1>1, <3>3, <1>s DEF MonitorTurn
    <3>4. CASE ~Truncated /\ InTime /\ ~adp.cached
      <4>1. capt' = [capt EXCEPT !.step = "observed"] /\ observe_or_cached
        BY <1>1, <3>4 DEF MonitorTurn
      <4> QED BY <4>1, <1>s, ObserveTypes
    <3> QED BY <3>1, <3>2, <3>3, <3>4
  <2> QED BY <1>1, <2>1, FaultTypes DEF MonitorTurn
<1>2. ASSUME MonitorResample PROVE CaptureTyped'
  <2>1. capt' \in Captured
    BY <1>2, <1>e, <1>s DEF MonitorResample
  <2> QED BY <1>2, <2>1, FaultTypes DEF MonitorResample
<1>3. ASSUME MonitorCompletes PROVE CaptureTyped'
  <2>1. capt' \in Captured
    BY <1>3, MonitorTypes DEF MonitorCompletes
  <2> QED BY <1>3, <2>1, FaultTypes DEF MonitorCompletes
<1>4. ASSUME MonitorPolls PROVE CaptureTyped'
  <2>1. PICK ready \in SUBSET Ready : drain_ready_turn(ready)
    BY <1>4 DEF MonitorPolls
  <2>2. ready \in SUBSET Streams
    BY DEF Ready
  <2>3. capt' \in Captured /\ pipe' \in [Pipes -> Seq(Token)]
    BY <2>1, <2>2, DrainTypes
  <2> QED BY <1>4, <2>3, FaultTypes DEF MonitorPolls
<1>5. ASSUME MonitorFails PROVE CaptureTyped'
  <2>1. capt' \in Captured
    BY <1>5, MonitorTypes, StepTypes DEF MonitorFails
  <2>2. own' \in Owned /\ adp' \in Adapter
    BY <1>5, PoisonTypes DEF MonitorFails
  <2> QED BY <1>5, <2>1, <2>2, FaultTypes DEF MonitorFails
<1> QED BY <1>1, <1>2, <1>3, <1>4, <1>5 DEF MonitorNext

LEMMA SettlementUnknownTypes ==
    ASSUME CaptureTyped, NEW b \in BOOLEAN, SettlementUnknown(b)
    PROVE  capt' \in Captured /\ settle' \in Settlement
BY CapturedTypes, SettlementTypes, StepTypes DEF CaptureTyped, SettlementUnknown

LEMMA ReapKeepsTypes ==
    ASSUME CaptureTyped, ReapNext
    PROVE  CaptureTyped'
<1> USE DEF CaptureTyped, ChildTyped, GraphTyped
<1>s. /\ [capt EXCEPT !.step = "reap"] \in Captured /\ [capt EXCEPT !.step = "reaped"] \in Captured
      /\ [capt EXCEPT !.state = "SETTLEMENT_FINISHED", !.step = "idle"] \in Captured
  BY StepTypes, CapturedTypes
<1>1. ASSUME ReapHandsOff PROVE CaptureTyped'
  <2>1. CASE InCleanup
    BY <1>1, <2>1, <1>s, AdapterTypes, FaultTypes DEF ReapHandsOff, enter_completed_settlement
  <2>2. CASE ~InCleanup
    BY <1>1, <2>2, SettlementUnknownTypes, FaultTypes DEF ReapHandsOff
  <2> QED BY <2>1, <2>2
<1>2. ASSUME ReapsChild PROVE CaptureTyped'
  <2>1. CASE InCleanup
    BY <1>2, <2>1, <1>s, ReapTypes, FaultTypes DEF ReapsChild
  <2>2. CASE ~InCleanup
    BY <1>2, <2>2, SettlementUnknownTypes, FaultTypes DEF ReapsChild
  <2> QED BY <2>1, <2>2
<1>3. ASSUME ReapSettles PROVE CaptureTyped'
  <2>1. CASE InCleanup
    BY <1>3, <2>1, <1>s, SettlementTypes, FaultTypes DEF ReapSettles
  <2>2. CASE ~InCleanup
    BY <1>3, <2>2, SettlementUnknownTypes, FaultTypes DEF ReapSettles
  <2> QED BY <2>1, <2>2
<1>4. ASSUME ReapFails PROVE CaptureTyped'
  <2>1. (capt.step = "reaped") \in BOOLEAN
    OBVIOUS
  <2>2. capt' \in Captured /\ settle' \in Settlement
    BY <1>4, <2>1, SettlementUnknownTypes DEF ReapFails
  <2>3. own' \in Owned /\ adp' \in Adapter /\ child' \in Process
    BY <1>4, FailureTypes DEF ReapFails
  <2> QED BY <1>4, <2>2, <2>3, FaultTypes DEF ReapFails
<1> QED BY <1>1, <1>2, <1>3, <1>4 DEF ReapNext

LEMMA SettleKeepsTypes ==
    ASSUME CaptureTyped, SettleNext
    PROVE  CaptureTyped'
<1> USE DEF CaptureTyped, ChildTyped, GraphTyped
<1>s. \A st \in CaptureStep : [capt EXCEPT !.step = st] \in Captured
  BY CapturedTypes
<1>f. ASSUME NEW o \in {"CLEANUP_DEADLINE_UNSETTLED", "LEADER_REAPED_STREAMS_EOF"},
             SettlementFinishes(o)
      PROVE  capt' \in Captured /\ settle' \in Settlement
  BY <1>f, StepTypes, CapturedTypes, SettlementTypes DEF SettlementFinishes
<1>1. ASSUME SettleHandsOff PROVE CaptureTyped'
  BY <1>1, <1>s, StepTypes, AdapterTypes, FaultTypes DEF SettleHandsOff, enter_settlement
<1>2. ASSUME SettleObserves PROVE CaptureTyped'
  <2>1. CASE ~InCleanup
    BY <1>2, <2>1, <1>f, FaultTypes DEF SettleObserves
  <2>2. CASE InCleanup
    <3>1. own' \in Owned /\ adp' \in Adapter
      BY <1>2, <2>2, ObserveTypes DEF SettleObserves
    <3>2. capt' \in Captured
      BY <1>2, <2>2, <1>s, StepTypes DEF SettleObserves
    <3> QED BY <1>2, <2>2, <3>1, <3>2, FaultTypes DEF SettleObserves
  <2> QED BY <2>1, <2>2
<1>3. ASSUME SettleReaps PROVE CaptureTyped'
  <2>1. CASE ~InCleanup
    BY <1>3, <2>1, <1>f, FaultTypes DEF SettleReaps
  <2>2. CASE InCleanup
    BY <1>3, <2>2, <1>s, StepTypes, ReapTypes, SettlementTypes, FaultTypes DEF SettleReaps
  <2> QED BY <2>1, <2>2
<1>4. ASSUME SettleDrains PROVE CaptureTyped'
  <2>1. CASE ~InCleanup
    BY <1>4, <2>1, <1>f, FaultTypes DEF SettleDrains
  <2>2. CASE InCleanup /\ settle.reaped /\ capt.eof = Streams
    BY <1>4, <2>2, <1>f, FaultTypes DEF SettleDrains
  <2>3. CASE InCleanup /\ ~(settle.reaped /\ capt.eof = Streams)
    <3>1. PICK ready \in SUBSET Ready : drain_ready_turn(ready)
      BY <1>4, <2>3 DEF SettleDrains
    <3>2. ready \in SUBSET Streams
      BY DEF Ready
    <3>3. capt' \in Captured /\ pipe' \in [Pipes -> Seq(Token)]
      BY <3>1, <3>2, DrainTypes
    <3> QED BY <1>4, <2>3, <3>3, FaultTypes DEF SettleDrains
  <2> QED BY <2>1, <2>2, <2>3
<1>5. ASSUME SettleTurns PROVE CaptureTyped'
  BY <1>5, <1>s, StepTypes, FaultTypes DEF SettleTurns
<1>6. ASSUME SettleFails PROVE CaptureTyped'
  <2>1. capt' \in Captured /\ settle' \in Settlement
    BY <1>6, CapturedTypes, StepTypes, SettlementTypes DEF SettleFails
  <2>2. own' \in Owned /\ adp' \in Adapter /\ child' \in Process
    BY <1>6, FailureTypes DEF SettleFails
  <2> QED BY <1>6, <2>1, <2>2, FaultTypes DEF SettleFails
<1> QED BY <1>1, <1>2, <1>3, <1>4, <1>5, <1>6 DEF SettleNext

AttemptTyped == CaptureTyped /\ att \in Attempt

LEMMA PhaseTypes ==
    ASSUME att \in Attempt
    PROVE  /\ _poison(att) \in Attempt
           /\ \A s \in States : Phase(s) \in Attempt
           /\ \A s \in States : [Phase(s) EXCEPT !.fork_attempted = TRUE] \in Attempt
           /\ \A s \in States, v \in {"MATCH", "MISMATCH"} :
                [Phase(s) EXCEPT !.evidence = v] \in Attempt
<1>1. _poison(att) \in Attempt /\ \A s \in States : Phase(s) \in Attempt
  BY AttemptTypes DEF Phase
<1>2. \A a \in Attempt : [a EXCEPT !.fork_attempted = TRUE] \in Attempt
  BY DEF Attempt
<1>3. \A a \in Attempt, v \in {"MATCH", "MISMATCH"} : [a EXCEPT !.evidence = v] \in Attempt
  BY DEF Attempt
<1> QED BY <1>1, <1>2, <1>3

LEMMA StateTypes ==
    {"READY_TO_FORK", "LINUX_FORKING", "LINUX_BINDING_PIDFD", "LINUX_PIDFD_BOUND_UNARMED",
     "LINUX_CLOSING_CHILD_ENDPOINTS", "LINUX_WAITING_READY", "LINUX_READY",
     "LINUX_CAPTURE_BOUND_UNARMED", "LINUX_CLOSING_GRANT_ZERO_WRITE",
     "LINUX_GRANT_WRITER_CLOSED_UNSETTLED", "LINUX_MONITORING_UNREAPED",
     "LINUX_MONITOR_COMPLETE_UNREAPED", "LINUX_MONITOR_FAILURE_UNSETTLED",
     "LINUX_REAPING_COMPLETION", "LINUX_LEADER_REAPED_UNQUALIFIED", "LINUX_REAP_UNKNOWN_RETAINED",
     "LINUX_OBSERVING_STATUS_TAIL", "LINUX_STATUS_EOF_OBSERVED_UNQUALIFIED",
     "LINUX_STATUS_PROTOCOL_VIOLATION", "LINUX_ABORT_PROTOCOL_MISMATCH",
     "LINUX_ABORT_PROTOCOL_VERIFIED", "LINUX_ABORT_TERMINAL_RELEASE_CLAIMED"} \subseteq States
BY DEF States, Dead, Over

LEMMA CloseTypes ==
    ASSUME AttemptTyped, NEW role \in Roles, close_role_once(role) \/ CloseRoleFails(role)
    PROVE  graph' \in Handle /\ fds' \in [Procs -> SUBSET Roles] /\ faults' \in 0..MaxFaults
<1> USE DEF AttemptTyped, CaptureTyped, ChildTyped, GraphTyped
<1>1. fds["launcher"] \ {role} \in SUBSET Roles /\ "launcher" \in Procs
  BY RoleTypes
<1>2. fds' \in [Procs -> SUBSET Roles]
  BY <1>1, FdsTypes DEF close_role_once, CloseRoleFails
<1>3. graph' \in Handle
  BY ClosedTypes DEF close_role_once, CloseRoleFails
<1> QED BY <1>2, <1>3, FaultTypes DEF close_role_once, CloseRoleFails

LEMMA ForkTypes ==
    ASSUME AttemptTyped
    PROVE  [fds EXCEPT !["child"] = Inherited] \in [Procs -> SUBSET Roles]
<1>1. Inherited \in SUBSET Roles /\ "child" \in Procs
  BY RoleTypes DEF Inherited
<1> QED BY <1>1, FdsTypes DEF AttemptTyped, CaptureTyped, ChildTyped, GraphTyped

LEMMA CleanupTypes ==
    ASSUME clock \in Nat
    PROVE  CleanupDeadline \in 0..HardLimit /\ HardLimit \in 0..HardLimit
BY LimitTypes DEF CleanupDeadline

LEMMA LaunchKeepsTypes ==
    ASSUME AttemptTyped,
           \/ ClaimAttempt \/ LinuxPreflight \/ LinuxFork \/ LinuxForkFails \/ LinuxBind
           \/ PrepareBegins \/ CloseChildEndpoint \/ ReadReady \/ BindCapture
           \/ GrantAdmission \/ close_linux_grant_zero_write_once
    PROVE  AttemptTyped'
<1> USE DEF AttemptTyped, CaptureTyped, ChildTyped, GraphTyped
<1>p. _poison(att) \in Attempt /\ \A s \in States : Phase(s) \in Attempt
  BY PhaseTypes
<1>1. ASSUME ClaimAttempt PROVE AttemptTyped'
  BY <1>1, <1>p, StateTypes, EnrollmentFieldTypes, FaultTypes DEF ClaimAttempt
<1>2. ASSUME LinuxPreflight PROVE AttemptTyped'
  BY <1>2, <1>p, StateTypes, PhaseTypes, FaultTypes DEF LinuxPreflight
<1>3. ASSUME LinuxFork PROVE AttemptTyped'
  <2>1. att' \in Attempt
    BY <1>3, <1>p, StateTypes DEF LinuxFork
  <2>2. child' \in Process /\ fds' \in [Procs -> SUBSET Roles]
    BY <1>3, ForkTypes, ProcessTypes DEF LinuxFork
  <2>3. own' \in Owned /\ enrol' \in Enrollment
    BY <1>3, OwnedTypes, EnrollmentTypes DEF LinuxFork, _record_owned_fork
  <2> QED BY <1>3, <2>1, <2>2, <2>3, FaultTypes DEF LinuxFork
<1>4. ASSUME LinuxForkFails PROVE AttemptTyped'
  <2>1. att' \in Attempt
    BY <1>4, <1>p DEF LinuxForkFails
  <2>2. child' \in Process /\ fds' \in [Procs -> SUBSET Roles]
    BY <1>4, ForkTypes, ProcessTypes DEF LinuxForkFails
  <2> QED BY <1>4, <2>1, <2>2, FaultTypes DEF LinuxForkFails
<1>5. ASSUME LinuxBind PROVE AttemptTyped'
  <2>1. own' \in Owned
    BY <1>5, OwnedTypes DEF LinuxBind, bind_owned_pidfd, BindUnknown
  <2> QED BY <1>5, <2>1, <1>p, StateTypes, FaultTypes DEF LinuxBind
<1>6. ASSUME PrepareBegins \/ GrantAdmission PROVE AttemptTyped'
  BY <1>6, <1>p, StateTypes, FaultTypes DEF PrepareBegins, GrantAdmission
<1>7. ASSUME CloseChildEndpoint PROVE AttemptTyped'
  <2>1. PICK i \in 1..4 :
          \/ /\ close_role_once(PARENT_CLOSE_ROLES[i])
             /\ att' = IF i = 4 THEN Phase("LINUX_WAITING_READY") ELSE att
          \/ CloseRoleFails(PARENT_CLOSE_ROLES[i]) /\ att' = _poison(att)
    BY <1>7 DEF CloseChildEndpoint
  <2>2. PARENT_CLOSE_ROLES[i] \in Roles
    BY RoleTypes
  <2>3. graph' \in Handle /\ fds' \in [Procs -> SUBSET Roles] /\ faults' \in 0..MaxFaults
    BY <2>1, <2>2, CloseTypes
  <2>4. att' \in Attempt
    BY <2>1, <1>p, StateTypes
  <2> QED BY <1>7, <2>3, <2>4 DEF CloseChildEndpoint
<1>8. ASSUME ReadReady PROVE AttemptTyped'
  <2>1. att' \in Attempt
    BY <1>8, <1>p, StateTypes DEF ReadReady
  <2>2. "status" \in Pipes /\ <<>> \in Seq(Token) /\ pipe["status"] \in Seq(Token)
    BY RoleTypes
  <2> DEFINE rest == IF Len(pipe["status"]) <= 2 THEN <<>>
                     ELSE SubSeq(pipe["status"], 3, Len(pipe["status"]))
  <2>3. rest \in Seq(Token)
    BY <2>2
  <2>r. pipe' = pipe \/ pipe' = [pipe EXCEPT !["status"] = rest]
    BY <1>8 DEF ReadReady
  <2> HIDE DEF rest
  <2>4. pipe' \in [Pipes -> Seq(Token)]
    BY <2>2, <2>3, <2>r, PipeTypes
  <2> QED BY <1>8, <2>1, <2>4, FaultTypes DEF ReadReady
<1>9. ASSUME BindCapture PROVE AttemptTyped'
  BY <1>9, <1>p, StateTypes, CapturedTypes, AdapterTypes, FaultTypes DEF BindCapture
<1>10. ASSUME close_linux_grant_zero_write_once PROVE AttemptTyped'
  <2>1. "grant_parent" \in Roles
    BY RoleTypes
  <2>2. graph' \in Handle /\ fds' \in [Procs -> SUBSET Roles] /\ faults' \in 0..MaxFaults
    BY <1>10, <2>1, CloseTypes DEF close_linux_grant_zero_write_once
  <2>3. att' \in Attempt
    BY <1>10, <1>p, StateTypes DEF close_linux_grant_zero_write_once
  <2> QED BY <1>10, <2>2, <2>3 DEF close_linux_grant_zero_write_once
<1> QED BY <1>1, <1>2, <1>3, <1>4, <1>5, <1>6, <1>7, <1>8, <1>9, <1>10

LEMMA ConcludeKeepsTypes ==
    ASSUME AttemptTyped,
           \/ MonitorBegins \/ monitor_linux_abort_unreaped_once
           \/ ReapAdmission \/ reap_linux_completion_once
           \/ StatusTailBegins \/ StatusTailRefused \/ ReadStatusTail
           \/ observe_linux_status_tail_once
           \/ verify_linux_abort_protocol_once \/ claim_abort_terminal_release_once
           \/ SettleFailedCapture \/ AfterSettlement \/ AttemptFails
    PROVE  AttemptTyped'
<1> USE DEF AttemptTyped, CaptureTyped, ChildTyped, GraphTyped
<1>p. _poison(att) \in Attempt /\ \A s \in States : Phase(s) \in Attempt
  BY PhaseTypes
<1>1. ASSUME MonitorBegins PROVE AttemptTyped'
  <2>1. StartMonitor \in Captured
    BY MonitorTypes DEF StartMonitor
  <2> QED BY <1>1, <2>1, <1>p, StateTypes, FaultTypes DEF MonitorBegins
<1>2. ASSUME monitor_linux_abort_unreaped_once PROVE AttemptTyped'
  <2>1. MonitorOutcome \in Attempt
    BY <1>p, StateTypes DEF MonitorOutcome
  <2> QED BY <1>2, <2>1, FaultTypes DEF monitor_linux_abort_unreaped_once
<1>3. ASSUME ReapAdmission PROVE AttemptTyped'
  <2>1. att' \in Attempt
    BY <1>3, <1>p, StateTypes DEF ReapAdmission
  <2>2. capt' \in Captured
    BY <1>3, MonitorTypes DEF ReapAdmission, ConsumeCompletion
  <2>3. settle' = settle \/ settle' = [settle EXCEPT !.deadline = CleanupDeadline]
    BY <1>3 DEF ReapAdmission, ConsumeCompletion
  <2>d. CleanupDeadline \in 0..HardLimit
    BY CleanupTypes
  <2>q. settle \in Settlement /\ \A s \in Settlement, d \in 0..HardLimit : [s EXCEPT !.deadline = d] \in Settlement
    BY SettlementTypes
  <2>4. settle' \in Settlement
    BY <2>3, <2>d, <2>q, Zenon
  <2> QED BY <1>3, <2>1, <2>2, <2>4, FaultTypes DEF ReapAdmission
<1>4. ASSUME reap_linux_completion_once PROVE AttemptTyped'
  <2>1. settle.reaped \in BOOLEAN
    BY DEF Settlement
  <2>2. att' \in Attempt
    BY <1>4, <2>1, AttemptTypes, StateTypes DEF reap_linux_completion_once
  <2> QED BY <1>4, <2>2, FaultTypes DEF reap_linux_completion_once
<1>5. ASSUME StatusTailBegins \/ AttemptFails PROVE AttemptTyped'
  BY <1>5, <1>p, StateTypes, FaultTypes DEF StatusTailBegins, AttemptFails
<1>6. ASSUME StatusTailRefused PROVE AttemptTyped'
  <2>1. enrol' \in Enrollment
    BY <1>6, EnrollmentTypes DEF StatusTailRefused, ContinuedDomain
  <2> QED BY <1>6, <2>1, <1>p, FaultTypes DEF StatusTailRefused
<1>7. ASSUME ReadStatusTail PROVE AttemptTyped'
  <2>1. ReadKind("status") \in {"DATA", "EOF", "EAGAIN"}
    BY DEF ReadKind
  <2> DEFINE kind == ReadKind("status")
  <2>k. att' = _poison(att) \/ (kind # "EAGAIN" /\ att' = [att EXCEPT !.status = kind])
    BY <1>7 DEF ReadStatusTail
  <2> HIDE DEF kind
  <2>d. kind \in {"DATA", "EOF", "EAGAIN"}
    BY <2>1 DEF kind
  <2>2. att' \in Attempt
    BY <2>k, <2>d, <1>p, AttemptTypes
  <2>3. "status" \in Pipes /\ pipe["status"] \in Seq(Token)
    BY RoleTypes
  <2>4. pipe["status"] # <<>> => Tail(pipe["status"]) \in Seq(Token)
    BY <2>3
  <2>5. pipe' \in [Pipes -> Seq(Token)]
    BY <1>7, <2>3, <2>4, PipeTypes DEF ReadStatusTail
  <2> QED BY <1>7, <2>2, <2>5, FaultTypes DEF ReadStatusTail
<1>8. ASSUME observe_linux_status_tail_once PROVE AttemptTyped'
  <2>1. att' \in Attempt
    BY <1>8, <1>p, StateTypes DEF observe_linux_status_tail_once
  <2> QED BY <1>8, <2>1, FaultTypes DEF observe_linux_status_tail_once
<1>9. ASSUME verify_linux_abort_protocol_once PROVE AttemptTyped'
  <2>1. att' \in Attempt
    BY <1>9, PhaseTypes, StateTypes DEF verify_linux_abort_protocol_once
  <2> QED BY <1>9, <2>1, FaultTypes DEF verify_linux_abort_protocol_once
<1>10. ASSUME claim_abort_terminal_release_once PROVE AttemptTyped'
  <2>1. att' \in Attempt /\ settle' \in Settlement
    BY <1>10, <1>p, StateTypes, SettlementTypes DEF claim_abort_terminal_release_once
  <2> QED BY <1>10, <2>1, FaultTypes DEF claim_abort_terminal_release_once
<1>11. ASSUME SettleFailedCapture PROVE AttemptTyped'
  <2>1. capt' \in Captured /\ settle' \in Settlement
    BY <1>11, MonitorTypes, SettlementTypes, CleanupTypes DEF SettleFailedCapture, SettleBegins
  <2> QED BY <1>11, <2>1, FaultTypes DEF SettleFailedCapture
<1>12. ASSUME AfterSettlement PROVE AttemptTyped'
  <2>1. CASE probe_children_after_reap
    <3>1. settle' \in Settlement
      BY <2>1, SettlementTypes DEF probe_children_after_reap
    <3> QED BY <1>12, <2>1, <3>1, FaultTypes DEF AfterSettlement, probe_children_after_reap
  <2>2. CASE close_capture_epoll
    <3>1. capt' \in Captured /\ faults' \in 0..MaxFaults
      BY <2>2, MonitorTypes, FaultTypes DEF close_capture_epoll
    <3> QED BY <1>12, <2>2, <3>1 DEF AfterSettlement, close_capture_epoll
  <2> QED BY <1>12, <2>1, <2>2 DEF AfterSettlement
<1> QED BY <1>1, <1>2, <1>3, <1>4, <1>5, <1>6, <1>7, <1>8, <1>9, <1>10, <1>11, <1>12

\* The descendant branch.
BranchTyped == AttemptTyped /\ dom \in Domain /\ rel \in Release

LEMMA BridgePoisonTypes ==
    ASSUME BranchTyped, BridgePoison
    PROVE  /\ enrol' \in Enrollment /\ dom' \in Domain /\ att' \in Attempt
           /\ own' \in Owned /\ adp' \in Adapter
BY EnrollmentTypes, DomainTypes, PhaseTypes, PoisonTypes
DEF BridgePoison, BranchTyped, AttemptTyped, CaptureTyped, ChildTyped, GraphTyped

LEMMA SharedTypes ==
    ASSUME enrol \in Enrollment, NEW d \in Domains
    PROVE  Shared(d) \in Enrollment
BY EnrollmentFieldTypes DEF Shared

LEMMA DescendantKeepsTypes ==
    ASSUME BranchTyped, DescendantSteps
    PROVE  BranchTyped'
<1> USE DEF BranchTyped, AttemptTyped, CaptureTyped, ChildTyped, GraphTyped
<1>d. {"ATTACHED_HARD_LIMIT_ONLY", "DEADLINE_BINDING", "DEADLINE_BOUND_NON_DRAINABLE",
       "DRAIN_TRANSFERRING", "ALLOCATED_DRAIN_READY", "DESCENDANT_STEP_ADVANCING",
       "ALLOCATED_STEP_NONQUALIFIED", "ALLOCATED_MODEL_DOMAIN_DRAINED_NONQUALIFIED",
       "UNKNOWN"} \subseteq Domains
  BY DEF Domains
<1>1. ASSUME attach_allocated_owned_domain PROVE BranchTyped'
  <2>1. /\ enrol' \in Enrollment /\ dom' \in Domain /\ att' \in Attempt
        /\ own' \in Owned /\ adp' \in Adapter
    <3>1. CASE BridgePoison
      BY <3>1, BridgePoisonTypes
    <3>2. CASE ~BridgePoison
      BY <1>1, <3>2, <1>d, SharedTypes, DomainTypes, AdapterTypes DEF attach_allocated_owned_domain
    <3> QED BY <3>1, <3>2
  <2> QED BY <1>1, <2>1, FaultTypes DEF attach_allocated_owned_domain, BridgeUnchanged
<1>2. ASSUME DeadlineBinding PROVE BranchTyped'
  <2>1. enrol' \in Enrollment
    BY <1>2, <1>d, SharedTypes DEF DeadlineBinding
  <2> QED BY <1>2, <2>1, FaultTypes DEF DeadlineBinding, BridgeUnchanged
<1>3. ASSUME bind_allocated_settlement_deadline PROVE BranchTyped'
  <2>1. /\ enrol' \in Enrollment /\ dom' \in Domain /\ att' \in Attempt
        /\ own' \in Owned /\ adp' \in Adapter
    <3>1. CASE BridgePoison
      BY <3>1, BridgePoisonTypes
    <3>2. CASE ~BridgePoison
      <4>1. settle.deadline \in 0..HardLimit
        BY DEF Settlement
      <4>2. dom' = [dom EXCEPT !.deadline = settle.deadline]
        BY <1>3, <3>2 DEF bind_allocated_settlement_deadline
      <4>3. dom' \in Domain
        BY <4>1, <4>2, DomainTypes, Zenon
      <4> QED BY <1>3, <3>2, <4>3, <1>d, SharedTypes DEF bind_allocated_settlement_deadline
    <3> QED BY <3>1, <3>2
  <2> QED BY <1>3, <2>1, FaultTypes DEF bind_allocated_settlement_deadline, BridgeUnchanged
<1>4. ASSUME DrainTransferring PROVE BranchTyped'
  <2>1. settle' \in Settlement /\ adp' \in Adapter /\ enrol' \in Enrollment
    BY <1>4, <1>d, SharedTypes, SettlementTypes, AdapterTypes DEF DrainTransferring
  <2> QED BY <1>4, <2>1, FaultTypes DEF DrainTransferring, BridgeUnchanged
<1>5. ASSUME transfer_allocated_descendant_drain PROVE BranchTyped'
  <2>1. /\ enrol' \in Enrollment /\ dom' \in Domain /\ att' \in Attempt
        /\ own' \in Owned /\ adp' \in Adapter
    <3>1. CASE BridgePoison
      BY <3>1, BridgePoisonTypes
    <3>2. CASE ~BridgePoison
      BY <1>5, <3>2, <1>d, SharedTypes, DomainTypes DEF transfer_allocated_descendant_drain
    <3> QED BY <3>1, <3>2
  <2> QED BY <1>5, <2>1, FaultTypes DEF transfer_allocated_descendant_drain, BridgeUnchanged
<1>6. ASSUME StepBegins PROVE BranchTyped'
  <2>1. enrol' \in Enrollment /\ dom' \in Domain /\ rel' \in Release
    BY <1>6, <1>d, SharedTypes, DomainTypes, ReleaseTypes DEF StepBegins
  <2> QED BY <1>6, <2>1, FaultTypes DEF StepBegins
<1>7. ASSUME advance_allocated_descendant_once PROVE BranchTyped'
  <2>1. enrol' \in Enrollment
    BY <1>7, <1>d, SharedTypes, EnrollmentTypes DEF advance_allocated_descendant_once
  <2>2. dom' \in Domain
    BY <1>7, DomainTypes DEF advance_allocated_descendant_once, StepState
  <2>r. PICK t \in StepOutcomes \cup {"ADVANCING", "UNKNOWN"} : rel' = [rel EXCEPT !.step = t]
    BY <1>7 DEF advance_allocated_descendant_once
  <2>q. rel \in Release /\ \A r \in Release, s \in StepOutcomes \cup {"ADVANCING", "UNKNOWN"} :
          [r EXCEPT !.step = s] \in Release
    BY ReleaseTypes
  <2>3. rel' \in Release
    BY <2>r, <2>q, Zenon
  <2>4. att' \in Attempt
    BY <1>7, PhaseTypes DEF advance_allocated_descendant_once
  <2> QED BY <1>7, <2>1, <2>2, <2>3, <2>4, FaultTypes DEF advance_allocated_descendant_once
<1>8. ASSUME BridgeReentered PROVE BranchTyped'
  BY <1>8, BridgePoisonTypes, FaultTypes DEF BridgeReentered, BridgeUnchanged
<1>9. ASSUME StepReentered PROVE BranchTyped'
  <2>1. enrol' \in Enrollment /\ dom' \in Domain /\ att' \in Attempt
    BY <1>9, EnrollmentTypes, DomainTypes, PhaseTypes DEF StepReentered
  <2> QED BY <1>9, <2>1, FaultTypes DEF StepReentered
<1> QED BY <1>1, <1>2, <1>3, <1>4, <1>5, <1>6, <1>7, <1>8, <1>9 DEF DescendantSteps

LEMMA OperationTypes ==
    ASSUME BranchTyped, OperationPoison("status") \/ OperationPoison("deadline")
    PROVE  rel' \in Release /\ att' \in Attempt
<1>1. rel' = [rel EXCEPT !.status = "UNKNOWN"] \/ rel' = [rel EXCEPT !.deadline = "UNKNOWN"]
  BY DEF OperationPoison
<1>2. att' = _poison(att)
  BY DEF OperationPoison
<1> QED BY <1>1, <1>2, ReleaseTypes, PhaseTypes DEF BranchTyped, AttemptTyped

LEMMA QualifyKeepsTypes ==
    ASSUME BranchTyped, QualifySteps
    PROVE  BranchTyped'
<1> USE DEF BranchTyped, AttemptTyped, CaptureTyped, ChildTyped, GraphTyped
<1> USE DEF ReleaseUnchanged
<1>1. ASSUME StatusBegins PROVE BranchTyped'
  <2>1. rel' \in Release /\ att' \in Attempt
    BY <1>1, OperationTypes, ReleaseTypes DEF StatusBegins
  <2> QED BY <1>1, <2>1, FaultTypes DEF StatusBegins
<1>2. ASSUME ReadStatusOnce PROVE BranchTyped'
  <2>1. ReadKind("status") \in {"DATA", "EOF", "EAGAIN"}
    BY DEF ReadKind
  <2>2. rel' \in Release /\ att' \in Attempt
    BY <1>2, <2>1, OperationTypes, ReleaseTypes DEF ReadStatusOnce
  <2>3. "status" \in Pipes /\ pipe["status"] \in Seq(Token)
    BY RoleTypes
  <2>4. pipe["status"] # <<>> => Tail(pipe["status"]) \in Seq(Token)
    BY <2>3
  <2>5. pipe' \in [Pipes -> Seq(Token)]
    BY <1>2, <2>3, <2>4, PipeTypes DEF ReadStatusOnce
  <2> QED BY <1>2, <2>2, <2>5, FaultTypes DEF ReadStatusOnce
<1>3. ASSUME observe_allocated_status_tail_once PROVE BranchTyped'
  <2>1. rel.read \in {"EOF", "DATA", "EAGAIN"}
    BY <1>3 DEF observe_allocated_status_tail_once, Release
  <2>2. rel' \in Release /\ att' \in Attempt
    BY <1>3, <2>1, OperationTypes, ReleaseTypes DEF observe_allocated_status_tail_once
  <2> QED BY <1>3, <2>2, FaultTypes DEF observe_allocated_status_tail_once
<1>4. ASSUME \/ match_allocated_abort_protocol_once \/ qualify_allocated_release_inputs_once
             \/ DeadlineAdmitting \/ bind_allocated_resource_plan_once
      PROVE  BranchTyped'
  <2>1. rel' \in Release
    BY <1>4, ReleaseTypes
    DEF match_allocated_abort_protocol_once, qualify_allocated_release_inputs_once,
        DeadlineAdmitting, bind_allocated_resource_plan_once
  <2> QED BY <1>4, <2>1, FaultTypes
          DEF match_allocated_abort_protocol_once, qualify_allocated_release_inputs_once,
              DeadlineAdmitting, bind_allocated_resource_plan_once
<1>5. ASSUME admit_allocated_release_deadline_once PROVE BranchTyped'
  <2>1. rel' \in Release /\ att' \in Attempt
    BY <1>5, OperationTypes, ReleaseTypes DEF admit_allocated_release_deadline_once
  <2>2. faults' \in 0..MaxFaults
    BY <1>5, FaultTypes DEF admit_allocated_release_deadline_once
  <2> QED BY <1>5, <2>1, <2>2 DEF admit_allocated_release_deadline_once
<1>6. ASSUME Reentered PROVE BranchTyped'
  <2>1. rel' \in Release /\ att' \in Attempt
    BY <1>6, OperationTypes DEF Reentered
  <2> QED BY <1>6, <2>1, FaultTypes DEF Reentered
<1> QED BY <1>1, <1>2, <1>3, <1>4, <1>5, <1>6 DEF QualifySteps

\* The claim.
LEMMA ClaimTypes ==
    ASSUME NEW c \in TerminalClaim
    PROVE  /\ \A r \in Resources :
                [c EXCEPT !.running = r, !.at = "observe", !.release_active = r,
                          !.attempted = @ \cup {r}] \in TerminalClaim
           /\ c.running \in Resources =>
                /\ [c EXCEPT !.release_active = "POISONED",
                             !.nested = @ \cup {c.running}] \in TerminalClaim
                /\ [c EXCEPT !.at = "close", !.closes[c.running] = @ + 1] \in TerminalClaim
                /\ \A o \in Outcome :
                    [c EXCEPT !.outcome[c.running] = o, !.running = "NONE", !.at = "idle",
                              !.release_active = "NONE"] \in TerminalClaim
<1>1. ASSUME NEW r \in Resources
      PROVE  [c EXCEPT !.running = r, !.at = "observe", !.release_active = r,
                       !.attempted = @ \cup {r}] \in TerminalClaim
  BY DEF TerminalClaim
<1>2. ASSUME c.running \in Resources
      PROVE  [c EXCEPT !.release_active = "POISONED",
                       !.nested = @ \cup {c.running}] \in TerminalClaim
  BY <1>2 DEF TerminalClaim
<1>3. ASSUME c.running \in Resources
      PROVE  [c EXCEPT !.at = "close", !.closes[c.running] = @ + 1] \in TerminalClaim
  <2> DEFINE k == [c.closes EXCEPT ![c.running] = @ + 1]
  <2>1. c.closes \in [Resources -> Nat]
    BY DEF TerminalClaim
  <2>2. k \in [Resources -> Nat]
    BY <1>3, <2>1
  <2>3. [c EXCEPT !.at = "close", !.closes[c.running] = @ + 1] = [c EXCEPT !.at = "close", !.closes = k]
    BY DEF TerminalClaim
  <2> HIDE DEF k
  <2> QED BY <2>2, <2>3 DEF TerminalClaim
<1>4. ASSUME c.running \in Resources, NEW o \in Outcome
      PROVE  [c EXCEPT !.outcome[c.running] = o, !.running = "NONE", !.at = "idle",
                       !.release_active = "NONE"] \in TerminalClaim
  <2> DEFINE k == [c.outcome EXCEPT ![c.running] = o]
  <2>1. c.outcome \in [Resources -> Outcome]
    BY DEF TerminalClaim
  <2>2. k \in [Resources -> Outcome]
    BY <1>4, <2>1
  <2>3. [c EXCEPT !.outcome[c.running] = o, !.running = "NONE", !.at = "idle",
                  !.release_active = "NONE"]
          = [c EXCEPT !.outcome = k, !.running = "NONE", !.at = "idle",
                      !.release_active = "NONE"]
    BY DEF TerminalClaim
  <2> HIDE DEF k
  <2> QED BY <2>2, <2>3 DEF TerminalClaim
<1> QED BY <1>1, <1>2, <1>3, <1>4

\* What a step of the claim does to the claim; the rest of the state it leaves alone.
ClaimChange ==
    \/ \E r \in Resources :
        /\ Claimed /\ claim.release_active = "NONE" /\ claim.running = "NONE"
        /\ r \notin claim.attempted /\ Prerequisite(r)
        /\ claim' = [claim EXCEPT !.running = r, !.at = "observe", !.release_active = r,
                                  !.attempted = @ \cup {r}]
    \/ /\ claim.running \in Resources
       /\ \/ claim' = [claim EXCEPT !.release_active = "POISONED",
                                    !.nested = @ \cup {claim.running}]
          \/ /\ claim.at = "observe" /\ claim.running # "anchor" /\ SlotHeld /\ InRelease
             /\ claim' = [claim EXCEPT !.at = "close", !.closes[claim.running] = @ + 1]
          \/ Finished("UNKNOWN")
          \/ /\ claim.at = "observe" /\ claim.running = "pidfd" /\ SlotHeld /\ InRelease
             /\ Finished("IDENTITY_QUARANTINED")
          \/ /\ claim.at = "close" \/ claim.running = "anchor"
             /\ SlotHeld /\ InRelease /\ Finished("CONFIRMED")
          \/ claim.at = "close" /\ SlotHeld /\ ~InRelease /\ Finished("CONFIRMED_LATE")

ClaimFrame ==
    /\ faults' = faults \/ Failing
    /\ UNCHANGED <<clock, alive, fds, pipe, graph, enrol, record, child, holder,
                   own, adp, capt, settle, att, dom, rel>>

LEMMA ResourceNames ==
    /\ Resources = {"epoll", "status", "stdout", "stderr", "anchor", "pidfd"}
    /\ "NONE" \notin Resources
<1>1. 1..6 = {1, 2, 3, 4, 5, 6}
  OBVIOUS
<1>2. Resources = {Order[1], Order[2], Order[3], Order[4], Order[5], Order[6]}
  BY <1>1 DEF Resources
<1>3. Resources = {"epoll", "status", "stdout", "stderr", "anchor", "pidfd"}
  BY <1>2 DEF Order
<1> QED BY <1>3

LEMMA ClaimSplits ==
    ASSUME claim \in TerminalClaim, ClaimNext
    PROVE  ClaimChange /\ ClaimFrame
<1>r. claim.running \in Resources \cup {"NONE"}
  BY DEF TerminalClaim
<1>1. ASSUME NEW r \in Resources, ReleaseBegins(r) PROVE ClaimChange /\ ClaimFrame
  BY <1>1 DEF ReleaseBegins, ClaimChange, ClaimFrame, ClaimUnchanged, attemptVars
<1>2. ASSUME \/ release_epoll_model_once \/ release_status_model_once
             \/ release_stdout_model_once \/ release_stderr_model_once
             \/ AnchorBegins \/ release_pidfd_model_once
      PROVE  ClaimChange /\ ClaimFrame
  BY <1>1, <1>2, ResourceNames
  DEF release_epoll_model_once, release_status_model_once, release_stdout_model_once,
      release_stderr_model_once, AnchorBegins, release_pidfd_model_once
<1>3. ASSUME ReleaseObserved PROVE ClaimChange /\ ClaimFrame
  BY <1>3 DEF ReleaseObserved, ClaimChange, ClaimFrame, ClaimUnchanged, attemptVars
<1>4. ASSUME ReleaseClosed PROVE ClaimChange /\ ClaimFrame
  BY <1>4, <1>r DEF ReleaseClosed, ClaimChange, ClaimFrame, ClaimUnchanged, attemptVars
<1>5. ASSUME acquire_pidfd_anchor_model_once PROVE ClaimChange /\ ClaimFrame
  BY <1>5, ResourceNames
  DEF acquire_pidfd_anchor_model_once, ClaimChange, ClaimFrame, ClaimUnchanged, attemptVars
<1>6. ASSUME NestedRelease \/ ReleaseRaises PROVE ClaimChange /\ ClaimFrame
  BY <1>6, <1>r DEF NestedRelease, ReleaseRaises, ClaimChange, ClaimFrame
<1>7. ASSUME PidfdQuarantined PROVE ClaimChange /\ ClaimFrame
  BY <1>7, ResourceNames DEF PidfdQuarantined, ClaimChange, ClaimFrame
<1> QED BY <1>2, <1>3, <1>4, <1>5, <1>6, <1>7 DEF ClaimNext, ClaimSteps

LEMMA ClaimKeepsTypes ==
    ASSUME claim \in TerminalClaim, ClaimChange
    PROVE  claim' \in TerminalClaim
<1>1. {"UNKNOWN", "IDENTITY_QUARANTINED", "CONFIRMED", "CONFIRMED_LATE"} \subseteq Outcome
  BY DEF Outcome
<1>2. ASSUME NEW o \in Outcome, claim.running \in Resources, Finished(o)
      PROVE  claim' \in TerminalClaim
  BY <1>2, ClaimTypes DEF Finished
<1>3. ASSUME NEW r \in Resources,
             claim' = [claim EXCEPT !.running = r, !.at = "observe", !.release_active = r,
                                    !.attempted = @ \cup {r}]
      PROVE  claim' \in TerminalClaim
  BY <1>3, ClaimTypes
<1>4. ASSUME claim.running \in Resources,
             \/ claim' = [claim EXCEPT !.release_active = "POISONED",
                                       !.nested = @ \cup {claim.running}]
             \/ claim' = [claim EXCEPT !.at = "close", !.closes[claim.running] = @ + 1]
      PROVE  claim' \in TerminalClaim
  BY <1>4, ClaimTypes
<1> QED BY <1>1, <1>2, <1>3, <1>4 DEF ClaimChange

-----------------------------------------------------------------------------
(* The claim releases in its order                                         *)

\* Everything a resource comes behind.
LEMMA PrerequisiteMeans ==
    ASSUME NEW r \in Resources, Prerequisite(r), NEW b \in Before(r)
    PROVE  b \in Resources \ {r} /\ claim.outcome[b] = "CONFIRMED"
<1>1. PICK j \in 1..5, i \in 1..6 : b = Order[j] /\ Order[i] = r /\ j < i
  BY DEF Before
<1>2. j \in {1, 2, 3, 4, 5} /\ i \in {1, 2, 3, 4, 5, 6}
  OBVIOUS
<1>3. CASE r = "epoll"
  BY <1>1, <1>2, <1>3 DEF Order
<1>4. CASE r = "status"
  BY <1>1, <1>2, <1>4, ResourceNames
  DEF Order, Prerequisite, Confirmed, _timely_epoll_model_outcome
<1>5. CASE r = "stdout"
  BY <1>1, <1>2, <1>5, ResourceNames
  DEF Order, Prerequisite, Confirmed, _timely_epoll_model_outcome, _timely_status_model_outcome
<1>6. CASE r = "stderr"
  BY <1>1, <1>2, <1>6, ResourceNames
  DEF Order, Prerequisite, Confirmed, _timely_epoll_model_outcome, _timely_status_model_outcome,
      _timely_stdout_model_outcome
<1>7. CASE r = "anchor"
  BY <1>1, <1>2, <1>7, ResourceNames
  DEF Order, Prerequisite, Confirmed, _timely_epoll_model_outcome, _timely_status_model_outcome,
      _timely_stdout_model_outcome, _timely_stderr_model_outcome
<1>8. CASE r = "pidfd"
  BY <1>1, <1>2, <1>8, ResourceNames
  DEF Order, Prerequisite, Confirmed, _timely_epoll_model_outcome, _timely_status_model_outcome,
      _timely_stdout_model_outcome, _timely_stderr_model_outcome
<1> QED BY <1>3, <1>4, <1>5, <1>6, <1>7, <1>8, ResourceNames

\* Nothing comes behind itself.
LEMMA BeforeOthers ==
    ASSUME NEW r \in Resources, NEW b \in Before(r)
    PROVE  b \in Resources \ {r}
<1>1. PICK j \in 1..5, i \in 1..6 : b = Order[j] /\ Order[i] = r /\ j < i
  BY DEF Before
<1>2. j \in {1, 2, 3, 4, 5} /\ i \in {1, 2, 3, 4, 5, 6}
  OBVIOUS
<1>3. b # r
  BY <1>1, <1>2 DEF Order
<1>4. b \in Resources
  BY <1>1, <1>2, ResourceNames DEF Order
<1> QED BY <1>3, <1>4

\* A claim that a release leaves behind in order.
LEMMA ClaimKeepsOrder ==
    ASSUME claim \in TerminalClaim, ClaimOrder, ClaimChange, att' = att
    PROVE  ClaimOrder'
<1> DEFINE run == claim.running
<1>t. /\ run \in Resources \cup {"NONE"} /\ claim.attempted \subseteq Resources
      /\ claim.nested \subseteq Resources /\ claim.closes \in [Resources -> Nat]
      /\ claim.outcome \in [Resources -> Outcome] /\ claim.at \in {"idle", "observe", "close"}
  BY DEF TerminalClaim
<1>n. "NONE" \notin Resources
  BY ResourceNames
<1>i. \A r \in claim.nested : r \in claim.attempted
  BY <1>t DEF ClaimOrder
<1>1. ASSUME NEW r \in Resources, claim.running = "NONE", claim.release_active = "NONE", Claimed,
             r \notin claim.attempted, Prerequisite(r),
             claim' = [claim EXCEPT !.running = r, !.at = "observe", !.release_active = r,
                                    !.attempted = @ \cup {r}]
      PROVE  ClaimOrder'
  <2>1. /\ claim'.running = r /\ claim'.at = "observe" /\ claim'.release_active = r
        /\ claim'.attempted = claim.attempted \cup {r} /\ claim'.closes = claim.closes
        /\ claim'.nested = claim.nested /\ claim'.outcome = claim.outcome
    BY <1>1 DEF TerminalClaim
  <2>2. \A b \in Before(r) : claim.outcome[b] = "CONFIRMED"
    BY <1>1, PrerequisiteMeans
  <2>3. claim.closes[r] = 0 /\ claim.outcome[r] = "NONE" /\ r \notin claim.nested
    BY <1>1 DEF ClaimOrder
  <2>4. ReleaseIsHonest'
    BY <2>1 DEF ReleaseIsHonest, ClaimOrder
  <2>5. Claimed'
    BY <1>1 DEF Claimed
  <2>6. \A q \in claim'.attempted : \A b \in Before(q) : claim'.outcome[b] = "CONFIRMED"
    BY <2>1, <2>2 DEF ClaimOrder
  <2> QED BY <2>1, <2>3, <2>4, <2>5, <2>6, <1>n DEF ClaimOrder
<1>2. ASSUME run \in Resources,
             claim' = [claim EXCEPT !.release_active = "POISONED", !.nested = @ \cup {run}]
      PROVE  ClaimOrder'
  <2>1. /\ claim'.running = run /\ claim'.at = claim.at /\ claim'.release_active = "POISONED"
        /\ claim'.attempted = claim.attempted /\ claim'.closes = claim.closes
        /\ claim'.nested = claim.nested \cup {run} /\ claim'.outcome = claim.outcome
    BY <1>2 DEF TerminalClaim
  <2>2. run \in claim.attempted /\ claim.outcome[run] = "NONE"
    BY <1>2, <1>n DEF ClaimOrder
  <2>3. ReleaseIsHonest'
    BY <2>1, <2>2 DEF ReleaseIsHonest, ClaimOrder
  <2>4. Claimed'
    BY <1>2, <1>n DEF Claimed, ClaimOrder, NewClaim
  <2> QED BY <2>1, <2>2, <2>3, <2>4 DEF ClaimOrder
<1>3. ASSUME run \in Resources, claim.at = "observe",
             claim' = [claim EXCEPT !.at = "close", !.closes[claim.running] = @ + 1]
      PROVE  ClaimOrder'
  <2>1. /\ claim'.running = run /\ claim'.at = "close"
        /\ claim'.release_active = claim.release_active
        /\ claim'.attempted = claim.attempted /\ claim'.closes = [claim.closes EXCEPT ![run] = @ + 1]
        /\ claim'.nested = claim.nested /\ claim'.outcome = claim.outcome
    BY <1>3 DEF TerminalClaim
  <2>2. /\ run \in claim.attempted /\ claim.closes[run] = 0
        /\ \A b \in Before(run) : claim.outcome[b] = "CONFIRMED"
    BY <1>3, <1>n DEF ClaimOrder
  <2>3. claim'.closes[run] = 1 /\ \A r \in Resources \ {run} : claim'.closes[r] = claim.closes[r]
    BY <1>3, <1>t, <2>1, <2>2
  <2>4. ReleaseIsHonest'
    BY <2>1, <2>2, <2>3 DEF ReleaseIsHonest, ClaimOrder
  <2>5. Claimed'
    BY <1>3, <1>n DEF Claimed, ClaimOrder, NewClaim
  <2>6. \A r \in Resources \ claim'.attempted : claim'.closes[r] = 0 /\ claim'.outcome[r] = "NONE" /\ r \notin claim'.nested
    BY <2>1, <2>2, <2>3 DEF ClaimOrder
  <2>7. run # "NONE"
    BY <1>3, <1>n
  <2> QED BY <2>1, <2>2, <2>3, <2>4, <2>5, <2>6, <2>7 DEF ClaimOrder
<1>4. ASSUME run \in Resources, NEW o \in Outcome \ {"NONE"}, Finished(o),
             run \in claim.nested => o \notin {"CONFIRMED", "CONFIRMED_LATE"}
      PROVE  ClaimOrder'
  <2>1. /\ claim'.running = "NONE" /\ claim'.at = "idle"
        /\ claim'.attempted = claim.attempted /\ claim'.closes = claim.closes
        /\ claim'.nested = claim.nested /\ claim'.outcome = [claim.outcome EXCEPT ![run] = o]
    BY <1>4 DEF TerminalClaim, Finished
  <2>2. run \in claim.attempted /\ claim.outcome[run] = "NONE"
    BY <1>4, <1>n DEF ClaimOrder
  <2>3. claim'.outcome[run] = o /\ \A r \in Resources \ {run} : claim'.outcome[r] = claim.outcome[r]
    BY <1>4, <1>t, <2>1
  <2>4. ASSUME NEW r \in Resources, \A b \in Before(r) : claim.outcome[b] = "CONFIRMED"
        PROVE  \A b \in Before(r) : claim'.outcome[b] = "CONFIRMED"
    BY <2>2, <2>3, <2>4, BeforeOthers
  <2>8. ASSUME NEW r \in Resources, claim'.closes[r] > 0
        PROVE  claim'.closes[r] = 1 /\ \A b \in Before(r) : claim'.outcome[b] = "CONFIRMED"
    <3>1. claim.closes[r] = 1 /\ \A b \in Before(r) : claim.outcome[b] = "CONFIRMED"
      BY <2>1, <2>8 DEF ClaimOrder, ReleaseIsHonest
    <3> QED BY <3>1, <2>1, <2>4
  <2>9. ASSUME NEW r \in claim'.attempted
        PROVE  \A b \in Before(r) : claim'.outcome[b] = "CONFIRMED"
    BY <1>t, <2>1, <2>4 DEF ClaimOrder
  <2>5. \A r \in claim'.nested : claim'.outcome[r] \notin {"CONFIRMED", "CONFIRMED_LATE"}
    BY <1>4, <1>t, <2>1, <2>3 DEF ClaimOrder, ReleaseIsHonest
  <2>6. Claimed'
    BY <1>4, <1>n DEF Claimed, ClaimOrder, NewClaim
  <2>7. \A r \in Resources \ claim'.attempted : claim'.closes[r] = 0 /\ claim'.outcome[r] = "NONE" /\ r \notin claim'.nested
    BY <2>1, <2>2, <2>3 DEF ClaimOrder
  <2> QED BY <2>1, <2>5, <2>6, <2>7, <2>8, <2>9 DEF ClaimOrder, ReleaseIsHonest
<1>5. SlotHeld /\ run \in Resources => run \notin claim.nested
  BY <1>n, ResourceNames DEF SlotHeld, ClaimOrder
<1>6. {"UNKNOWN", "IDENTITY_QUARANTINED", "CONFIRMED", "CONFIRMED_LATE"} \subseteq Outcome \ {"NONE"}
  BY DEF Outcome
<1>7. ASSUME run \in Resources, NEW o \in {"UNKNOWN", "IDENTITY_QUARANTINED"}, Finished(o)
      PROVE  ClaimOrder'
  BY <1>4, <1>6, <1>7
<1>8. ASSUME run \in Resources, SlotHeld, NEW o \in {"CONFIRMED", "CONFIRMED_LATE"}, Finished(o)
      PROVE  ClaimOrder'
  BY <1>4, <1>5, <1>6, <1>8
<1> QED BY <1>1, <1>2, <1>3, <1>7, <1>8 DEF ClaimChange

-----------------------------------------------------------------------------
(* Before the fork                                                         *)

\* What the steps before the fork leave alone.
LEMMA PreforkFrame ==
    ASSUME Prefork
    PROVE  /\ att.state = "NONE"
           /\ UNCHANGED <<clock, alive, pipe, child, holder, own, adp, capt, settle, att>>
<1>1. UNCHANGED <<clock, alive, pipe>>
  BY DEF Prefork, GraphNext, allocate_real_fd_graph, AllocationRefusal,
         enroll_allocated_no_grant_graph, EnrollmentRefused, enroll_allocated_descendant_domain,
         bind_once, BindRefused, persist_bound_intent_once, CreateRecord, WriteAll,
         persist_exact_file, SealIntent, PersistedNoGrantIntentCapability, PersistFails, RootReplaced
<1> QED BY <1>1 DEF Prefork, captureVars

\* An enrollment that is poisoned keeps what the bridge and the backend know.
LEMMA PoisonedEnrollment ==
    ASSUME NEW e \in Enrollment
    PROVE  /\ PoisonEnrollment(e).state = "UNKNOWN" /\ PoisonEnrollment(e).bound = e.bound
           /\ PoisonEnrollment(e).bridge = e.bridge /\ PoisonEnrollment(e).backend = e.backend
           /\ PoisonEnrollment(e).ticket = e.ticket
           /\ PoisonEnrollment(e).domain = IF e.domain = "NONE" THEN "NONE" ELSE "UNKNOWN"
BY DEF PoisonEnrollment, Enrollment

LEMMA RefusedEnrollment ==
    ASSUME NEW e \in Enrollment,
           NEW f \in {NotPersisted(e), BridgeRefuses(e), BackendRefuses(e)}
    PROVE  /\ f.state = "UNKNOWN" /\ f.bound = "UNKNOWN" /\ f.ticket = e.ticket
           /\ f.domain = IF e.domain = "NONE" THEN "NONE" ELSE "UNKNOWN"
           /\ f = NotPersisted(e) => f.bridge = e.bridge /\ f.backend = e.backend
           /\ f = BridgeRefuses(e) => f.bridge = "UNKNOWN" /\ f.backend = e.backend
           /\ f = BackendRefuses(e) => f.bridge = "UNKNOWN" /\ f.backend = "UNKNOWN"
<1>1. PoisonEnrollment(e) \in Enrollment /\ NotPersisted(e) \in Enrollment /\ BridgeRefuses(e) \in Enrollment
  BY EnrollmentTypes
<1>2. /\ NotPersisted(e).state = "UNKNOWN" /\ NotPersisted(e).bound = "UNKNOWN"
      /\ NotPersisted(e).bridge = e.bridge /\ NotPersisted(e).backend = e.backend
      /\ NotPersisted(e).ticket = e.ticket
      /\ NotPersisted(e).domain = IF e.domain = "NONE" THEN "NONE" ELSE "UNKNOWN"
  <2> DEFINE q == PoisonEnrollment(e)
  <2>1. NotPersisted(e) = [q EXCEPT !.bound = "UNKNOWN"]
    BY DEF NotPersisted
  <2>2. /\ q.state = "UNKNOWN" /\ q.bridge = e.bridge /\ q.backend = e.backend
        /\ q.ticket = e.ticket /\ q.domain = IF e.domain = "NONE" THEN "NONE" ELSE "UNKNOWN"
        /\ q \in Enrollment
    BY <1>1, PoisonedEnrollment
  <2> HIDE DEF q
  <2> QED BY <2>1, <2>2 DEF Enrollment
<1>3. /\ BridgeRefuses(e).state = "UNKNOWN" /\ BridgeRefuses(e).bound = "UNKNOWN"
      /\ BridgeRefuses(e).bridge = "UNKNOWN" /\ BridgeRefuses(e).backend = e.backend
      /\ BridgeRefuses(e).ticket = e.ticket
      /\ BridgeRefuses(e).domain = IF e.domain = "NONE" THEN "NONE" ELSE "UNKNOWN"
  BY <1>1, <1>2 DEF BridgeRefuses, Enrollment
<1>4. /\ BackendRefuses(e).state = "UNKNOWN" /\ BackendRefuses(e).bound = "UNKNOWN"
      /\ BackendRefuses(e).bridge = "UNKNOWN" /\ BackendRefuses(e).backend = "UNKNOWN"
      /\ BackendRefuses(e).ticket = e.ticket
      /\ BackendRefuses(e).domain = IF e.domain = "NONE" THEN "NONE" ELSE "UNKNOWN"
  BY <1>1, <1>3 DEF BackendRefuses, Enrollment
<1>5. e.bridge \in {"READY", "PERSISTING", "SEALED_INTENT", "UNKNOWN"} /\ e.backend \in {"READY", "PERSISTING", "UNKNOWN"}
  BY DEF Enrollment
<1> QED BY <1>2, <1>3, <1>4, <1>5

LEMMA PreforkIntent ==
    ASSUME Typed, IntentDurable, Prefork
    PROVE  IntentDurable'
<1>0. att.state = "NONE" /\ att' = att /\ GraphNext /\ enrol \in Enrollment /\ record \in IntentRecord
  BY PreforkFrame DEF Prefork, Typed
<1>p. ASSUME enrol' = PoisonEnrollment(enrol), record' = record PROVE IntentDurable'
  BY <1>0, <1>p, PoisonedEnrollment DEF IntentDurable
<1>r. ASSUME \/ enrol' = BackendRefuses(enrol)
             \/ enrol' \in {NotPersisted(enrol), BridgeRefuses(enrol)} /\ enrol.backend # "PERSISTING"
                /\ record' = record /\ enrol.bridge # "PERSISTING"
             \/ enrol' = BridgeRefuses(enrol) /\ enrol.backend # "PERSISTING"
      PROVE  IntentDurable'
  <2>1. /\ enrol'.state = "UNKNOWN" /\ enrol'.bound = "UNKNOWN"
        /\ \/ enrol'.bridge = "UNKNOWN" /\ enrol'.backend # "PERSISTING"
           \/ enrol'.bridge = enrol.bridge /\ enrol'.backend = enrol.backend
              /\ enrol.backend # "PERSISTING" /\ enrol.bridge # "PERSISTING" /\ record' = record
    BY <1>0, <1>r, RefusedEnrollment
  <2> QED BY <1>0, <2>1 DEF IntentDurable
<1>1. ASSUME record' = record,
             \/ enrol' = enrol
             \/ enrol.state = "NONE" /\ enrol' = [enrol EXCEPT !.state = "GRAPH_ENROLLED"]
             \/ enrol' = [enrol EXCEPT !.domain = "READY"]
             \/ enrol.state = "GRAPH_ENROLLED" /\ enrol' = BoundNoGrantIntentCapability(enrol)
      PROVE  IntentDurable'
  BY <1>0, <1>1 DEF IntentDurable, Enrollment, BoundNoGrantIntentCapability
<1>2. ASSUME \/ allocate_real_fd_graph \/ AllocationRefusal
             \/ enroll_allocated_no_grant_graph \/ EnrollmentRefused
             \/ enroll_allocated_descendant_domain \/ bind_once \/ BindRefused
      PROVE  IntentDurable'
  BY <1>1, <1>2, <1>p
  DEF allocate_real_fd_graph, AllocationRefusal, enroll_allocated_no_grant_graph, EnrollmentRefused,
      enroll_allocated_descendant_domain, bind_once, BindRefused
<1>3. ASSUME persist_bound_intent_once PROVE IntentDurable'
  <2>1. enrol.bound = "BOUND" /\ enrol.state = "BOUND" /\ record' = record
        /\ enrol.bridge = "READY" /\ enrol.backend = "READY"
    BY <1>3 DEF persist_bound_intent_once, IntentDurable
  <2>2. CASE GraphFresh(graph)
    BY <1>0, <1>3, <2>1, <2>2 DEF persist_bound_intent_once, IntentDurable, Enrollment
  <2>3. CASE ~GraphFresh(graph)
    BY <1>3, <2>1, <2>3, <1>r DEF persist_bound_intent_once
  <2> QED BY <2>2, <2>3
<1>4. ASSUME CreateRecord \/ WriteAll PROVE IntentDurable'
  <2>1. enrol.backend = "PERSISTING" /\ enrol.bridge = "PERSISTING" /\ enrol.bound = "PERSISTING"
    BY <1>4 DEF CreateRecord, WriteAll, IntentDurable
  <2>2. CASE enrol' = BackendRefuses(enrol)
    BY <2>2, <1>r
  <2>3. CASE enrol' = enrol
    BY <1>0, <2>1, <2>3 DEF IntentDurable
  <2> QED BY <1>4, <2>2, <2>3 DEF CreateRecord, WriteAll
<1>5. ASSUME persist_exact_file PROVE IntentDurable'
  <2>1. enrol.backend = "PERSISTING" /\ enrol.bridge = "PERSISTING" /\ enrol.bound = "PERSISTING"
    BY <1>5 DEF persist_exact_file, IntentDurable
  <2>2. CASE enrol' = BackendRefuses(enrol)
    BY <2>2, <1>r
  <2>3. CASE enrol' = [enrol EXCEPT !.backend = "READY"]
    <3>1. record'.synced
      BY <1>0, <1>5 DEF persist_exact_file, IntentRecord
    <3>2. /\ enrol'.backend = "READY" /\ enrol'.bridge = "PERSISTING" /\ enrol'.bound = "PERSISTING"
          /\ enrol'.state = enrol.state
      BY <1>0, <2>1, <2>3 DEF Enrollment
    <3> QED BY <1>0, <2>1, <3>1, <3>2 DEF IntentDurable
  <2> QED BY <1>5, <2>2, <2>3 DEF persist_exact_file
<1>6. ASSUME SealIntent PROVE IntentDurable'
  <2>1. enrol.backend = "READY" /\ enrol.bridge = "PERSISTING" /\ enrol.bound = "PERSISTING"
        /\ record.synced /\ record' = record
    BY <1>6 DEF SealIntent, IntentDurable
  <2>2. CASE ~_independent_reread
    BY <1>6, <2>1, <2>2, <1>r DEF SealIntent
  <2>3. CASE _independent_reread
    <3>1. record = Sealed
      <4>1. record.content = "exact" /\ record.root = "exact" /\ record.synced = TRUE
        BY <1>0, <2>1, <2>3 DEF _independent_reread, _verify_namespace, IntentRecord
      <4> QED BY <1>0, <4>1 DEF Sealed, IntentRecord
    <3>2. /\ enrol'.backend = "READY" /\ enrol'.bridge = "SEALED_INTENT"
          /\ enrol'.bound = "PERSISTING" /\ enrol'.state = enrol.state
      BY <1>0, <1>6, <2>1, <2>3 DEF SealIntent, Enrollment
    <3> QED BY <1>0, <2>1, <3>1, <3>2 DEF IntentDurable
  <2> QED BY <2>2, <2>3
<1>7. ASSUME PersistedNoGrantIntentCapability PROVE IntentDurable'
  <2>1. enrol.backend = "READY" /\ enrol.bridge = "SEALED_INTENT" /\ enrol.bound = "PERSISTING"
        /\ record' = record
    BY <1>7 DEF PersistedNoGrantIntentCapability, _strict_persistence_receipt
  <2>2. CASE enrol' = NotPersisted(enrol)
    BY <2>1, <2>2, <1>r
  <2>3. CASE enrol' = [enrol EXCEPT !.bound = "PERSISTED"]
    BY <1>0, <2>1, <2>3 DEF IntentDurable, Enrollment
  <2> QED BY <1>7, <2>2, <2>3 DEF PersistedNoGrantIntentCapability
<1>8. ASSUME PersistFails PROVE IntentDurable'
  <2>1. /\ enrol.bound = "PERSISTING" /\ enrol.bridge \in {"PERSISTING", "SEALED_INTENT"}
        /\ enrol.backend \in {"PERSISTING", "READY"}
        /\ enrol.bridge = "SEALED_INTENT" => enrol.backend = "READY"
        /\ record' = record
    BY <1>8 DEF PersistFails, IntentDurable
  <2>2. \/ enrol.bridge = "SEALED_INTENT" /\ enrol' = NotPersisted(enrol)
        \/ enrol.backend = "READY" /\ enrol' = BridgeRefuses(enrol)
        \/ enrol' = BackendRefuses(enrol)
    BY <1>8, <2>1 DEF PersistFails
  <2> QED BY <2>1, <2>2, <1>r
<1>9. ASSUME RootReplaced PROVE IntentDurable'
  <2>1. enrol.bridge \in {"READY", "PERSISTING"} /\ enrol' = enrol
        /\ record' = [record EXCEPT !.root = "foreign"]
    BY <1>9 DEF RootReplaced
  <2>2. record'.synced = record.synced
    BY <1>0, <2>1 DEF IntentRecord
  <2> QED BY <1>0, <2>1, <2>2 DEF IntentDurable
<1> QED BY <1>0, <1>2, <1>3, <1>4, <1>5, <1>6, <1>7, <1>8, <1>9 DEF GraphNext

\* The allocation gives the handle all that the launcher holds.
LEMMA PreforkAccounts ==
    ASSUME Typed, Accounted, Prefork
    PROVE  Accounted'
<1>0. /\ alive' = alive /\ child' = child /\ GraphNext /\ graph \in Handle
      /\ fds \in [Procs -> SUBSET Roles]
      /\ "launcher" \in Procs /\ "child" \in Procs /\ "holder" \in Procs
  BY PreforkFrame, RoleTypes DEF Prefork, Typed
<1>1. ASSUME allocate_real_fd_graph PROVE Accounted'
  <2>1. /\ fds'["launcher"] = Roles /\ fds'["child"] = fds["child"] /\ fds'["holder"] = fds["holder"]
        /\ graph'.owned = Roles /\ graph'.lost = {} /\ graph'.state = "FD_GRAPH_READY" /\ alive
    BY <1>0, <1>1 DEF allocate_real_fd_graph, FreshHandle
  <2> QED BY <1>0, <2>1 DEF Accounted, EndpointsAccounted, Running
<1>2. ASSUME AllocationRefusal PROVE Accounted'
  <2>1. /\ fds'["child"] = fds["child"] /\ fds'["holder"] = fds["holder"]
        /\ graph'.owned = graph.owned /\ graph'.lost = graph.lost
        /\ graph'.state = "ALLOCATION_REFUSED" /\ graph.state = "UNALLOCATED" /\ alive
    BY <1>0, <1>2 DEF AllocationRefusal, Handle
  <2> QED BY <1>0, <2>1 DEF Accounted, EndpointsAccounted, Running
<1>3. ASSUME enroll_allocated_no_grant_graph \/ EnrollmentRefused PROVE Accounted'
  <2>1. /\ fds' = fds /\ graph'.owned = graph.owned /\ graph'.lost = graph.lost
        /\ graph.state = "FD_GRAPH_READY" /\ graph'.state \in {"FD_GRAPH_READY", "UNKNOWN_FD_GRAPH"}
    BY <1>0, <1>3 DEF enroll_allocated_no_grant_graph, EnrollmentRefused, claim_close_only_once, Handle
  <2> QED BY <1>0, <2>1 DEF Accounted, EndpointsAccounted, Running
<1>4. ASSUME fds' = fds, graph' = graph PROVE Accounted'
  BY <1>0, <1>4 DEF Accounted, EndpointsAccounted, Running
<1> QED BY <1>0, <1>1, <1>2, <1>3, <1>4
        DEF GraphNext, enroll_allocated_descendant_domain, bind_once, BindRefused,
            persist_bound_intent_once, CreateRecord, WriteAll, persist_exact_file, SealIntent,
            PersistedNoGrantIntentCapability, PersistFails, RootReplaced

\* A domain is composed, or poisoned, and nothing more.
LEMMA PreforkDomain ==
    ASSUME Typed, IntentDurable, Prefork
    PROVE  enrol'.domain \in {enrol.domain, "READY", "UNKNOWN"}
<1>0. GraphNext /\ enrol \in Enrollment
  BY DEF Prefork, Typed
<1>1. CASE enrol' = enrol \/ enrol' = PoisonEnrollment(enrol)
  BY <1>0, <1>1, PoisonedEnrollment
<1>2. CASE enrol' \in {NotPersisted(enrol), BridgeRefuses(enrol), BackendRefuses(enrol)}
  BY <1>0, <1>2, RefusedEnrollment
<1>3. CASE \/ enrol' = [enrol EXCEPT !.state = "GRAPH_ENROLLED"]
           \/ enrol' = [enrol EXCEPT !.domain = "READY"]
           \/ enrol' = BoundNoGrantIntentCapability(enrol)
           \/ enrol' = [enrol EXCEPT !.bound = "PERSISTING", !.bridge = "PERSISTING",
                                     !.backend = "PERSISTING"]
           \/ enrol' = [enrol EXCEPT !.backend = "READY"]
           \/ enrol' = [enrol EXCEPT !.bridge = "SEALED_INTENT"]
           \/ enrol' = [enrol EXCEPT !.bound = "PERSISTED"]
  BY <1>0, <1>3 DEF Enrollment, BoundNoGrantIntentCapability
<1>4. CASE PersistFails
  <2>1. enrol.backend \in {"READY", "PERSISTING"}
    BY <1>4 DEF PersistFails, IntentDurable
  <2>2. enrol' \in {NotPersisted(enrol), BridgeRefuses(enrol), BackendRefuses(enrol)}
    BY <1>4, <2>1 DEF PersistFails
  <2> QED BY <2>2, <1>2
<1> QED BY <1>0, <1>1, <1>2, <1>3, <1>4
        DEF GraphNext, allocate_real_fd_graph, AllocationRefusal, enroll_allocated_no_grant_graph,
            EnrollmentRefused, enroll_allocated_descendant_domain, bind_once, BindRefused,
            persist_bound_intent_once, CreateRecord, WriteAll, persist_exact_file, SealIntent,
            PersistedNoGrantIntentCapability, RootReplaced

\* The parts of the invariant that are not types.
Parts ==
    /\ IntentDurable /\ ForkLatched /\ Accounted /\ Ends /\ Observed /\ CapturePhases
    /\ Branches /\ VerifiedIsTrue /\ PlanIsTrue /\ PlanHeld /\ ClaimOrder

LEMMA PreforkKeeps ==
    ASSUME Typed, Parts, Prefork, rel' = rel, claim' = claim
    PROVE  Parts'
<1>0. /\ att.state = "NONE" /\ att' = att /\ alive' = alive
      /\ child' = child /\ own' = own /\ adp' = adp /\ capt' = capt /\ settle' = settle
  BY PreforkFrame
<1>1. IntentDurable' /\ Accounted'
  BY PreforkIntent, PreforkAccounts DEF Parts
<1>2. rel = NoRelease /\ ~att.fork_attempted
  BY <1>0 DEF Parts, Branches, ForkLatched, Survivor
<1>3. ForkLatched' /\ Observed' /\ CapturePhases'
  BY <1>0 DEF Parts, ForkLatched, Observed, CapturePhases
<1>4. Ends'
  BY <1>0, <1>2 DEF Parts, Ends, NoRelease
<1>5. Branches'
  BY <1>0, <1>2, PreforkDomain DEF Parts, Branches, Claimed
<1>6. VerifiedIsTrue' /\ PlanIsTrue' /\ PlanHeld'
  BY <1>0, <1>2 DEF VerifiedIsTrue, PlanIsTrue, PlanHeld, NoRelease
<1>7. ClaimOrder'
  BY <1>0 DEF Parts, ClaimOrder, Claimed, ReleaseIsHonest
<1> QED BY <1>1, <1>3, <1>4, <1>5, <1>6, <1>7 DEF Parts

-----------------------------------------------------------------------------
(* The capture                                                             *)

\* An observation of the child that exited is true, and stays so.
LEMMA ObserveHolds ==
    ASSUME Typed, Observed, observe_or_cached, child' = child
    PROVE  Observed'
<1>1. own \in Owned /\ adp \in Adapter
  BY DEF Typed
<1>2. adp'.cached = (own'.state = "TERMINAL_OBSERVED_NOT_REAPED")
  BY <1>1 DEF observe_or_cached, Adapter
<1>3. CASE own.state = "BOUND" /\ Zombie
  <2>1. own'.state = "TERMINAL_OBSERVED_NOT_REAPED" /\ own'.obs = child.code
    BY <1>1, <1>3 DEF observe_or_cached, observe_exit_nonblocking, Owned
  <2> QED BY <1>2, <1>3, <2>1 DEF Observed, Zombie
<1>4. CASE ~(own.state = "BOUND" /\ Zombie)
  <2>1. own' = own
    BY <1>4 DEF observe_or_cached, observe_exit_nonblocking
  <2> QED BY <1>2, <2>1 DEF Observed
<1> QED BY <1>3, <1>4

LEMMA AdapterPoisonHolds ==
    ASSUME Typed, Observed, AdapterPoison,
           child' = child \/ (adp.cached /\ child' = [child EXCEPT !.pc = "gone"])
    PROVE  Observed'
<1>1. /\ own'.state = "UNKNOWN" /\ own'.obs = own.obs /\ adp'.cached = adp.cached
  BY DEF Typed, AdapterPoison, Owned, Adapter
<1>2. child'.code = child.code /\ (adp.cached => child'.pc \in {"zombie", "gone"})
  BY DEF Typed, Process, Observed
<1> QED BY <1>1, <1>2 DEF Observed

LEMMA ReapHolds ==
    ASSUME Typed, Observed, reap_cached_once
    PROVE  Observed' /\ child' = [child EXCEPT !.pc = "gone"] /\ Zombie /\ own.obs = child.code
           /\ own'.pidfd = own.pidfd
<1>1. /\ own'.state = "REAPED" /\ own'.obs = own.obs /\ own'.pidfd = own.pidfd
      /\ Zombie /\ own.obs = child.code
      /\ child' = [child EXCEPT !.pc = "gone"] /\ child'.pc = "gone" /\ child'.code = child.code
  BY DEF Typed, reap_cached_once, reap_observed_exit, Owned, Process
<1> QED BY <1>1 DEF Observed

\* What every step of the capture does.
CaptureStepped ==
    /\ UNCHANGED <<clock, alive, fds, graph, enrol, record, holder>>
    /\ capt.active \/ capt.state = "SETTLING"
    /\ capt.eof \subseteq capt'.eof /\ \A s \in capt'.eof \ capt.eof : Ended(s)
    /\ capt'.cap = capt.cap \/ (capt.active /\ capt'.cap = "FRESH" /\ capt.eof = Streams)
    /\ capt'.used = capt.used /\ capt'.epoll = capt.epoll
    /\ capt'.active => capt.active
    /\ capt'.state = "SETTLING" => capt.state = "SETTLING"
    /\ capt'.state = "SETTLING" /\ capt'.step \in {"handoff", "reap"} => adp'.cached
    /\ own'.pidfd = own.pidfd
    /\ child' = child \/ (child' = [child EXCEPT !.pc = "gone"] /\ own.obs = child.code
                          /\ child.pc \in {"zombie", "gone"} /\ capt.used)
    /\ Observed'

LEMMA DrainSteps ==
    ASSUME Typed, NEW ready \in SUBSET Ready, drain_ready_turn(ready)
    PROVE  /\ capt.eof \subseteq capt'.eof /\ \A s \in capt'.eof \ capt.eof : Ended(s)
           /\ capt'.cap = capt.cap /\ capt'.used = capt.used /\ capt'.epoll = capt.epoll
           /\ capt'.active = capt.active /\ capt'.state = capt.state /\ capt'.step = "turn"
<1> DEFINE d == [s \in Streams |-> IF s \in ready THEN capt.data[s] \o pipe[s] ELSE capt.data[s]]
           e == capt.eof \cup {s \in ready : Ended(s)}
<1>1. capt' = [capt EXCEPT !.data = d, !.eof = e, !.step = "turn"]
  BY DEF drain_ready_turn
<1> HIDE DEF d
<1>2. capt \in Captured
  BY DEF Typed
<1>3. /\ capt'.eof = e /\ capt'.cap = capt.cap /\ capt'.used = capt.used /\ capt'.epoll = capt.epoll
      /\ capt'.active = capt.active /\ capt'.state = capt.state /\ capt'.step = "turn"
  BY <1>1, <1>2 DEF Captured
<1> QED BY <1>3

LEMMA MonitorSteps ==
    ASSUME Typed, Parts, MonitorNext
    PROVE  CaptureStepped
<1>0. capt \in Captured /\ Observed /\ (capt.active => capt.state # "SETTLING")
  BY DEF Typed, Parts, CapturePhases
<1>u. ASSUME own' = own, adp' = adp, child' = child PROVE Observed'
  BY <1>0, <1>u DEF Observed
<1>c. ASSUME NEW s \in {"CAPTURE_TRUNCATED_UNSETTLED", "EXECUTION_TIMEOUT_UNSETTLED"}, MonitorEnds(s)
      PROVE  /\ capt'.eof = capt.eof /\ capt'.cap = capt.cap /\ capt'.used = capt.used
             /\ capt'.epoll = capt.epoll /\ ~capt'.active /\ capt'.state # "SETTLING"
  <2>1. \E b : capt' = [capt EXCEPT !.state = s, !.active = FALSE, !.step = "idle", !.failure = b]
    BY <1>c DEF MonitorEnds
  <2> QED BY <1>0, <2>1 DEF Captured
<1>s. ASSUME NEW st, capt' = [capt EXCEPT !.step = st]
      PROVE  /\ capt'.eof = capt.eof /\ capt'.cap = capt.cap /\ capt'.used = capt.used
             /\ capt'.epoll = capt.epoll /\ capt'.active = capt.active /\ capt'.state = capt.state
  BY <1>0, <1>s DEF Captured
<1>1. ASSUME MonitorTurn PROVE CaptureStepped
  <2>1. /\ capt.active /\ child' = child
        /\ UNCHANGED <<clock, alive, fds, graph, enrol, record, holder>>
    BY <1>1 DEF MonitorTurn
  <2>2. Observed' /\ own'.pidfd = own.pidfd
    <3>1. CASE own' = own /\ adp' = adp
      BY <3>1, <2>1, <1>u
    <3>2. CASE observe_or_cached
      BY <3>2, <2>1, <1>0, ObserveHolds DEF observe_or_cached, observe_exit_nonblocking, Typed, Owned
    <3> QED BY <1>1, <3>1, <3>2 DEF MonitorTurn
  <2>3. /\ capt'.eof = capt.eof /\ capt'.cap = capt.cap /\ capt'.used = capt.used
        /\ capt'.epoll = capt.epoll /\ capt'.state # "SETTLING"
    BY <1>1, <1>0, <2>1, <1>c, <1>s DEF MonitorTurn
  <2> QED BY <2>1, <2>2, <2>3 DEF CaptureStepped
<1>2. ASSUME MonitorResample PROVE CaptureStepped
  <2>1. /\ capt.active /\ child' = child /\ own' = own /\ adp' = adp
        /\ UNCHANGED <<clock, alive, fds, graph, enrol, record, holder>>
    BY <1>2 DEF MonitorResample
  <2>2. /\ capt'.eof = capt.eof /\ capt'.cap = capt.cap /\ capt'.used = capt.used
        /\ capt'.epoll = capt.epoll /\ capt'.state # "SETTLING"
    BY <1>2, <1>0, <2>1, <1>c, <1>s DEF MonitorResample
  <2> QED BY <2>1, <2>2, <1>u DEF CaptureStepped
<1>3. ASSUME MonitorCompletes PROVE CaptureStepped
  <2>1. /\ capt.active /\ child' = child /\ own' = own /\ adp' = adp /\ capt.eof = Streams
        /\ UNCHANGED <<clock, alive, fds, graph, enrol, record, holder>>
    BY <1>3 DEF MonitorCompletes
  <2>2. /\ capt'.eof = capt.eof /\ capt'.cap = "FRESH" /\ capt'.used = capt.used
        /\ capt'.epoll = capt.epoll /\ capt'.state # "SETTLING"
    BY <1>3, <1>0 DEF MonitorCompletes, Captured
  <2> QED BY <2>1, <2>2, <1>u DEF CaptureStepped
<1>4. ASSUME MonitorPolls PROVE CaptureStepped
  <2>1. /\ capt.active /\ child' = child /\ own' = own /\ adp' = adp
        /\ UNCHANGED <<clock, alive, fds, graph, enrol, record, holder>>
    BY <1>4 DEF MonitorPolls
  <2>2. PICK ready \in SUBSET Ready : drain_ready_turn(ready)
    BY <1>4 DEF MonitorPolls
  <2> QED BY <1>0, <2>1, <2>2, <1>u, DrainSteps DEF CaptureStepped
<1>5. ASSUME MonitorFails PROVE CaptureStepped
  <2>1. /\ capt.active /\ child' = child
        /\ UNCHANGED <<clock, alive, fds, graph, enrol, record, holder>>
    BY <1>5 DEF MonitorFails
  <2>2. /\ capt'.eof = capt.eof /\ capt'.cap = capt.cap /\ capt'.used = capt.used
        /\ capt'.epoll = capt.epoll /\ capt'.state # "SETTLING"
    BY <1>5, <1>0 DEF MonitorFails, Captured
  <2>3. Observed' /\ own'.pidfd = own.pidfd
    <3>1. CASE own' = own /\ adp' = adp
      BY <3>1, <2>1, <1>u
    <3>2. CASE AdapterPoison
      BY <3>2, <2>1, <1>0, AdapterPoisonHolds DEF AdapterPoison, Typed, Owned
    <3> QED BY <1>5, <3>1, <3>2 DEF MonitorFails
  <2> QED BY <2>1, <2>2, <2>3 DEF CaptureStepped
<1> QED BY <1>1, <1>2, <1>3, <1>4, <1>5 DEF MonitorNext

\* The fields of the capture that a step of a settlement leaves alone.
LEMMA SettlingFields ==
    ASSUME capt \in Captured, NEW s, NEW t,
           capt' = [capt EXCEPT !.step = t] \/ capt' = [capt EXCEPT !.state = s, !.step = t]
    PROVE  /\ capt'.eof = capt.eof /\ capt'.cap = capt.cap /\ capt'.used = capt.used
           /\ capt'.epoll = capt.epoll /\ capt'.active = capt.active /\ capt'.step = t
           /\ capt'.state \in {capt.state, s}
BY DEF Captured

LEMMA HandedOff ==
    ASSUME Typed, Observed, enter_completed_settlement \/ enter_settlement, own' = own, child' = child
    PROVE  Observed' /\ adp'.cached = adp.cached
<1>1. adp'.cached = adp.cached
  BY DEF Typed, enter_completed_settlement, enter_settlement, Adapter
<1> QED BY <1>1 DEF Observed

LEMMA ReapUnknownHolds ==
    ASSUME Typed, Observed, ReapUnknown, adp.cached
    PROVE  /\ Observed' /\ own'.pidfd = own.pidfd
           /\ child' = child \/ (child' = [child EXCEPT !.pc = "gone"] /\ own.obs = child.code
                                 /\ child.pc \in {"zombie", "gone"})
<1>1. own'.pidfd = own.pidfd
  BY DEF Typed, ReapUnknown, AdapterPoison, Owned
<1>2. Observed'
  BY AdapterPoisonHolds DEF ReapUnknown
<1> QED BY <1>1, <1>2 DEF Observed, ReapUnknown

LEMMA FailureHolds ==
    ASSUME Typed, Observed, AdapterAfterFailure, capt.step = "reap" => adp.cached
    PROVE  /\ Observed' /\ own'.pidfd = own.pidfd
           /\ child' = child \/ (child' = [child EXCEPT !.pc = "gone"] /\ own.obs = child.code
                                 /\ child.pc \in {"zombie", "gone"})
<1>1. CASE capt.step = "reap" /\ ReapUnknown
  BY <1>1, ReapUnknownHolds
<1>2. CASE AdapterPoison /\ UNCHANGED child
  BY <1>2, AdapterPoisonHolds DEF AdapterPoison, Typed, Owned
<1>3. CASE UNCHANGED <<adp, own, child>>
  BY <1>3 DEF Observed
<1> QED BY <1>1, <1>2, <1>3 DEF AdapterAfterFailure

LEMMA ReapSteps ==
    ASSUME Typed, Parts, ReapNext
    PROVE  CaptureStepped
<1>0. /\ capt \in Captured /\ Observed /\ capt.state = "SETTLING" /\ capt.used /\ ~capt.active
      /\ capt.step \in {"handoff", "reap"} => adp.cached
  BY DEF Typed, Parts, CapturePhases, ReapNext, ReapHandsOff, ReapsChild, ReapSettles, ReapFails,
         Reaping
<1>u. ASSUME own' = own, adp' = adp, child' = child PROVE Observed'
  BY <1>0, <1>u DEF Observed
<1>f. UNCHANGED <<clock, alive, fds, graph, enrol, record, holder>>
  BY DEF ReapNext, ReapHandsOff, ReapsChild, ReapSettles, ReapFails
<1>k. ASSUME NEW b, SettlementUnknown(b)
      PROVE  /\ capt'.eof = capt.eof /\ capt'.cap = capt.cap /\ capt'.used = capt.used
             /\ capt'.epoll = capt.epoll /\ capt'.active = capt.active /\ capt'.step = "idle"
  BY <1>0, <1>k, SettlingFields DEF SettlementUnknown
<1>1. ASSUME ReapHandsOff PROVE CaptureStepped
  <2>1. own' = own /\ child' = child /\ adp.cached
    BY <1>0, <1>1 DEF ReapHandsOff
  <2>2. CASE InCleanup
    <3>1. enter_completed_settlement /\ capt' = [capt EXCEPT !.step = "reap"]
      BY <1>1, <2>2 DEF ReapHandsOff
    <3>2. Observed' /\ adp'.cached
      BY <1>0, <2>1, <3>1, HandedOff
    <3> QED BY <1>0, <1>f, <2>1, <3>1, <3>2, SettlingFields DEF CaptureStepped
  <2>3. CASE ~InCleanup
    BY <1>0, <1>1, <1>f, <1>k, <1>u, <2>1, <2>3 DEF CaptureStepped, ReapHandsOff
  <2> QED BY <2>2, <2>3
<1>2. ASSUME ReapsChild PROVE CaptureStepped
  <2>1. CASE InCleanup
    <3>1. reap_cached_once /\ capt' = [capt EXCEPT !.step = "reaped"]
      BY <1>2, <2>1 DEF ReapsChild
    <3>2. /\ Observed' /\ child' = [child EXCEPT !.pc = "gone"] /\ own.obs = child.code
          /\ child.pc \in {"zombie", "gone"} /\ own'.pidfd = own.pidfd
      BY <1>0, <3>1, ReapHolds DEF Zombie
    <3> QED BY <1>0, <1>f, <3>1, <3>2, SettlingFields DEF CaptureStepped
  <2>2. CASE ~InCleanup
    BY <1>0, <1>2, <1>f, <1>k, <1>u, <2>2 DEF CaptureStepped, ReapsChild
  <2> QED BY <2>1, <2>2
<1>3. ASSUME ReapSettles PROVE CaptureStepped
  <2>1. CASE InCleanup
    <3>1. /\ capt' = [capt EXCEPT !.state = "SETTLEMENT_FINISHED", !.step = "idle"]
          /\ own' = own /\ adp' = adp /\ child' = child
      BY <1>3, <2>1 DEF ReapSettles
    <3>2. /\ capt'.eof = capt.eof /\ capt'.cap = capt.cap /\ capt'.used = capt.used
          /\ capt'.epoll = capt.epoll /\ capt'.active = capt.active /\ capt'.step = "idle"
      BY <1>0, <3>1, SettlingFields
    <3> QED BY <1>0, <1>f, <1>u, <3>1, <3>2 DEF CaptureStepped
  <2>2. CASE ~InCleanup
    BY <1>0, <1>3, <1>f, <1>k, <1>u, <2>2 DEF CaptureStepped, ReapSettles
  <2> QED BY <2>1, <2>2
<1>4. ASSUME ReapFails PROVE CaptureStepped
  <2> DEFINE b == capt.step = "reaped"
  <2>1. SettlementUnknown(b)
    BY <1>4 DEF ReapFails
  <2> HIDE DEF b
  <2>2. AdapterAfterFailure
    BY <1>4 DEF ReapFails
  <2>3. /\ Observed' /\ own'.pidfd = own.pidfd
        /\ child' = child \/ (child' = [child EXCEPT !.pc = "gone"] /\ own.obs = child.code
                              /\ child.pc \in {"zombie", "gone"})
    BY <1>0, <2>2, FailureHolds
  <2> QED BY <1>0, <1>f, <1>k, <2>1, <2>3 DEF CaptureStepped
<1> QED BY <1>1, <1>2, <1>3, <1>4 DEF ReapNext

LEMMA SettleSteps ==
    ASSUME Typed, Parts, SettleNext
    PROVE  CaptureStepped
<1>0. /\ capt \in Captured /\ Observed /\ capt.state = "SETTLING" /\ capt.used /\ ~capt.active
      /\ capt.step \in {"handoff", "reap"} => adp.cached
  BY DEF Typed, Parts, CapturePhases, SettleNext, SettleHandsOff, SettleObserves, SettleReaps,
         SettleDrains, SettleTurns, SettleFails, Settling
<1>u. ASSUME own' = own, adp' = adp, child' = child PROVE Observed'
  BY <1>0, <1>u DEF Observed
<1>f. UNCHANGED <<clock, alive, fds, graph, enrol, record, holder>>
  BY DEF SettleNext, SettleHandsOff, SettleObserves, SettleReaps, SettleDrains, SettleTurns,
         SettleFails
<1>k. ASSUME NEW o, SettlementFinishes(o)
      PROVE  /\ capt'.eof = capt.eof /\ capt'.cap = capt.cap /\ capt'.used = capt.used
             /\ capt'.epoll = capt.epoll /\ capt'.active = capt.active /\ capt'.step = "idle"
  BY <1>0, <1>k, SettlingFields DEF SettlementFinishes
<1>1. ASSUME SettleHandsOff PROVE CaptureStepped
  <2>1. own' = own /\ child' = child /\ enter_settlement /\ capt' = [capt EXCEPT !.step = "observe"]
    BY <1>1 DEF SettleHandsOff
  <2>2. Observed'
    BY <1>0, <2>1, HandedOff
  <2> QED BY <1>0, <1>f, <2>1, <2>2, SettlingFields DEF CaptureStepped
<1>2. ASSUME SettleObserves PROVE CaptureStepped
  <2>1. child' = child
    BY <1>2 DEF SettleObserves
  <2>2. CASE ~InCleanup
    BY <1>0, <1>2, <1>f, <1>k, <1>u, <2>1, <2>2 DEF CaptureStepped, SettleObserves
  <2>3. CASE InCleanup
    <3>1. Observed' /\ own'.pidfd = own.pidfd
      <4>1. CASE own' = own /\ adp' = adp
        BY <4>1, <2>1, <1>u
      <4>2. CASE observe_or_cached
        BY <4>2, <2>1, <1>0, ObserveHolds DEF observe_or_cached, observe_exit_nonblocking, Typed, Owned
      <4> QED BY <1>2, <2>3, <4>1, <4>2 DEF SettleObserves
    <3>2. \/ adp'.cached /\ capt' = [capt EXCEPT !.step = "reap"]
          \/ capt' = [capt EXCEPT !.step = "check"]
      BY <1>2, <2>3 DEF SettleObserves
    <3> QED BY <1>0, <1>f, <2>1, <3>1, <3>2, SettlingFields DEF CaptureStepped
  <2> QED BY <2>2, <2>3
<1>3. ASSUME SettleReaps PROVE CaptureStepped
  <2>1. CASE InCleanup
    <3>1. reap_cached_once /\ capt' = [capt EXCEPT !.step = "check"]
      BY <1>3, <2>1 DEF SettleReaps
    <3>2. /\ Observed' /\ child' = [child EXCEPT !.pc = "gone"] /\ own.obs = child.code
          /\ child.pc \in {"zombie", "gone"} /\ own'.pidfd = own.pidfd
      BY <1>0, <3>1, ReapHolds DEF Zombie
    <3> QED BY <1>0, <1>f, <3>1, <3>2, SettlingFields DEF CaptureStepped
  <2>2. CASE ~InCleanup
    BY <1>0, <1>3, <1>f, <1>k, <1>u, <2>2 DEF CaptureStepped, SettleReaps
  <2> QED BY <2>1, <2>2
<1>4. ASSUME SettleDrains PROVE CaptureStepped
  <2>1. own' = own /\ adp' = adp /\ child' = child
    BY <1>4 DEF SettleDrains
  <2>2. CASE \E o : SettlementFinishes(o)
    BY <1>0, <1>f, <1>k, <1>u, <2>1, <2>2 DEF CaptureStepped
  <2>3. CASE \E ready \in SUBSET Ready : drain_ready_turn(ready)
    <3>1. PICK ready \in SUBSET Ready : drain_ready_turn(ready)
      BY <2>3
    <3> QED BY <1>0, <1>f, <1>u, <2>1, <3>1, DrainSteps DEF CaptureStepped
  <2> QED BY <1>4, <2>2, <2>3 DEF SettleDrains
<1>5. ASSUME SettleTurns PROVE CaptureStepped
  BY <1>0, <1>5, <1>f, <1>u, SettlingFields DEF CaptureStepped, SettleTurns
<1>6. ASSUME SettleFails PROVE CaptureStepped
  <2>1. /\ capt'.eof = capt.eof /\ capt'.cap = capt.cap /\ capt'.used = capt.used
        /\ capt'.epoll = capt.epoll /\ capt'.active = capt.active /\ capt'.step = "idle"
    BY <1>0, <1>6, SettlingFields DEF SettleFails
  <2>2. AdapterAfterFailure
    BY <1>6 DEF SettleFails
  <2>3. /\ Observed' /\ own'.pidfd = own.pidfd
        /\ child' = child \/ (child' = [child EXCEPT !.pc = "gone"] /\ own.obs = child.code
                              /\ child.pc \in {"zombie", "gone"})
    BY <1>0, <2>2, FailureHolds
  <2> QED BY <1>0, <1>f, <2>1, <2>3 DEF CaptureStepped
<1> QED BY <1>1, <1>2, <1>3, <1>4, <1>5, <1>6 DEF SettleNext

\* A child that is no longer running, and not for the first time, stays what it was.
LEMMA CaptureKeeps ==
    ASSUME Typed, Parts, CaptureStepped, capt' \in Captured, att' = att, rel' = rel, claim' = claim
    PROVE  Parts'
<1> USE DEF Parts
<1>0. /\ alive' = alive /\ fds' = fds /\ graph' = graph /\ enrol' = enrol /\ record' = record
      /\ child \in Process /\ Observed'
  BY DEF CaptureStepped, Typed
<1>c. /\ child'.code = child.code
      /\ child' = child \/ (child'.pc = "gone" /\ child.pc \in {"zombie", "gone"})
  BY <1>0 DEF CaptureStepped, Process
<1>r. Running' <=> Running
  BY <1>c DEF Running, RunningPc
<1>e. \A p : Ended(p) <=> Ended(p)'
  BY <1>0 DEF Ended
<1>1. IntentDurable'
  BY <1>0 DEF IntentDurable
<1>2. ForkLatched'
  BY <1>c DEF ForkLatched
<1>3. Accounted'
  BY <1>0, <1>r DEF Accounted, EndpointsAccounted
<1>4. Ends'
  <2>1. \A s \in capt'.eof : Ended(s)
    BY DEF CaptureStepped, Ends
  <2>2. att.state # "NONE"
    BY DEF CaptureStepped, CapturePhases, Survivor
  <2> QED BY <1>e, <2>1, <2>2 DEF Ends
<1>5. CapturePhases'
  <2>1. capt'.cap # "NONE" => capt'.eof = Streams
    <3>1. capt'.eof \subseteq Streams
      BY DEF Captured
    <3>2. capt'.cap # "NONE" => capt.eof = Streams
      BY DEF CaptureStepped, CapturePhases
    <3> QED BY <3>1, <3>2 DEF CaptureStepped
  <2> QED BY <2>1 DEF CaptureStepped, CapturePhases, ReapPhases, Survivor
<1>6. Branches'
  BY <1>0 DEF Branches, Claimed
<1>7. VerifiedIsTrue' /\ PlanIsTrue' /\ PlanHeld'
  BY <1>0, <1>c DEF VerifiedIsTrue, PlanIsTrue, PlanHeld, CaptureStepped
<1>8. ClaimOrder'
  BY DEF ClaimOrder, Claimed, ReleaseIsHonest
<1> QED BY <1>0, <1>1, <1>2, <1>3, <1>4, <1>5, <1>6, <1>7, <1>8

-----------------------------------------------------------------------------
(* The attempt                                                             *)

LEMMA AttemptFields ==
    ASSUME att \in Attempt
    PROVE  /\ _poison(att).state = IF att.fork_attempted THEN Survivor ELSE "UNKNOWN"
           /\ _poison(att).fork_attempted = att.fork_attempted
           /\ _poison(att).status = att.status /\ _poison(att).evidence = att.evidence
           /\ \A s : /\ Phase(s).state = s /\ Phase(s).fork_attempted = att.fork_attempted
                     /\ Phase(s).status = att.status /\ Phase(s).evidence = att.evidence
BY DEF Attempt, _poison, Phase, Survivor

\* Once there is an attempt the intent is on disk, and only the enrollment's own
\* state and its domain still change.
EnrolKept ==
    /\ enrol'.bound = enrol.bound /\ enrol'.bridge = enrol.bridge
    /\ enrol'.backend = enrol.backend /\ enrol'.state \in {enrol.state, "UNKNOWN"}

LEMMA IntentKept ==
    ASSUME IntentDurable, att.state # "NONE", record' = record, EnrolKept
    PROVE  IntentDurable'
BY DEF IntentDurable, EnrolKept

LEMMA EnrolPoisoned ==
    ASSUME enrol \in Enrollment, enrol' = enrol \/ enrol' = PoisonEnrollment(enrol)
    PROVE  /\ EnrolKept
           /\ enrol'.domain = enrol.domain \/ (enrol.domain # "NONE" /\ enrol'.domain = "UNKNOWN")
BY PoisonedEnrollment DEF EnrolKept

LEMMA EnrolShared ==
    ASSUME enrol \in Enrollment, NEW d, enrol' = Shared(d)
    PROVE  EnrolKept /\ enrol'.domain = d
BY DEF EnrolKept, Shared, Enrollment

\* A poisoned attempt is what its latch says, and claims nothing.
LEMMA PoisonedAttempt ==
    ASSUME Typed, Parts, att.state # "NONE", att' = _poison(att), child' = child \/ att.fork_attempted
    PROVE  /\ ForkLatched' /\ VerifiedIsTrue' /\ ~Claimed' /\ att'.state \in {"UNKNOWN", Survivor}
           /\ att'.fork_attempted = att.fork_attempted /\ att'.status = att.status
           /\ att.fork_attempted => att'.state = Survivor
           /\ capt' = capt /\ adp' = adp => CapturePhases'
<1>1. att \in Attempt
  BY DEF Typed
<1>2. /\ att'.state = IF att.fork_attempted THEN Survivor ELSE "UNKNOWN"
      /\ att'.fork_attempted = att.fork_attempted /\ att'.status = att.status
  BY <1>1, AttemptFields
<1>3. ForkLatched'
  BY <1>2 DEF Parts, ForkLatched, Survivor
<1>4. VerifiedIsTrue' /\ ~Claimed'
  BY <1>2 DEF VerifiedIsTrue, Claimed, Survivor
<1>5. capt' = capt /\ adp' = adp => CapturePhases'
  BY <1>2 DEF Parts, ForkLatched, CapturePhases, ReapPhases, Survivor
<1> QED BY <1>2, <1>3, <1>4, <1>5

\* What an operation that poisons the attempt leaves true.
LEMMA PoisonKeeps ==
    ASSUME Typed, Parts, att' = _poison(att), att.state # "NONE", ~Claimed,
           alive' = alive, fds' = fds, graph' = graph, record' = record, child' = child,
           claim' = claim, capt' = capt, own'.pidfd = own.pidfd, Observed',
           adp' = adp \/ (adp'.cached = adp.cached),
           EnrolKept, enrol'.domain = enrol.domain \/ (enrol.domain # "NONE" /\ enrol'.domain = "UNKNOWN"),
           \/ rel' = rel
           \/ /\ rel # NoRelease /\ rel'.plan = rel.plan /\ rel'.read = rel.read
              /\ rel'.status \in {rel.status, "UNKNOWN"}
    PROVE  Parts'
<1>1. /\ ForkLatched' /\ VerifiedIsTrue' /\ ~Claimed' /\ att'.state \in {"UNKNOWN", Survivor}
      /\ att'.fork_attempted = att.fork_attempted /\ att'.status = att.status
      /\ att.fork_attempted => att'.state = Survivor
  BY PoisonedAttempt
<1>2. IntentDurable'
  BY IntentKept DEF Parts
<1>3. Accounted'
  BY DEF Parts, Accounted, EndpointsAccounted, Running
<1>4. Ends'
  BY <1>1 DEF Parts, Ends, Ended, Survivor
<1>5. CapturePhases'
  BY <1>1 DEF Parts, ForkLatched, CapturePhases, ReapPhases, Survivor
<1>6. Branches'
  BY <1>1 DEF Parts, ForkLatched, Branches, Survivor
<1>7. PlanIsTrue' /\ PlanHeld'
  BY DEF Parts, PlanIsTrue, PlanHeld
<1>8. ClaimOrder'
  <2>1. claim = NewClaim
    BY DEF Parts, ClaimOrder
  <2> QED BY <2>1 DEF Parts, ClaimOrder, ReleaseIsHonest
<1> QED BY <1>1, <1>2, <1>3, <1>4, <1>5, <1>6, <1>7, <1>8 DEF Parts

\* What a step of an attempt that has not branched off must show.
LEMMA StepKeeps ==
    ASSUME Typed, Parts, rel = NoRelease, rel' = rel, claim' = claim, ~Claimed,
           att.state # "NONE", att'.state # "NONE", record' = record,
           EnrolKept, enrol'.domain \notin {"NONE", "READY", "UNKNOWN"} => att'.fork_attempted,
           Claimed' => enrol'.domain = "NONE",
           Accounted', \A p \in Pipes : Ended(p) => Ended(p)', capt'.eof \subseteq capt.eof,
           att'.status = "EOF" => att.status = "EOF" \/ Ended("status"),
           att'.state = "LINUX_STATUS_EOF_OBSERVED_UNQUALIFIED" => att'.status = "EOF",
           ForkLatched', Observed', CapturePhases', VerifiedIsTrue'
    PROVE  Parts'
<1>1. IntentDurable'
  BY IntentKept DEF Parts
<1>2. Ends'
  <2>1. capt.eof \subseteq Pipes /\ "status" \in Pipes
    BY DEF Typed, Captured, Streams, Pipes
  <2>2. \A s \in capt'.eof : Ended(s)'
    BY <2>1 DEF Parts, Ends
  <2>3. att'.status = "EOF" => Ended("status")'
    BY <2>1 DEF Parts, Ends
  <2> QED BY <2>2, <2>3 DEF Ends, NoRelease
<1>3. Branches'
  BY DEF Branches
<1>4. PlanIsTrue' /\ PlanHeld'
  BY DEF PlanIsTrue, PlanHeld, NoRelease
<1>5. ClaimOrder'
  <2>1. claim = NewClaim
    BY DEF Parts, ClaimOrder
  <2> QED BY <2>1 DEF Parts, ClaimOrder, ReleaseIsHonest
<1> QED BY <1>1, <1>2, <1>3, <1>4, <1>5 DEF Parts

\* The attempt has branched off only where the domain went on, or was poisoned.
LEMMA Unbranched ==
    ASSUME Parts, att.state \notin {"LINUX_LEADER_REAPED_UNQUALIFIED", Survivor}
    PROVE  rel = NoRelease
BY DEF Parts, Branches

\* A step that leaves the descriptors alone.
LEMMA QuietAccounts ==
    ASSUME Parts, alive' = alive, fds' = fds, graph' = graph, Running' = Running
    PROVE  Accounted' /\ \A p \in Pipes : Ended(p) => Ended(p)'
BY DEF Parts, Accounted, EndpointsAccounted, Ended

LEMMA QuietObserved ==
    ASSUME Parts, own' = own, adp' = adp, child' = child
    PROVE  Observed'
BY DEF Parts, Observed

\* One close by the launcher: it gives the role up, or notes that it lost it.
LEMMA CloseAccounts ==
    ASSUME Typed, Parts, NEW role \in Roles, close_role_once(role) \/ CloseRoleFails(role),
           alive, alive' = alive, child' = child, att.state # "NONE"
    PROVE  Accounted' /\ \A p \in Pipes : Ended(p) => Ended(p)'
<1>0. /\ graph \in Handle /\ fds \in [Procs -> SUBSET Roles] /\ role \in graph.owned
      /\ "launcher" \in Procs /\ "child" \in Procs /\ "holder" \in Procs /\ Accounted
  BY RoleTypes DEF Typed, Parts, close_role_once, CloseRoleFails
<1>1. /\ fds'["child"] = fds["child"] /\ fds'["holder"] = fds["holder"]
      /\ \/ fds' = [fds EXCEPT !["launcher"] = @ \ {role}] /\ fds'["launcher"] = fds["launcher"] \ {role}
            /\ graph'.lost = graph.lost /\ graph'.owned = graph.owned \ {role}
         \/ fds' = fds /\ graph'.lost = graph.lost \cup {role} /\ graph'.owned = graph.owned \ {role}
  BY <1>0 DEF close_role_once, CloseRoleFails, CloseConfirmed, CloseUnknown, CloseTargetLost, Handle
<1>2. graph.state \notin {"UNALLOCATED", "ALLOCATION_REFUSED"}
  BY <1>0 DEF Accounted
<1>3. graph'.state \notin {"UNALLOCATED", "ALLOCATION_REFUSED"}
  BY <1>0, <1>2 DEF close_role_once, CloseRoleFails, CloseConfirmed, CloseUnknown, CloseTargetLost, Handle
<1>4. fds["launcher"] = graph.owned \cup graph.lost /\ graph.owned \cap graph.lost = {}
  BY <1>0, <1>2 DEF Accounted, EndpointsAccounted
<1>5. fds'["launcher"] = graph'.owned \cup graph'.lost /\ graph'.owned \cap graph'.lost = {}
  BY <1>0, <1>1, <1>4
<1>6. Accounted'
  BY <1>0, <1>1, <1>3, <1>5 DEF Accounted, EndpointsAccounted, Running
<1>7. \A q \in Procs : fds'[q] \subseteq fds[q]
  BY <1>0, <1>1 DEF Procs
<1> QED BY <1>6, <1>7 DEF Ended

\* From the fork to the monitor the attempt goes on or is poisoned.
Early ==
    {"LINUX_BINDING_PIDFD", "LINUX_PIDFD_BOUND_UNARMED", "LINUX_CLOSING_CHILD_ENDPOINTS",
     "LINUX_WAITING_READY", "LINUX_READY", "LINUX_CAPTURE_BOUND_UNARMED",
     "LINUX_CLOSING_GRANT_ZERO_WRITE", "LINUX_GRANT_WRITER_CLOSED_UNSETTLED"}

LEMMA EarlyStep ==
    ASSUME Typed, Parts, att.state \in Early \cup {"LINUX_FORKING"},
           att' = att \/ att' = _poison(att) \/ (\E s \in Early : att' = Phase(s)),
           att' = att => child' = child
    PROVE  /\ ForkLatched' /\ VerifiedIsTrue' /\ ~Claimed /\ ~Claimed' /\ rel = NoRelease
           /\ att.fork_attempted /\ att'.fork_attempted /\ att'.status = att.status
           /\ att'.state \notin {"NONE", "LINUX_STATUS_EOF_OBSERVED_UNQUALIFIED"} \cup ReapPhases
           /\ ~capt.active /\ capt.state # "SETTLING"
           /\ capt' = capt /\ adp' = adp => CapturePhases'
<1>1. /\ att.fork_attempted /\ ~Claimed /\ rel = NoRelease /\ att \in Attempt
      /\ ~capt.active /\ capt.state # "SETTLING"
  BY Unbranched DEF Parts, ForkLatched, CapturePhases, Claimed, Early, Survivor, Typed
<1>2. CASE att' = att
  BY <1>1, <1>2 DEF Parts, ForkLatched, VerifiedIsTrue, Claimed, Early, CapturePhases, ReapPhases
<1>3. CASE att' = _poison(att)
  BY <1>1, <1>3, PoisonedAttempt DEF Parts, Survivor, ReapPhases, Early
<1>4. CASE \E s \in Early : att' = Phase(s)
  <2>1. att'.state \in Early /\ att'.fork_attempted /\ att'.status = att.status
    BY <1>1, <1>4, AttemptFields
  <2> QED BY <1>1, <2>1 DEF Parts, ForkLatched, VerifiedIsTrue, Claimed, Early, CapturePhases, ReapPhases
<1> QED BY <1>2, <1>3, <1>4

LEMMA EarlyKeeps ==
    ASSUME Typed, Parts, att.state \in Early \cup {"LINUX_FORKING"},
           att' = att \/ att' = _poison(att) \/ (\E s \in Early : att' = Phase(s)),
           att' = att => child' = child,
           record' = record, rel' = rel, claim' = claim, capt' = capt, adp' = adp,
           EnrolKept, Observed', Accounted', \A p \in Pipes : Ended(p) => Ended(p)'
    PROVE  Parts'
<1>1. /\ ForkLatched' /\ VerifiedIsTrue' /\ ~Claimed /\ ~Claimed' /\ rel = NoRelease
      /\ att'.fork_attempted /\ att'.status = att.status
      /\ att'.state \notin {"NONE", "LINUX_STATUS_EOF_OBSERVED_UNQUALIFIED"} /\ CapturePhases'
  BY EarlyStep
<1>2. att.state # "NONE" /\ capt'.eof \subseteq capt.eof
  BY DEF Early
<1> QED BY <1>1, <1>2, StepKeeps

\* The attempt takes over a record that is on disk.
LEMMA ClaimAttemptKeeps ==
    ASSUME Typed, Parts, ClaimAttempt, rel' = rel, claim' = claim
    PROVE  Parts'
<1>0. /\ att.state = "NONE" /\ att \in Attempt /\ enrol \in Enrollment /\ record' = record
      /\ alive' = alive /\ fds' = fds /\ graph' = graph /\ child' = child /\ own' = own
      /\ adp' = adp /\ capt' = capt /\ enrol.bound = "PERSISTED"
  BY DEF ClaimAttempt, InPhase, Typed
<1>1. /\ rel = NoRelease /\ claim = NewClaim /\ ~att.fork_attempted /\ child.pc = "none"
      /\ capt.eof = {} /\ att.status = "UNREAD" /\ ~capt.active /\ capt.state # "SETTLING"
      /\ enrol.bridge = "SEALED_INTENT" /\ record = Sealed /\ enrol.backend # "PERSISTING"
      /\ enrol.domain \in {"NONE", "READY", "UNKNOWN"} /\ enrol.state \notin {"NONE", "GRAPH_ENROLLED"}
  BY <1>0, Unbranched
  DEF Parts, ForkLatched, ClaimOrder, Claimed, Ends, CapturePhases, IntentDurable, Branches, Survivor
<1>2. /\ Accounted' /\ Observed'
  BY <1>0, QuietAccounts, QuietObserved DEF Running
<1>3. PlanIsTrue' /\ PlanHeld'
  BY <1>1 DEF PlanIsTrue, PlanHeld, NoRelease
<1>4. CASE att' = att
  <2>1. enrol' = NotPersisted(enrol)
    BY <1>0, <1>4, AttemptFields DEF ClaimAttempt, NotPersisted
  <2>2. /\ enrol'.state = "UNKNOWN" /\ enrol'.bound = "UNKNOWN"
        /\ enrol'.bridge = enrol.bridge /\ enrol'.backend = enrol.backend
        /\ enrol'.domain \in {"NONE", "UNKNOWN"}
    BY <1>0, <2>1, RefusedEnrollment
  <2>3. IntentDurable'
    BY <1>0, <1>1, <2>2 DEF IntentDurable
  <2>4. ForkLatched' /\ Ends' /\ CapturePhases' /\ VerifiedIsTrue'
    BY <1>0, <1>1, <1>4 DEF Parts, ForkLatched, Ends, Ended, CapturePhases, VerifiedIsTrue
  <2>5. Branches'
    BY <1>0, <1>1, <1>4, <2>2 DEF Branches, Claimed
  <2>6. ClaimOrder'
    BY <1>0, <1>1, <1>4 DEF Parts, ClaimOrder, ReleaseIsHonest
  <2> QED BY <1>2, <1>3, <2>3, <2>4, <2>5, <2>6 DEF Parts
<1>5. CASE att' # att
  <2>1. enrol' = [enrol EXCEPT !.bound = "CLAIMED"] /\ att' = Phase("READY_TO_FORK")
    BY <1>5 DEF ClaimAttempt
  <2>2. /\ enrol'.state = enrol.state /\ enrol'.bound = "CLAIMED"
        /\ enrol'.bridge = enrol.bridge /\ enrol'.backend = enrol.backend
        /\ enrol'.domain = enrol.domain
    BY <1>0, <2>1 DEF Enrollment
  <2>3. att'.state = "READY_TO_FORK" /\ ~att'.fork_attempted /\ att'.status = "UNREAD"
    BY <1>0, <1>1, <2>1, AttemptFields
  <2>4. IntentDurable'
    BY <1>0, <1>1, <2>2 DEF IntentDurable
  <2>5. ForkLatched' /\ Ends' /\ CapturePhases' /\ VerifiedIsTrue'
    BY <1>0, <1>1, <2>3
    DEF Parts, ForkLatched, Ends, Ended, CapturePhases, VerifiedIsTrue, ReapPhases, NoRelease
  <2>6. Branches'
    BY <1>0, <1>1, <2>2, <2>3 DEF Branches, Claimed
  <2>7. ClaimOrder'
    BY <1>0, <1>1 DEF Parts, ClaimOrder, ReleaseIsHonest
  <2> QED BY <1>2, <1>3, <2>4, <2>5, <2>6, <2>7 DEF Parts
<1> QED BY <1>4, <1>5

\* The latch is set before the fork, with no child there yet.
LEMMA PreflightKeeps ==
    ASSUME Typed, Parts, LinuxPreflight, rel' = rel, claim' = claim
    PROVE  Parts'
<1>0. /\ att.state = "READY_TO_FORK" /\ att \in Attempt /\ record' = record /\ enrol' = enrol
      /\ alive' = alive /\ fds' = fds /\ graph' = graph /\ child' = child /\ own' = own
      /\ adp' = adp /\ capt' = capt
  BY DEF LinuxPreflight, InPhase, Typed
<1>1. /\ ~att.fork_attempted /\ child.pc = "none" /\ rel = NoRelease /\ ~Claimed
      /\ ~capt.active /\ capt.state # "SETTLING"
      /\ enrol.domain \in {"NONE", "READY", "UNKNOWN"}
  BY <1>0, Unbranched DEF Parts, ForkLatched, Claimed, CapturePhases, Branches, Survivor
<1>2. /\ Accounted' /\ Observed' /\ \A p \in Pipes : Ended(p) => Ended(p)'
  BY <1>0, QuietAccounts, QuietObserved DEF Running
<1>3. EnrolKept
  BY <1>0 DEF EnrolKept
<1>4. CASE att' = _poison(att)
  <2>1. /\ ForkLatched' /\ VerifiedIsTrue' /\ ~Claimed' /\ att'.state \in {"UNKNOWN", Survivor}
        /\ att'.status = att.status /\ CapturePhases'
    BY <1>0, <1>4, PoisonedAttempt
  <2> QED BY <1>0, <1>1, <1>2, <1>3, <2>1, StepKeeps DEF Survivor
<1>5. CASE att' # _poison(att)
  <2>1. att' = [Phase("LINUX_FORKING") EXCEPT !.fork_attempted = TRUE]
    BY <1>5 DEF LinuxPreflight
  <2>2. att'.state = "LINUX_FORKING" /\ att'.fork_attempted /\ att'.status = att.status
    BY <1>0, <2>1 DEF Phase, Attempt
  <2>3. ForkLatched' /\ VerifiedIsTrue' /\ ~Claimed' /\ CapturePhases'
    BY <1>0, <1>1, <2>2
    DEF Parts, ForkLatched, VerifiedIsTrue, Claimed, CapturePhases, ReapPhases
  <2> QED BY <1>0, <1>1, <1>2, <1>3, <2>2, <2>3, StepKeeps
<1> QED BY <1>4, <1>5

\* A forked child inherits what the launcher holds.
LEMMA ForkInherits ==
    ASSUME Typed, Parts, att.state = "LINUX_FORKING", alive, alive' = alive, graph' = graph,
           child' = Forked, fds' = [fds EXCEPT !["child"] = Inherited]
    PROVE  Accounted' /\ \A p \in Pipes : Ended(p) => Ended(p)'
<1>1. /\ fds \in [Procs -> SUBSET Roles]
      /\ "launcher" \in Procs /\ "child" \in Procs /\ "holder" \in Procs
  BY RoleTypes DEF Typed
<1>2. /\ fds'["launcher"] = fds["launcher"] /\ fds'["holder"] = fds["holder"]
      /\ fds'["child"] \subseteq fds["launcher"]
  BY <1>1 DEF Inherited
<1>3. Running'
  BY DEF Running, Forked, RunningPc
<1>4. Accounted'
  BY <1>2, <1>3 DEF Parts, Accounted, EndpointsAccounted
<1>5. ASSUME NEW p \in Pipes, Ended(p) PROVE Ended(p)'
  BY <1>1, <1>2, <1>5 DEF Ended, Procs
<1> QED BY <1>4, <1>5

LEMMA ForkKeeps ==
    ASSUME Typed, Parts, LinuxFork \/ LinuxForkFails, rel' = rel, claim' = claim
    PROVE  Parts'
<1>0. /\ att.state = "LINUX_FORKING" /\ alive /\ alive' = alive /\ graph' = graph /\ record' = record
      /\ capt' = capt /\ adp' = adp /\ own \in Owned /\ enrol \in Enrollment
  BY DEF LinuxFork, LinuxForkFails, InPhase, Typed
<1>1. /\ child.pc = "none" /\ own.state \notin {"TERMINAL_OBSERVED_NOT_REAPED", "REAPED"}
      /\ ~adp.cached
  BY <1>0 DEF Parts, ForkLatched, Observed
<1>2. Accounted' /\ \A p \in Pipes : Ended(p) => Ended(p)'
  <2>1. CASE child' = child /\ fds' = fds
    BY <1>0, <2>1, QuietAccounts DEF Running
  <2>2. CASE child' = Forked /\ fds' = [fds EXCEPT !["child"] = Inherited]
    BY <1>0, <2>2, ForkInherits
  <2> QED BY <2>1, <2>2 DEF LinuxFork, LinuxForkFails
<1>3. EnrolKept
  BY <1>0 DEF LinuxFork, LinuxForkFails, EnrolKept, ForkedDomain, Enrollment
<1>4. own'.state = own.state
  BY <1>0 DEF LinuxFork, LinuxForkFails, _record_owned_fork, Owned
<1>5. Observed'
  BY <1>0, <1>1, <1>4 DEF Observed
<1>6. att' = _poison(att) \/ (\E s \in Early : att' = Phase(s))
  BY DEF LinuxFork, LinuxForkFails, Early
<1>7. att' # att
  <2>1. att'.state # att.state
    BY <1>0, <1>6, AttemptFields DEF Typed, Early, Survivor
  <2> QED BY <2>1
<1> QED BY <1>0, <1>2, <1>3, <1>5, <1>6, <1>7, EarlyKeeps

LEMMA LaunchKeeps ==
    ASSUME Typed, Parts, rel' = rel, claim' = claim,
           \/ ClaimAttempt \/ LinuxPreflight \/ LinuxFork \/ LinuxForkFails \/ LinuxBind
           \/ PrepareBegins \/ CloseChildEndpoint \/ ReadReady \/ BindCapture
           \/ GrantAdmission \/ close_linux_grant_zero_write_once
    PROVE  Parts'
<1>e. ASSUME enrol' = enrol PROVE EnrolKept
  BY <1>e DEF EnrolKept
<1>1. ASSUME LinuxBind PROVE Parts'
  <2>1. /\ att.state = "LINUX_BINDING_PIDFD" /\ alive' = alive /\ fds' = fds /\ graph' = graph
        /\ child' = child /\ record' = record /\ enrol' = enrol /\ capt' = capt /\ adp' = adp
        /\ own \in Owned
        /\ att' = _poison(att) \/ (\E s \in Early : att' = Phase(s))
    BY <1>1 DEF LinuxBind, InPhase, Typed, Early
  <2>2. Accounted' /\ \A p \in Pipes : Ended(p) => Ended(p)'
    BY <2>1, QuietAccounts DEF Running
  <2>3. Observed'
    <3>1. CASE Running
      <4>1. own'.state = "BOUND"
        BY <1>1, <2>1, <3>1 DEF LinuxBind, bind_owned_pidfd, Owned
      <4>2. ~adp.cached
        BY <3>1 DEF Parts, Observed, Running, RunningPc
      <4> QED BY <2>1, <4>1, <4>2 DEF Observed
    <3>2. CASE ~Running
      <4>1. own'.state = own.state /\ own'.obs = own.obs
        BY <1>1, <2>1, <3>2 DEF LinuxBind, BindUnknown, Owned
      <4> QED BY <2>1, <4>1 DEF Parts, Observed
    <3> QED BY <3>1, <3>2
  <2>4. att.state \in Early
    BY <2>1 DEF Early
  <2> QED BY <2>1, <2>2, <2>3, <2>4, <1>e, EarlyKeeps
<1>2. ASSUME PrepareBegins \/ GrantAdmission \/ ReadReady PROVE Parts'
  <2>1. /\ att.state \in Early /\ alive' = alive /\ fds' = fds /\ graph' = graph
        /\ child' = child /\ record' = record /\ enrol' = enrol /\ capt' = capt /\ adp' = adp
        /\ own' = own
        /\ att' = _poison(att) \/ (\E s \in Early : att' = Phase(s))
    BY <1>2 DEF PrepareBegins, GrantAdmission, ReadReady, InPhase, Early
  <2>2. Accounted' /\ Observed' /\ \A p \in Pipes : Ended(p) => Ended(p)'
    BY <2>1, QuietAccounts, QuietObserved DEF Running
  <2> QED BY <2>1, <2>2, <1>e, EarlyKeeps
<1>3. ASSUME NEW role \in Roles, close_role_once(role) \/ CloseRoleFails(role),
             CloseChildEndpoint \/ close_linux_grant_zero_write_once,
             att' = att \/ att' = _poison(att) \/ (\E s \in Early : att' = Phase(s))
      PROVE  Parts'
  <2>1. /\ att.state \in Early /\ alive /\ alive' = alive /\ child' = child /\ record' = record
        /\ enrol' = enrol /\ capt' = capt /\ adp' = adp /\ own' = own
    BY <1>3 DEF CloseChildEndpoint, close_linux_grant_zero_write_once, InPhase, Early
  <2>2. att.state # "NONE"
    BY <2>1 DEF Early
  <2>3. Accounted' /\ \A p \in Pipes : Ended(p) => Ended(p)'
    BY <1>3, <2>1, <2>2, CloseAccounts
  <2>4. Observed'
    BY <2>1, QuietObserved
  <2> QED BY <1>3, <2>1, <2>3, <2>4, <1>e, EarlyKeeps
<1>4. ASSUME CloseChildEndpoint PROVE Parts'
  <2>1. PICK i \in 1..4 :
          \/ /\ close_role_once(PARENT_CLOSE_ROLES[i])
             /\ att' = IF i = 4 THEN Phase("LINUX_WAITING_READY") ELSE att
          \/ CloseRoleFails(PARENT_CLOSE_ROLES[i]) /\ att' = _poison(att)
    BY <1>4 DEF CloseChildEndpoint
  <2>2. PARENT_CLOSE_ROLES[i] \in Roles
    BY RoleTypes
  <2>3. "LINUX_WAITING_READY" \in Early
    BY DEF Early
  <2> QED BY <1>3, <1>4, <2>1, <2>2, <2>3
<1>5. ASSUME close_linux_grant_zero_write_once PROVE Parts'
  <2>1. "grant_parent" \in Roles /\ "LINUX_GRANT_WRITER_CLOSED_UNSETTLED" \in Early
    BY RoleTypes DEF Early
  <2> QED BY <1>3, <1>5, <2>1 DEF close_linux_grant_zero_write_once
<1>6. ASSUME BindCapture PROVE Parts'
  <2>1. /\ att.state = "LINUX_READY" /\ alive' = alive /\ fds' = fds /\ graph' = graph
        /\ child' = child /\ record' = record /\ enrol' = enrol /\ own' = own
        /\ capt' = bind_capture_pipes /\ adp' = bind_capture_child_adapter
        /\ att' = _poison(att) \/ (\E s \in Early : att' = Phase(s))
    BY <1>6 DEF BindCapture, InPhase, Early
  <2>2. /\ capt'.eof = {} /\ ~capt'.active /\ capt'.state = "BOUND" /\ capt'.cap = "NONE"
        /\ ~adp'.cached
    BY <2>1 DEF bind_capture_pipes, NoCapture, bind_capture_child_adapter, NoAdapter
  <2>3. Accounted' /\ \A p \in Pipes : Ended(p) => Ended(p)'
    BY <2>1, QuietAccounts DEF Running
  <2>4. Observed'
    BY <2>1, <2>2 DEF Parts, Observed
  <2>5. /\ ForkLatched' /\ VerifiedIsTrue' /\ ~Claimed /\ ~Claimed' /\ rel = NoRelease
        /\ att'.fork_attempted /\ att'.status = att.status
        /\ att'.state \notin {"NONE", "LINUX_STATUS_EOF_OBSERVED_UNQUALIFIED"} \cup ReapPhases
    BY <2>1, EarlyStep DEF Early
  <2>6. CapturePhases'
    BY <2>2, <2>5 DEF CapturePhases
  <2> QED BY <2>1, <2>2, <2>3, <2>4, <2>5, <2>6, <1>e, StepKeeps
<1> QED BY <1>1, <1>2, <1>4, <1>5, <1>6, ClaimAttemptKeeps, PreflightKeeps, ForkKeeps

-----------------------------------------------------------------------------
(* From the monitor to the claim                                           *)

\* Once the leader is reaped over its graph and every stream has ended, nobody
\* can write into any of the four pipes.
LEMMA NoWriterLeft ==
    ASSUME Typed, Parts, alive, ReapedGraph, own.state = "REAPED", capt.eof = Streams, Ended("status")
    PROVE  /\ child.pc = "gone" /\ child.code = own.obs
           /\ fds["launcher"] = ParentEnds \ {"grant_parent"} /\ graph.lost = {}
           /\ \A p \in Pipes, q \in Procs : Writer(p) \notin fds[q]
<1>1. child.pc = "gone" /\ child.code = own.obs
  BY DEF Parts, Observed
<1>2. fds["child"] = {} /\ fds["holder"] \subseteq WriteEnds
  BY <1>1 DEF Parts, Accounted, Running, RunningPc
<1>3. graph.owned = ParentEnds \ {"grant_parent"} /\ graph.lost = {}
  BY DEF ReapedGraph, GraphIntact
<1>4. graph.state # "ALLOCATION_REFUSED"
  BY <1>3 DEF Parts, Accounted, ParentEnds
<1>5. fds["launcher"] = ParentEnds \ {"grant_parent"}
  BY <1>3, <1>4 DEF Parts, Accounted, EndpointsAccounted
<1>6. "grant_parent" \notin fds["launcher"] \cup fds["child"] \cup fds["holder"]
  BY <1>2, <1>5 DEF WriteEnds
<1>7. Ended("grant")
  BY <1>6 DEF Ended, Procs, Writer
<1>8. Ended("stdout") /\ Ended("stderr")
  BY DEF Parts, Ends, Streams
<1>9. \A p \in Pipes : Ended(p)
  BY <1>7, <1>8 DEF Pipes
<1>10. \A p \in Pipes, q \in Procs : Writer(p) \notin fds[q]
  BY <1>9 DEF Ended
<1> QED BY <1>1, <1>3, <1>5, <1>10

\* A step that leaves the descriptors and the child alone, on the attempt's own way.
LEMMA LateKeeps ==
    ASSUME Typed, Parts, rel = NoRelease, ~Claimed, att.fork_attempted,
           alive' = alive, fds' = fds, graph' = graph, enrol' = enrol, record' = record,
           child' = child, own' = own, adp' = adp, rel' = rel, claim' = claim,
           capt'.eof = capt.eof, att'.fork_attempted,
           att'.state \notin {"NONE", "READY_TO_FORK", "UNKNOWN", "LINUX_FORKING"},
           att'.status = "EOF" => att.status = "EOF" \/ Ended("status"),
           att'.state = "LINUX_STATUS_EOF_OBSERVED_UNQUALIFIED" => att'.status = "EOF",
           Claimed' => enrol.domain = "NONE", CapturePhases', VerifiedIsTrue'
    PROVE  Parts'
<1>1. Accounted' /\ Observed' /\ \A p \in Pipes : Ended(p) => Ended(p)'
  BY QuietAccounts, QuietObserved DEF Running
<1>2. EnrolKept /\ capt'.eof \subseteq capt.eof /\ att.state # "NONE"
  BY DEF EnrolKept, Parts, ForkLatched
<1>3. ForkLatched'
  BY DEF Parts, ForkLatched
<1> QED BY <1>1, <1>2, <1>3, StepKeeps

\* The same for a step that may poison the attempt instead.
LEMMA LatePoison ==
    ASSUME Typed, Parts, ~Claimed, att.state # "NONE", att' = _poison(att),
           alive' = alive, fds' = fds, graph' = graph, record' = record,
           enrol' = enrol \/ enrol' = PoisonEnrollment(enrol),
           child' = child, own' = own, adp' = adp, capt' = capt, rel' = rel, claim' = claim
    PROVE  Parts'
<1>1. Observed'
  BY QuietObserved
<1>2. /\ EnrolKept
      /\ enrol'.domain = enrol.domain \/ (enrol.domain # "NONE" /\ enrol'.domain = "UNKNOWN")
  BY EnrolPoisoned DEF Typed
<1> QED BY <1>1, <1>2, PoisonKeeps

LEMMA MonitorPhaseKeeps ==
    ASSUME Typed, Parts, rel' = rel, claim' = claim,
           \/ MonitorBegins \/ monitor_linux_abort_unreaped_once
           \/ ReapAdmission \/ reap_linux_completion_once
           \/ SettleFailedCapture \/ AfterSettlement
    PROVE  Parts'
<1>0. att \in Attempt /\ capt \in Captured
  BY DEF Typed
<1>f. /\ alive' = alive /\ fds' = fds /\ graph' = graph /\ enrol' = enrol /\ record' = record
      /\ child' = child /\ own' = own /\ adp' = adp
  BY DEF MonitorBegins, monitor_linux_abort_unreaped_once, ReapAdmission,
         reap_linux_completion_once, SettleFailedCapture, AfterSettlement,
         probe_children_after_reap, close_capture_epoll
<1>a. /\ att.state \in {"LINUX_GRANT_WRITER_CLOSED_UNSETTLED", "LINUX_MONITORING_UNREAPED",
                        "LINUX_MONITOR_COMPLETE_UNREAPED", "LINUX_REAPING_COMPLETION",
                        "LINUX_MONITOR_FAILURE_UNSETTLED"}
  BY DEF MonitorBegins, monitor_linux_abort_unreaped_once, ReapAdmission,
         reap_linux_completion_once, SettleFailedCapture, AfterSettlement, InPhase
<1>b. rel = NoRelease /\ ~Claimed /\ att.fork_attempted /\ att.state # "NONE"
  BY <1>a, Unbranched DEF Parts, ForkLatched, Claimed, Survivor
<1>p. ASSUME att' = _poison(att), capt' = capt PROVE Parts'
  BY <1>b, <1>f, <1>p, LatePoison
<1>q. ASSUME NEW s \in {"LINUX_MONITORING_UNREAPED", "LINUX_MONITOR_COMPLETE_UNREAPED",
                        "LINUX_MONITOR_FAILURE_UNSETTLED", "LINUX_REAPING_COMPLETION",
                        "LINUX_LEADER_REAPED_UNQUALIFIED", "LINUX_REAP_UNKNOWN_RETAINED"},
             att'.state = s, att'.fork_attempted = att.fork_attempted, att'.status = att.status,
             capt'.eof = capt.eof, CapturePhases'
      PROVE  Parts'
  <2>1. VerifiedIsTrue' /\ ~Claimed'
    BY <1>q DEF VerifiedIsTrue, Claimed
  <2> QED BY <1>b, <1>f, <1>q, <2>1, LateKeeps
<1>1. ASSUME MonitorBegins PROVE Parts'
  <2>1. CASE att' = _poison(att) /\ capt' = capt
    BY <2>1, <1>p
  <2>2. CASE att' = Phase("LINUX_MONITORING_UNREAPED") /\ capt' = StartMonitor
    <3>1. /\ att'.state = "LINUX_MONITORING_UNREAPED"
          /\ att'.fork_attempted = att.fork_attempted /\ att'.status = att.status
      BY <1>0, <2>2, AttemptFields
    <3>2. capt'.eof = capt.eof /\ capt'.cap = capt.cap /\ capt'.state = capt.state
      BY <1>0, <2>2 DEF StartMonitor, Captured
    <3>3. capt.state # "SETTLING"
      BY <1>1 DEF Parts, CapturePhases, MonitorBegins, InPhase, Survivor
    <3>4. CapturePhases'
      BY <3>1, <3>2, <3>3 DEF Parts, CapturePhases, ReapPhases
    <3> QED BY <1>q, <3>1, <3>2, <3>4
  <2> QED BY <1>1, <2>1, <2>2 DEF MonitorBegins
<1>2. ASSUME monitor_linux_abort_unreaped_once PROVE Parts'
  <2>1. capt' = capt /\ att' = MonitorOutcome /\ ~capt.active /\ capt.state # "SETTLING"
    BY <1>2 DEF monitor_linux_abort_unreaped_once, InPhase, Parts, CapturePhases, Survivor
  <2>2. CASE att' = _poison(att)
    BY <2>1, <2>2, <1>p
  <2>3. CASE \E s \in {"LINUX_MONITOR_COMPLETE_UNREAPED", "LINUX_MONITOR_FAILURE_UNSETTLED"} :
               att' = Phase(s)
    <3>1. PICK s \in {"LINUX_MONITOR_COMPLETE_UNREAPED", "LINUX_MONITOR_FAILURE_UNSETTLED"} :
            att' = Phase(s)
      BY <2>3
    <3>2. /\ att'.state = s /\ att'.fork_attempted = att.fork_attempted /\ att'.status = att.status
      BY <1>0, <3>1, AttemptFields
    <3>3. CapturePhases'
      BY <1>f, <2>1, <3>2 DEF Parts, CapturePhases, ReapPhases
    <3> QED BY <1>q, <2>1, <3>2, <3>3
  <2> QED BY <2>1, <2>2, <2>3 DEF MonitorOutcome
<1>3. ASSUME ReapAdmission PROVE Parts'
  <2>1. CASE att' = _poison(att) /\ capt' = capt
    BY <2>1, <1>p
  <2>2. CASE ConsumeCompletion(CleanupDeadline) /\ att' = Phase("LINUX_REAPING_COMPLETION")
    <3>1. /\ att'.state = "LINUX_REAPING_COMPLETION"
          /\ att'.fork_attempted = att.fork_attempted /\ att'.status = att.status
      BY <1>0, <2>2, AttemptFields
    <3>2. /\ capt'.eof = capt.eof /\ capt'.cap = "USED" /\ capt'.state = "SETTLING" /\ capt'.used
          /\ capt'.active = capt.active /\ adp.cached /\ capt.cap = "FRESH"
      BY <1>0, <2>2 DEF ConsumeCompletion, CompletionUnreaped, Captured
    <3>3. ~capt.active
      BY <1>3 DEF Parts, CapturePhases, ReapAdmission, InPhase, Survivor
    <3>4. CapturePhases'
      BY <1>f, <3>1, <3>2, <3>3 DEF Parts, CapturePhases
    <3> QED BY <1>q, <3>1, <3>2, <3>4
  <2> QED BY <1>3, <2>1, <2>2 DEF ReapAdmission
<1>4. ASSUME reap_linux_completion_once PROVE Parts'
  <2>1. /\ capt' = capt /\ capt.state # "SETTLING" /\ capt.cap = "USED" /\ ~capt.active
    BY <1>4 DEF reap_linux_completion_once, InPhase, Parts, CapturePhases, ReapPhases, Survivor
  <2>2. \E s \in {"LINUX_LEADER_REAPED_UNQUALIFIED", "LINUX_REAP_UNKNOWN_RETAINED"} :
          att' = [att EXCEPT !.leader_reap_confirmed = settle.reaped, !.state = s]
    BY <1>4 DEF reap_linux_completion_once
  <2>3. PICK s \in {"LINUX_LEADER_REAPED_UNQUALIFIED", "LINUX_REAP_UNKNOWN_RETAINED"} :
          att' = [att EXCEPT !.leader_reap_confirmed = settle.reaped, !.state = s]
    BY <2>2
  <2>4. att'.state = s /\ att'.fork_attempted = att.fork_attempted /\ att'.status = att.status
    BY <1>0, <2>3 DEF Attempt
  <2>5. CapturePhases'
    BY <2>1, <2>4 DEF Parts, CapturePhases
  <2> QED BY <1>q, <2>1, <2>4, <2>5
<1>5. ASSUME SettleFailedCapture PROVE Parts'
  <2>1. /\ att' = att /\ att.state = "LINUX_MONITOR_FAILURE_UNSETTLED"
        /\ capt' = [capt EXCEPT !.state = "SETTLING", !.used = TRUE, !.step = "enter"]
    BY <1>5 DEF SettleFailedCapture, SettleBegins, InPhase
  <2>2. /\ capt'.eof = capt.eof /\ capt'.cap = capt.cap /\ capt'.state = "SETTLING" /\ capt'.used
        /\ capt'.active = capt.active /\ capt'.step = "enter"
    BY <1>0, <2>1 DEF Captured
  <2>3. CapturePhases'
    BY <2>1, <2>2 DEF Parts, CapturePhases, ReapPhases, Survivor
  <2> QED BY <1>q, <2>1, <2>2, <2>3
<1>6. ASSUME AfterSettlement PROVE Parts'
  <2>1. att' = att /\ att.state = "LINUX_MONITOR_FAILURE_UNSETTLED"
    BY <1>6 DEF AfterSettlement, InPhase
  <2>2. \/ capt' = capt
        \/ capt' = [capt EXCEPT !.state = "CLOSED", !.epoll = "closed"]
        \/ capt' = [capt EXCEPT !.state = "UNKNOWN_EPOLL_CLOSE", !.epoll = "unknown"]
    BY <1>6 DEF AfterSettlement, probe_children_after_reap, close_capture_epoll
  <2>3. /\ capt'.eof = capt.eof /\ capt'.cap = capt.cap /\ capt'.used = capt.used
        /\ capt'.active = capt.active /\ capt'.step = capt.step
        /\ capt'.state \in {capt.state, "CLOSED", "UNKNOWN_EPOLL_CLOSE"}
    BY <1>0, <2>2 DEF Captured
  <2>4. CapturePhases'
    BY <1>f, <2>1, <2>3 DEF Parts, CapturePhases
  <2> QED BY <1>q, <2>1, <2>3, <2>4
<1> QED BY <1>1, <1>2, <1>3, <1>4, <1>5, <1>6

LEMMA StatusPhaseKeeps ==
    ASSUME Typed, Parts, rel' = rel, claim' = claim,
           \/ StatusTailBegins \/ StatusTailRefused \/ ReadStatusTail
           \/ observe_linux_status_tail_once \/ verify_linux_abort_protocol_once
           \/ claim_abort_terminal_release_once \/ AttemptFails
    PROVE  Parts'
<1>0. att \in Attempt
  BY DEF Typed
<1>f. /\ alive' = alive /\ fds' = fds /\ graph' = graph /\ record' = record
      /\ child' = child /\ own' = own /\ adp' = adp /\ capt' = capt
  BY DEF StatusTailBegins, StatusTailRefused, ReadStatusTail, observe_linux_status_tail_once,
         verify_linux_abort_protocol_once, claim_abort_terminal_release_once, AttemptFails
<1>a. ~Claimed /\ att.state # "NONE"
  BY DEF StatusTailBegins, StatusTailRefused, ReadStatusTail, observe_linux_status_tail_once,
         verify_linux_abort_protocol_once, claim_abort_terminal_release_once, AttemptFails,
         Claimed, InPhase, Dead, Over
<1>p. ASSUME att' = _poison(att), enrol' = enrol \/ enrol' = PoisonEnrollment(enrol) PROVE Parts'
  BY <1>a, <1>f, <1>p, LatePoison
<1>c. ASSUME att.state \in ReapPhases, att.state # "LINUX_REAPING_COMPLETION"
      PROVE  ~capt.active /\ capt.state # "SETTLING" /\ capt.cap = "USED" /\ att.fork_attempted
  BY <1>c DEF Parts, CapturePhases, ForkLatched, ReapPhases, Survivor
<1>q. ASSUME rel = NoRelease, enrol' = enrol,
             att.state \in ReapPhases, att.state # "LINUX_REAPING_COMPLETION",
             att'.state \in {"LINUX_OBSERVING_STATUS_TAIL", "LINUX_STATUS_EOF_OBSERVED_UNQUALIFIED",
                             "LINUX_STATUS_PROTOCOL_VIOLATION", "LINUX_ABORT_PROTOCOL_MISMATCH",
                             "LINUX_ABORT_PROTOCOL_VERIFIED", "LINUX_ABORT_TERMINAL_RELEASE_CLAIMED"},
             att'.fork_attempted = att.fork_attempted,
             att'.status = "EOF" => att.status = "EOF" \/ Ended("status"),
             att'.state = "LINUX_STATUS_EOF_OBSERVED_UNQUALIFIED" => att'.status = "EOF",
             Claimed' => enrol.domain = "NONE", VerifiedIsTrue'
      PROVE  Parts'
  <2>1. CapturePhases'
    BY <1>c, <1>f, <1>q DEF Parts, CapturePhases
  <2> QED BY <1>a, <1>c, <1>f, <1>q, <2>1, LateKeeps
<1>1. ASSUME StatusTailBegins PROVE Parts'
  <2>1. /\ att.state = "LINUX_LEADER_REAPED_UNQUALIFIED" /\ enrol' = enrol
        /\ att' = Phase("LINUX_OBSERVING_STATUS_TAIL")
        /\ enrol.domain \in {"NONE", "FORKED", "ATTACHED_HARD_LIMIT_ONLY"}
    BY <1>1 DEF StatusTailBegins, InPhase, ReapedChain
  <2>2. rel = NoRelease
    BY <2>1 DEF Parts, Branches
  <2>3. /\ att'.state = "LINUX_OBSERVING_STATUS_TAIL" /\ att'.status = att.status
        /\ att'.fork_attempted = att.fork_attempted
    BY <1>0, <2>1, AttemptFields
  <2>4. VerifiedIsTrue' /\ ~Claimed'
    BY <2>3 DEF VerifiedIsTrue, Claimed
  <2> QED BY <1>q, <2>1, <2>2, <2>3, <2>4 DEF ReapPhases
<1>2. ASSUME StatusTailRefused \/ AttemptFails PROVE Parts'
  BY <1>2, <1>p DEF StatusTailRefused, AttemptFails, ContinuedDomain
<1>3. ASSUME ReadStatusTail PROVE Parts'
  <2> DEFINE kind == ReadKind("status")
  <2>1. /\ att.state = "LINUX_OBSERVING_STATUS_TAIL" /\ enrol' = enrol
        /\ att' = _poison(att) \/ att' = [att EXCEPT !.status = kind]
    BY <1>3 DEF ReadStatusTail, InPhase
  <2>2. kind = "EOF" => Ended("status")
    BY DEF ReadKind, Eof, Ended
  <2> HIDE DEF kind
  <2>3. CASE att' = _poison(att)
    BY <2>1, <2>3, <1>p
  <2>4. CASE att' = [att EXCEPT !.status = kind]
    <3>1. att'.state = att.state /\ att'.status = kind /\ att'.fork_attempted = att.fork_attempted
      BY <1>0, <2>4 DEF Attempt
    <3>2. VerifiedIsTrue' /\ ~Claimed' /\ rel = NoRelease
      BY <2>1, <3>1, Unbranched DEF VerifiedIsTrue, Claimed, Survivor
    <3> QED BY <1>q, <2>1, <2>2, <3>1, <3>2 DEF ReapPhases
  <2> QED BY <2>1, <2>3, <2>4
<1>4. ASSUME observe_linux_status_tail_once PROVE Parts'
  <2>1. /\ att.state = "LINUX_OBSERVING_STATUS_TAIL" /\ enrol' = enrol
        /\ \/ att' = _poison(att)
           \/ att.status = "EOF" /\ att' = Phase("LINUX_STATUS_EOF_OBSERVED_UNQUALIFIED")
           \/ att' = Phase("LINUX_STATUS_PROTOCOL_VIOLATION")
    BY <1>4 DEF observe_linux_status_tail_once, InPhase
  <2>2. CASE att' = _poison(att)
    BY <2>1, <2>2, <1>p
  <2>3. CASE att' # _poison(att)
    <3>1. /\ att'.status = att.status /\ att'.fork_attempted = att.fork_attempted
          /\ \/ att'.state = "LINUX_STATUS_EOF_OBSERVED_UNQUALIFIED" /\ att.status = "EOF"
             \/ att'.state = "LINUX_STATUS_PROTOCOL_VIOLATION"
      BY <1>0, <2>1, <2>3, AttemptFields
    <3>2. VerifiedIsTrue' /\ ~Claimed' /\ rel = NoRelease
      BY <2>1, <3>1, Unbranched DEF VerifiedIsTrue, Claimed, Survivor
    <3> QED BY <1>q, <2>1, <3>1, <3>2 DEF ReapPhases
  <2> QED BY <2>2, <2>3
<1>5. ASSUME verify_linux_abort_protocol_once PROVE Parts'
  <2>1. /\ att.state = "LINUX_STATUS_EOF_OBSERVED_UNQUALIFIED" /\ enrol' = enrol /\ alive
        /\ \/ att' = _poison(att)
           \/ /\ ReapedChain /\ ProtocolMatch
              /\ att' = [Phase("LINUX_ABORT_PROTOCOL_VERIFIED") EXCEPT !.evidence = "MATCH"]
           \/ att' = [Phase("LINUX_ABORT_PROTOCOL_MISMATCH") EXCEPT !.evidence = "MISMATCH"]
    BY <1>5 DEF verify_linux_abort_protocol_once, InPhase
  <2>2. rel = NoRelease
    BY <2>1, Unbranched DEF Survivor
  <2>3. CASE att' = _poison(att)
    BY <2>1, <2>3, <1>p
  <2>4. CASE /\ ReapedChain /\ ProtocolMatch
             /\ att' = [Phase("LINUX_ABORT_PROTOCOL_VERIFIED") EXCEPT !.evidence = "MATCH"]
    <3>1. /\ att'.state = "LINUX_ABORT_PROTOCOL_VERIFIED" /\ att'.status = att.status
          /\ att'.fork_attempted = att.fork_attempted
      BY <1>0, <2>4 DEF Phase, Attempt
    <3>2. own.state = "REAPED" /\ ReapedGraph /\ own.obs = EXIT_ABORT_EOF
      BY <2>4 DEF ReapedChain, ReapedAuthority, ProtocolMatch
    <3>3. capt.eof = Streams /\ Ended("status")
      BY <2>1, <1>c DEF Parts, CapturePhases, Ends, ReapPhases
    <3>4. /\ child.pc = "gone" /\ child.code = EXIT_ABORT_EOF
          /\ \A p \in Pipes, q \in Procs : Writer(p) \notin fds[q]
      BY <2>1, <3>2, <3>3, NoWriterLeft
    <3>5. child = [pc |-> "gone", code |-> EXIT_ABORT_EOF]
      BY <3>4 DEF Typed, Process
    <3>6. VerifiedIsTrue' /\ ~Claimed'
      BY <1>f, <3>1, <3>4, <3>5 DEF VerifiedIsTrue, Claimed
    <3> QED BY <1>q, <2>1, <2>2, <3>1, <3>6 DEF ReapPhases
  <2>5. CASE att' = [Phase("LINUX_ABORT_PROTOCOL_MISMATCH") EXCEPT !.evidence = "MISMATCH"]
    <3>1. /\ att'.state = "LINUX_ABORT_PROTOCOL_MISMATCH" /\ att'.status = att.status
          /\ att'.fork_attempted = att.fork_attempted
      BY <1>0, <2>5 DEF Phase, Attempt
    <3>2. VerifiedIsTrue' /\ ~Claimed'
      BY <3>1 DEF VerifiedIsTrue, Claimed
    <3> QED BY <1>q, <2>1, <2>2, <3>1, <3>2 DEF ReapPhases
  <2> QED BY <2>1, <2>3, <2>4, <2>5
<1>6. ASSUME claim_abort_terminal_release_once PROVE Parts'
  <2>1. /\ att.state = "LINUX_ABORT_PROTOCOL_VERIFIED" /\ enrol' = enrol
        /\ \/ att' = _poison(att)
           \/ enrol.domain = "NONE" /\ att' = Phase("LINUX_ABORT_TERMINAL_RELEASE_CLAIMED")
    BY <1>6 DEF claim_abort_terminal_release_once, InPhase
  <2>2. CASE att' = _poison(att)
    BY <2>1, <2>2, <1>p
  <2>3. CASE enrol.domain = "NONE" /\ att' = Phase("LINUX_ABORT_TERMINAL_RELEASE_CLAIMED")
    <3>1. /\ att'.state = "LINUX_ABORT_TERMINAL_RELEASE_CLAIMED" /\ att'.status = att.status
          /\ att'.fork_attempted = att.fork_attempted
      BY <1>0, <2>3, AttemptFields
    <3>2. VerifiedIsTrue' /\ rel = NoRelease
      BY <1>f, <2>1, <3>1, Unbranched DEF Parts, VerifiedIsTrue, Survivor
    <3> QED BY <1>q, <2>1, <2>3, <3>1, <3>2 DEF ReapPhases
  <2> QED BY <2>1, <2>2, <2>3
<1> QED BY <1>1, <1>2, <1>3, <1>4, <1>5, <1>6

-----------------------------------------------------------------------------
(* The child, the foreign process and the death of the launcher            *)

\* What every step around the launcher does: descriptors close, or go from the
\* child to the foreign process; the child runs on, exits, or is left to init.
ChildStepped ==
    /\ UNCHANGED <<graph, enrol, record>>
    /\ Accounted' /\ \A p \in Pipes : Ended(p) => Ended(p)'
    /\ alive' => alive /\ fds'["launcher"] = fds["launcher"]
    /\ \/ child' = child
       \/ Running /\ child'.pc # "none"
       \/ ~alive' /\ Zombie /\ child' = [child EXCEPT !.pc = "gone"]

\* The child gives up descriptors, all of them when it exits.
LEMMA ChildShrinks ==
    ASSUME Typed, Parts, NEW s, s \subseteq fds["child"], fds' = [fds EXCEPT !["child"] = s],
           alive' = alive, graph' = graph, s = {} \/ Running'
    PROVE  Accounted' /\ \A p \in Pipes : Ended(p) => Ended(p)'
<1>1. /\ fds \in [Procs -> SUBSET Roles]
      /\ "launcher" \in Procs /\ "child" \in Procs /\ "holder" \in Procs
  BY RoleTypes DEF Typed
<1>2. /\ fds'["launcher"] = fds["launcher"] /\ fds'["holder"] = fds["holder"] /\ fds'["child"] = s
  BY <1>1
<1>3. Accounted'
  BY <1>2 DEF Parts, Accounted, EndpointsAccounted
<1>4. \A q \in Procs : fds'[q] \subseteq fds[q]
  BY <1>2 DEF Procs
<1> QED BY <1>3, <1>4 DEF Ended

LEMMA ExitSteps ==
    ASSUME Typed, Parts, Running, NEW c, Exit(c), alive' = alive, UNCHANGED <<graph, enrol, record>>
    PROVE  ChildStepped
<1>1. child'.pc \in {"zombie", "gone"}
  BY DEF Exit
<1>2. fds' = [fds EXCEPT !["child"] = {}]
  BY DEF Exit
<1>3. Accounted' /\ \A p \in Pipes : Ended(p) => Ended(p)'
  BY <1>2, ChildShrinks
<1>4. fds'["launcher"] = fds["launcher"]
  BY <1>2 DEF Typed, Procs
<1> QED BY <1>1, <1>3, <1>4 DEF ChildStepped

LEMMA GotoSteps ==
    ASSUME Typed, Parts, Running, NEW next \in RunningPc, Goto(next), alive' = alive, fds' = fds,
           UNCHANGED <<graph, enrol, record>>
    PROVE  ChildStepped
<1>1. child'.pc = next
  BY DEF Goto, Typed, Process
<1>2. Running' /\ child'.pc # "none"
  BY <1>1 DEF Running, RunningPc
<1>3. Accounted' /\ \A p \in Pipes : Ended(p) => Ended(p)'
  BY <1>2, QuietAccounts
<1> QED BY <1>2, <1>3 DEF ChildStepped

LEMMA ChildNextSteps ==
    ASSUME Typed, Parts, ChildNext
    PROVE  ChildStepped
<1>r. /\ fds \in [Procs -> SUBSET Roles]
      /\ "launcher" \in Procs /\ "child" \in Procs /\ "holder" \in Procs
  BY RoleTypes DEF Typed
<1>p. /\ "closing" \in RunningPc /\ "ready" \in RunningPc /\ "stdout" \in RunningPc
      /\ "stderr" \in RunningPc /\ "wait_grant" \in RunningPc
  BY DEF RunningPc
<1>1. ASSUME current_child_identity PROVE ChildStepped
  BY <1>1, <1>p, ExitSteps, GotoSteps DEF current_child_identity, ChildClock
<1>2. ASSUME ChildClosesParentEnds PROVE ChildStepped
  <2>1. /\ Running /\ child'.pc = "ready" /\ alive' = alive /\ UNCHANGED <<graph, enrol, record>>
        /\ fds' = [fds EXCEPT !["child"] = @ \ ParentEnds]
    BY <1>2 DEF ChildClosesParentEnds, ChildClock, Goto, Typed, Process
  <2> DEFINE s == fds["child"] \ ParentEnds
  <2>2. s \subseteq fds["child"] /\ fds' = [fds EXCEPT !["child"] = s]
    BY <2>1
  <2>3. Running' /\ child'.pc # "none" /\ fds'["launcher"] = fds["launcher"]
    BY <2>1, <1>p, <1>r DEF Running
  <2> HIDE DEF s
  <2>4. Accounted' /\ \A p \in Pipes : Ended(p) => Ended(p)'
    BY <2>1, <2>2, <2>3, ChildShrinks
  <2> QED BY <2>1, <2>3, <2>4 DEF ChildStepped
<1>3. ASSUME NEW p, NEW at, NEW token, NEW next \in RunningPc, _write_exact(p, at, token, next)
      PROVE  ChildStepped
  BY <1>3, ExitSteps, GotoSteps DEF _write_exact, ChildClock
<1>4. ASSUME ChildWrites PROVE ChildStepped
  BY <1>3, <1>4, <1>p DEF ChildWrites
<1>5. ASSUME read_grant \/ ChildDeadline \/ _exit_once \/ Killed PROVE ChildStepped
  BY <1>5, ExitSteps DEF read_grant, ChildDeadline, _exit_once, Killed, ChildClock
<1>6. ASSUME HolderOpens PROVE ChildStepped
  <2>1. PICK role \in fds["child"] \cap (ChildEnds \ {"grant_child"}) :
          fds' = [fds EXCEPT !["holder"] = {role}]
    BY <1>6 DEF HolderOpens
  <2>2. alive' = alive /\ child' = child /\ UNCHANGED <<graph, enrol, record>>
    BY <1>6 DEF HolderOpens
  <2>3. /\ fds'["launcher"] = fds["launcher"] /\ fds'["child"] = fds["child"]
        /\ fds'["holder"] = {role} /\ role \in WriteEnds
    BY <1>r, <2>1 DEF ChildEnds, WriteEnds
  <2>4. Accounted'
    BY <2>2, <2>3 DEF Parts, Accounted, EndpointsAccounted, Running
  <2>5. ASSUME NEW p \in Pipes, Ended(p) PROVE Ended(p)'
    <3>1. Writer(p) \notin fds["launcher"] /\ Writer(p) \notin fds["child"]
      BY <1>r, <2>5 DEF Ended
    <3> QED BY <2>1, <2>3, <3>1 DEF Ended, Procs
  <2> QED BY <2>2, <2>3, <2>4, <2>5 DEF ChildStepped
<1>7. ASSUME HolderWrites \/ Tick PROVE ChildStepped
  <2>1. alive' = alive /\ fds' = fds /\ child' = child /\ UNCHANGED <<graph, enrol, record>>
    BY <1>7 DEF HolderWrites, Tick
  <2> QED BY <2>1, QuietAccounts DEF ChildStepped, Running
<1>8. ASSUME HolderCloses PROVE ChildStepped
  <2>1. /\ alive' = alive /\ child' = child /\ UNCHANGED <<graph, enrol, record>>
        /\ fds' = [fds EXCEPT !["holder"] = {}]
    BY <1>8 DEF HolderCloses
  <2>2. /\ fds'["launcher"] = fds["launcher"] /\ fds'["child"] = fds["child"] /\ fds'["holder"] = {}
    BY <1>r, <2>1
  <2>3. Accounted'
    BY <2>1, <2>2 DEF Parts, Accounted, EndpointsAccounted, Running
  <2>4. \A q \in Procs : fds'[q] \subseteq fds[q]
    BY <2>2 DEF Procs
  <2> QED BY <2>1, <2>2, <2>3, <2>4 DEF ChildStepped, Ended
<1>9. ASSUME LauncherDies PROVE ChildStepped
  <2>1. /\ ~alive' /\ UNCHANGED <<graph, enrol, record>> /\ fds' = [fds EXCEPT !["launcher"] = {}]
        /\ child' = child \/ (Zombie /\ child' = [child EXCEPT !.pc = "gone"])
    BY <1>9 DEF LauncherDies
  <2>2. /\ fds'["launcher"] = {} /\ fds'["child"] = fds["child"] /\ fds'["holder"] = fds["holder"]
    BY <1>r, <2>1
  <2>3. Running' <=> Running
    BY <2>1 DEF Running, RunningPc, Zombie, Typed, Process
  <2>4. Accounted'
    BY <2>1, <2>2, <2>3 DEF Parts, Accounted, EndpointsAccounted
  <2>5. \A q \in Procs : fds'[q] \subseteq fds[q]
    BY <2>2 DEF Procs
  <2> QED BY <2>1, <2>2, <2>4, <2>5 DEF ChildStepped, Ended
<1> QED BY <1>1, <1>2, <1>4, <1>5, <1>6, <1>7, <1>8, <1>9 DEF ChildNext, ChildSteps

LEMMA AroundKeeps ==
    ASSUME Typed, Parts, ChildStepped, rel' = rel, claim' = claim,
           UNCHANGED <<own, adp, capt, settle, att>>
    PROVE  Parts'
<1> USE DEF Parts
<1>0. /\ graph' = graph /\ enrol' = enrol /\ record' = record /\ own' = own /\ adp' = adp
      /\ capt' = capt /\ att' = att
      /\ child \in Process /\ \A p \in Pipes : Ended(p) => Ended(p)'
  BY DEF ChildStepped, Typed
<1>1. IntentDurable' /\ CapturePhases' /\ Branches' /\ PlanHeld'
  BY <1>0 DEF IntentDurable, CapturePhases, Branches, PlanHeld, Claimed
<1>2. Accounted'
  BY DEF ChildStepped
<1>3. ForkLatched'
  <2>1. CASE child' = child
    BY <1>0, <2>1 DEF ForkLatched
  <2>2. CASE Running /\ child'.pc # "none"
    BY <1>0, <2>2 DEF ForkLatched, Running, RunningPc
  <2>3. CASE Zombie /\ child' = [child EXCEPT !.pc = "gone"]
    BY <1>0, <2>3 DEF ForkLatched, Zombie
  <2> QED BY <2>1, <2>2, <2>3 DEF ChildStepped
<1>4. Ends'
  <2>1. capt.eof \subseteq Pipes /\ "status" \in Pipes
    BY DEF Typed, Captured, Streams, Pipes
  <2>2. \A s \in capt.eof : Ended(s)'
    BY <1>0, <2>1 DEF Ends
  <2>3. att.status = "EOF" \/ rel.read = "EOF" => Ended("status")'
    BY <1>0, <2>1 DEF Ends
  <2> QED BY <1>0, <2>2, <2>3 DEF Ends
<1>5. Observed'
  <2>1. CASE child' = child
    BY <1>0, <2>1 DEF Observed
  <2>2. CASE Running
    BY <1>0, <2>2 DEF Observed, Running, RunningPc
  <2>3. CASE Zombie /\ child' = [child EXCEPT !.pc = "gone"]
    <3>1. child'.pc = "gone" /\ child'.code = child.code
      BY <1>0, <2>3 DEF Process
    <3> QED BY <1>0, <2>3, <3>1 DEF Observed, Zombie
  <2> QED BY <2>1, <2>2, <2>3 DEF ChildStepped
<1>6. child.pc = "gone" => child' = child
  BY DEF ChildStepped, Running, RunningPc, Zombie
<1>7. (\A p \in Pipes, q \in Procs : Writer(p) \notin fds[q])
        => \A p \in Pipes, q \in Procs : Writer(p) \notin fds'[q]
  BY <1>0 DEF Ended
<1>8. VerifiedIsTrue'
  BY <1>0, <1>6, <1>7 DEF VerifiedIsTrue
<1>9. PlanIsTrue'
  BY <1>0, <1>6, <1>7 DEF PlanIsTrue, ChildStepped
<1>10. ClaimOrder'
  BY <1>0 DEF ClaimOrder, Claimed, ReleaseIsHonest
<1> QED BY <1>1, <1>2, <1>3, <1>4, <1>5, <1>8, <1>9, <1>10

-----------------------------------------------------------------------------
(* The descendant branch                                                   *)

\* The domain goes on, and nothing but it, the adapter and the step's record do.
LEMMA SharedKeeps ==
    ASSUME Typed, Parts, NEW d, enrol' = Shared(d), ~Claimed, att.fork_attempted,
           d \notin {"NONE", "READY"}, rel' = NoRelease \/ d \notin {"FORKED", "ATTACHED_HARD_LIMIT_ONLY"},
           alive' = alive, fds' = fds, graph' = graph, record' = record, child' = child,
           claim' = claim, capt' = capt, own' = own, att' = att, adp'.cached = adp.cached,
           \/ rel' = rel
           \/ /\ att.state \in {"LINUX_LEADER_REAPED_UNQUALIFIED", Survivor}
              /\ rel'.plan = rel.plan /\ rel'.read = rel.read /\ rel'.status = rel.status
    PROVE  Parts'
<1>1. EnrolKept /\ enrol'.domain = d
  BY EnrolShared DEF Typed
<1>2. IntentDurable'
  <2>1. att.state # "NONE"
    BY DEF Parts, ForkLatched
  <2> QED BY <1>1, <2>1, IntentKept DEF Parts
<1>3. Accounted'
  BY QuietAccounts DEF Running
<1>4. ForkLatched' /\ Observed' /\ CapturePhases'
  BY DEF Parts, ForkLatched, Observed, CapturePhases
<1>5. Ends'
  BY DEF Parts, Ends, Ended
<1>6. Branches'
  BY <1>1 DEF Parts, Branches, Claimed
<1>7. VerifiedIsTrue' /\ PlanIsTrue' /\ PlanHeld'
  BY DEF Parts, VerifiedIsTrue, PlanIsTrue, PlanHeld
<1>8. ClaimOrder'
  BY DEF Parts, ClaimOrder, Claimed, ReleaseIsHonest
<1> QED BY <1>2, <1>3, <1>4, <1>5, <1>6, <1>7, <1>8 DEF Parts

\* A composed domain excludes a claim, and was forked.
LEMMA DomainForked ==
    ASSUME Parts, enrol.domain \notin {"NONE", "READY", "UNKNOWN"}
    PROVE  ~Claimed /\ att.fork_attempted /\ att.state # "NONE"
BY DEF Parts, Branches, ForkLatched

LEMMA BranchedOff ==
    ASSUME Parts, rel # NoRelease
    PROVE  /\ att.state \in {"LINUX_LEADER_REAPED_UNQUALIFIED", Survivor}
           /\ ~Claimed /\ att.fork_attempted /\ att.state # "NONE"
BY DEF Parts, Branches, ForkLatched, Claimed, Survivor

LEMMA BridgePoisonKeeps ==
    ASSUME Typed, Parts, BridgePoison, ~Claimed, att.state # "NONE", rel' = rel, claim' = claim,
           alive' = alive, fds' = fds, graph' = graph, record' = record, child' = child, capt' = capt
    PROVE  Parts'
<1>1. /\ EnrolKept
      /\ enrol'.domain = enrol.domain \/ (enrol.domain # "NONE" /\ enrol'.domain = "UNKNOWN")
  BY EnrolPoisoned DEF Typed, BridgePoison
<1>2. Observed'
  BY AdapterPoisonHolds DEF BridgePoison, Parts
<1>3. own'.pidfd = own.pidfd /\ adp'.cached = adp.cached /\ att' = _poison(att)
  BY DEF BridgePoison, AdapterPoison, Typed, Owned, Adapter
<1> QED BY <1>1, <1>2, <1>3, PoisonKeeps

LEMMA DescendantKeeps ==
    ASSUME Typed, Parts, DescendantSteps, claim' = claim
    PROVE  Parts'
<1>f. /\ alive' = alive /\ fds' = fds /\ graph' = graph /\ record' = record /\ child' = child
      /\ capt' = capt
  BY DEF DescendantSteps, attach_allocated_owned_domain, DeadlineBinding,
         bind_allocated_settlement_deadline, DrainTransferring, transfer_allocated_descendant_drain,
         StepBegins, advance_allocated_descendant_once, BridgeReentered, StepReentered,
         BridgeUnchanged
<1>r. rel \in Release /\ adp \in Adapter
  BY DEF Typed
<1>1. ASSUME attach_allocated_owned_domain PROVE Parts'
  <2>1. att.state = "LINUX_CAPTURE_BOUND_UNARMED" /\ enrol.domain = "FORKED" /\ rel' = rel
    BY <1>1 DEF attach_allocated_owned_domain, InPhase, BridgeUnchanged
  <2>2. ~Claimed /\ att.fork_attempted /\ att.state # "NONE" /\ rel = NoRelease
    BY <2>1, DomainForked, Unbranched DEF Survivor
  <2>3. CASE BridgePoison
    BY <1>f, <2>1, <2>2, <2>3, BridgePoisonKeeps
  <2>4. CASE ~BridgePoison
    <3>1. /\ adp' = [adp EXCEPT !.binding = TRUE] /\ enrol' = Shared("ATTACHED_HARD_LIMIT_ONLY")
          /\ att' = att /\ own' = own
      BY <1>1, <2>4 DEF attach_allocated_owned_domain
    <3>2. adp'.cached = adp.cached
      BY <1>r, <3>1 DEF Adapter
    <3> QED BY <1>f, <2>1, <2>2, <3>1, <3>2, SharedKeeps
  <2> QED BY <2>3, <2>4
<1>2. ASSUME DeadlineBinding PROVE Parts'
  <2>1. /\ enrol.domain = "ATTACHED_HARD_LIMIT_ONLY" /\ enrol' = Shared("DEADLINE_BINDING")
        /\ att' = att /\ own' = own /\ adp' = adp /\ rel' = rel
    BY <1>2 DEF DeadlineBinding, AttachmentReaped, _validate_forked, BridgeUnchanged
  <2> QED BY <1>f, <2>1, DomainForked, SharedKeeps
<1>3. ASSUME bind_allocated_settlement_deadline PROVE Parts'
  <2>1. enrol.domain = "DEADLINE_BINDING" /\ rel' = rel
    BY <1>3 DEF bind_allocated_settlement_deadline, BridgeUnchanged
  <2>2. CASE BridgePoison
    BY <1>f, <2>1, <2>2, DomainForked, BridgePoisonKeeps
  <2>3. CASE ~BridgePoison
    <3>1. /\ enrol' = Shared("DEADLINE_BOUND_NON_DRAINABLE")
          /\ att' = att /\ own' = own /\ adp' = adp
      BY <1>3, <2>3 DEF bind_allocated_settlement_deadline
    <3> QED BY <1>f, <2>1, <3>1, DomainForked, SharedKeeps
  <2> QED BY <2>2, <2>3
<1>4. ASSUME DrainTransferring PROVE Parts'
  <2>1. /\ enrol.domain = "DEADLINE_BOUND_NON_DRAINABLE" /\ enrol' = Shared("DRAIN_TRANSFERRING")
        /\ att' = att /\ own' = own /\ rel' = rel /\ adp' = [adp EXCEPT !.state = "DESCENDANT_HANDOFF"]
    BY <1>4 DEF DrainTransferring, BridgeUnchanged
  <2>2. adp'.cached = adp.cached
    BY <1>r, <2>1 DEF Adapter
  <2> QED BY <1>f, <2>1, <2>2, DomainForked, SharedKeeps
<1>5. ASSUME transfer_allocated_descendant_drain PROVE Parts'
  <2>1. enrol.domain = "DRAIN_TRANSFERRING" /\ rel' = rel
    BY <1>5 DEF transfer_allocated_descendant_drain, BridgeUnchanged
  <2>2. CASE BridgePoison
    BY <1>f, <2>1, <2>2, DomainForked, BridgePoisonKeeps
  <2>3. CASE ~BridgePoison
    <3>1. enrol' = Shared("ALLOCATED_DRAIN_READY") /\ att' = att /\ own' = own /\ adp' = adp
      BY <1>5, <2>3 DEF transfer_allocated_descendant_drain
    <3> QED BY <1>f, <2>1, <3>1, DomainForked, SharedKeeps
  <2> QED BY <2>2, <2>3
<1>s. ASSUME NEW t, rel' = [rel EXCEPT !.step = t]
      PROVE  rel'.plan = rel.plan /\ rel'.read = rel.read /\ rel'.status = rel.status
  BY <1>r, <1>s DEF Release
<1>6. ASSUME StepBegins PROVE Parts'
  <2>1. /\ enrol.domain = "ALLOCATED_DRAIN_READY" /\ enrol' = Shared("DESCENDANT_STEP_ADVANCING")
        /\ att.state = "LINUX_LEADER_REAPED_UNQUALIFIED"
        /\ att' = att /\ own' = own /\ adp' = adp /\ rel' = [rel EXCEPT !.step = "ADVANCING"]
    BY <1>6 DEF StepBegins, InPhase
  <2>2. rel'.plan = rel.plan /\ rel'.read = rel.read /\ rel'.status = rel.status
    BY <2>1, <1>s
  <2> QED BY <1>f, <2>1, <2>2, DomainForked, SharedKeeps
<1>7. ASSUME advance_allocated_descendant_once \/ StepReentered PROVE Parts'
  <2>1. /\ rel.step = "ADVANCING" /\ own' = own /\ adp' = adp
        /\ rel' = rel \/ \E t : rel' = [rel EXCEPT !.step = t]
        /\ \/ enrol' = PoisonEnrollment(enrol) /\ att' = _poison(att)
           \/ /\ att' = att
              /\ \E d \in {"UNKNOWN", "ALLOCATED_MODEL_DOMAIN_DRAINED_NONQUALIFIED",
                           "ALLOCATED_STEP_NONQUALIFIED"} : enrol' = Shared(d)
    BY <1>7 DEF advance_allocated_descendant_once, StepReentered
  <2>2. rel # NoRelease
    BY <2>1 DEF NoRelease
  <2>3. rel' = rel \/ (rel'.plan = rel.plan /\ rel'.read = rel.read /\ rel'.status = rel.status)
    BY <2>1, <1>s
  <2>4. CASE enrol' = PoisonEnrollment(enrol) /\ att' = _poison(att)
    <3>1. /\ EnrolKept
          /\ enrol'.domain = enrol.domain \/ (enrol.domain # "NONE" /\ enrol'.domain = "UNKNOWN")
      BY <2>4, EnrolPoisoned DEF Typed
    <3>2. Observed' /\ own'.pidfd = own.pidfd
      BY <1>f, <2>1, QuietObserved
    <3> QED BY <1>f, <2>1, <2>2, <2>3, <2>4, <3>1, <3>2, BranchedOff, PoisonKeeps
  <2>5. CASE att' = att /\ \E d \in {"UNKNOWN", "ALLOCATED_MODEL_DOMAIN_DRAINED_NONQUALIFIED",
                                     "ALLOCATED_STEP_NONQUALIFIED"} : enrol' = Shared(d)
    BY <1>f, <2>1, <2>2, <2>3, <2>5, BranchedOff, SharedKeeps
  <2> QED BY <2>1, <2>4, <2>5
<1>8. ASSUME BridgeReentered PROVE Parts'
  <2>1. enrol.domain \in {"DEADLINE_BINDING", "DRAIN_TRANSFERRING"} /\ BridgePoison /\ rel' = rel
    BY <1>8 DEF BridgeReentered, BridgeUnchanged
  <2> QED BY <1>f, <2>1, DomainForked, BridgePoisonKeeps
<1> QED BY <1>1, <1>2, <1>3, <1>4, <1>5, <1>6, <1>7, <1>8 DEF DescendantSteps

\* One of the operations after the drain step goes on.
LEMMA RelKeeps ==
    ASSUME Typed, Parts, rel # NoRelease, att' = att, claim' = claim,
           UNCHANGED <<alive, fds, graph, enrol, record, child, own, adp, capt>>,
           rel'.read = "EOF" => rel.read = "EOF" \/ Ended("status"),
           rel'.status = "EOF" => rel'.read = "EOF", PlanIsTrue', PlanHeld'
    PROVE  Parts'
<1>1. IntentDurable' /\ ForkLatched' /\ Observed' /\ CapturePhases' /\ VerifiedIsTrue'
  BY DEF Parts, IntentDurable, ForkLatched, Observed, CapturePhases, VerifiedIsTrue
<1>2. Accounted'
  BY QuietAccounts DEF Running
<1>3. Ends'
  BY DEF Parts, Ends, Ended
<1>4. Branches'
  BY DEF Parts, Branches, Claimed
<1>5. ClaimOrder'
  BY DEF Parts, ClaimOrder, Claimed, ReleaseIsHonest
<1> QED BY <1>1, <1>2, <1>3, <1>4, <1>5 DEF Parts

LEMMA OperationPoisonKeeps ==
    ASSUME Typed, Parts, rel # NoRelease, claim' = claim,
           OperationPoison("status") \/ OperationPoison("deadline"),
           UNCHANGED <<alive, fds, graph, enrol, record, child, own, adp, capt>>
    PROVE  Parts'
<1>1. rel' = [rel EXCEPT !.status = "UNKNOWN"] \/ rel' = [rel EXCEPT !.deadline = "UNKNOWN"]
  BY DEF OperationPoison
<1>2. /\ rel'.plan = rel.plan /\ rel'.read = rel.read /\ rel'.status \in {rel.status, "UNKNOWN"}
  BY <1>1 DEF Typed, Release
<1>3. att' = _poison(att)
  BY DEF OperationPoison
<1>4. EnrolKept /\ enrol'.domain = enrol.domain
  BY DEF EnrolKept
<1>5. Observed'
  BY QuietObserved
<1> QED BY <1>2, <1>3, <1>4, <1>5, BranchedOff, PoisonKeeps

LEMMA QualifyKeeps ==
    ASSUME Typed, Parts, QualifySteps, claim' = claim
    PROVE  Parts'
<1>f. UNCHANGED <<alive, fds, graph, enrol, record, child, own, adp, capt>>
  BY DEF QualifySteps, StatusBegins, ReadStatusOnce, observe_allocated_status_tail_once,
         match_allocated_abort_protocol_once, qualify_allocated_release_inputs_once,
         DeadlineAdmitting, admit_allocated_release_deadline_once,
         bind_allocated_resource_plan_once, Reentered, ReleaseUnchanged
<1>r. rel \in Release
  BY DEF Typed
<1>e. StatusEof => rel # NoRelease
  BY DEF StatusEof, NoRelease
<1>n. rel # NoRelease
  <2>1. CASE StatusBegins
    BY <2>1 DEF StatusBegins, TerminalEvidence, NoRelease
  <2>2. CASE ReadStatusOnce \/ observe_allocated_status_tail_once \/ Reentered
             \/ admit_allocated_release_deadline_once
    BY <2>2 DEF ReadStatusOnce, observe_allocated_status_tail_once, Reentered,
                admit_allocated_release_deadline_once, NoRelease
  <2>3. CASE match_allocated_abort_protocol_once \/ qualify_allocated_release_inputs_once
             \/ DeadlineAdmitting \/ bind_allocated_resource_plan_once
    BY <2>3, <1>e
    DEF match_allocated_abort_protocol_once, qualify_allocated_release_inputs_once,
        DeadlineAdmitting, bind_allocated_resource_plan_once, DeadlineCapability, InputsCapability,
        ProtocolCapability, _validate_protocol_evaluation
  <2> QED BY <2>1, <2>2, <2>3 DEF QualifySteps
<1>p. ASSUME OperationPoison("status") \/ OperationPoison("deadline") PROVE Parts'
  BY <1>f, <1>n, <1>p, OperationPoisonKeeps
<1>k. ASSUME att' = att, rel'.plan = rel.plan,
             rel'.read = "EOF" => rel.read = "EOF" \/ Ended("status"),
             rel'.status = "EOF" => rel'.read = "EOF"
      PROVE  Parts'
  <2>1. PlanIsTrue' /\ PlanHeld'
    BY <1>f, <1>k DEF Parts, PlanIsTrue, PlanHeld
  <2> QED BY <1>f, <1>n, <1>k, <2>1, RelKeeps
<1>w. rel.status = "EOF" => rel.read = "EOF"
  BY DEF Parts, Ends
<1>1. ASSUME StatusBegins PROVE Parts'
  <2>1. CASE att' = att /\ rel' = [rel EXCEPT !.status = "OBSERVING"]
    <3>1. rel'.plan = rel.plan /\ rel'.read = rel.read /\ rel'.status = "OBSERVING"
      BY <1>r, <2>1 DEF Release
    <3> QED BY <1>k, <2>1, <3>1
  <2> QED BY <1>1, <1>p, <2>1 DEF StatusBegins
<1>2. ASSUME ReadStatusOnce PROVE Parts'
  <2> DEFINE kind == ReadKind("status")
  <2>1. kind = "EOF" => Ended("status")
    BY DEF ReadKind, Eof, Ended
  <2>2. \/ OperationPoison("status")
        \/ att' = att /\ rel' = [rel EXCEPT !.read = kind] /\ rel.status = "OBSERVING"
    BY <1>2 DEF ReadStatusOnce
  <2> HIDE DEF kind
  <2>3. CASE att' = att /\ rel' = [rel EXCEPT !.read = kind] /\ rel.status = "OBSERVING"
    <3>1. rel'.plan = rel.plan /\ rel'.read = kind /\ rel'.status = "OBSERVING"
      BY <1>r, <2>3 DEF Release
    <3> QED BY <1>k, <2>1, <2>3, <3>1
  <2> QED BY <1>p, <2>2, <2>3
<1>3. ASSUME observe_allocated_status_tail_once PROVE Parts'
  <2>1. CASE att' = att /\ rel' = [rel EXCEPT !.status = rel.read]
    <3>1. rel'.plan = rel.plan /\ rel'.read = rel.read /\ rel'.status = rel.read
      BY <1>r, <2>1 DEF Release
    <3> QED BY <1>k, <2>1, <3>1
  <2> QED BY <1>3, <1>p, <2>1 DEF observe_allocated_status_tail_once
<1>4. ASSUME match_allocated_abort_protocol_once \/ qualify_allocated_release_inputs_once
             \/ DeadlineAdmitting
      PROVE  Parts'
  <2>1. /\ att' = att
        /\ \/ \E v \in {"MATCH", "MISMATCH"} : rel' = [rel EXCEPT !.protocol = v]
           \/ rel' = [rel EXCEPT !.inputs = "QUALIFIED"]
           \/ rel' = [rel EXCEPT !.deadline = "ADMITTING"]
    BY <1>4 DEF match_allocated_abort_protocol_once, qualify_allocated_release_inputs_once,
                DeadlineAdmitting
  <2>2. rel'.plan = rel.plan /\ rel'.read = rel.read /\ rel'.status = rel.status
    BY <1>r, <2>1 DEF Release
  <2> QED BY <1>k, <1>w, <2>1, <2>2
<1>5. ASSUME admit_allocated_release_deadline_once PROVE Parts'
  <2>1. CASE att' = att /\ \E v \in {"ADMITTED", "EXPIRED", "ROLLBACK_REFUSED"} :
                             rel' = [rel EXCEPT !.deadline = v]
    <3>1. rel'.plan = rel.plan /\ rel'.read = rel.read /\ rel'.status = rel.status
      BY <1>r, <2>1 DEF Release
    <3> QED BY <1>k, <1>w, <2>1, <3>1
  <2> QED BY <1>5, <1>p, <2>1 DEF admit_allocated_release_deadline_once
<1>6. ASSUME bind_allocated_resource_plan_once PROVE Parts'
  <2>1. /\ alive /\ DeadlineCapability /\ PlanResources /\ att' = att
        /\ rel' = [rel EXCEPT !.plan = "BOUND"]
    BY <1>6 DEF bind_allocated_resource_plan_once
  <2>2. /\ rel.status = "EOF" /\ own.obs = EXIT_ABORT_EOF /\ own.state = "REAPED"
        /\ \A s \in Streams : s \in capt.eof
    BY <2>1
    DEF DeadlineCapability, InputsCapability, ProtocolCapability, _validate_protocol_evaluation,
        StatusEof, TerminalEvidence, StepAuthority, LeaderCapability, AllocatedMatch, StreamsMatch
  <2>3. capt.eof = Streams
    BY <2>2 DEF Typed, Captured
  <2>4. Ended("status")
    BY <2>2 DEF Parts, Ends
  <2>5. capt.epoll = "open" /\ own.pidfd = "open" /\ ReapedGraph
    BY <2>1 DEF PlanResources
  <2>6. /\ child.pc = "gone" /\ child.code = EXIT_ABORT_EOF
        /\ fds["launcher"] = ParentEnds \ {"grant_parent"} /\ graph.lost = {}
        /\ \A p \in Pipes, q \in Procs : Writer(p) \notin fds[q]
    BY <2>1, <2>2, <2>3, <2>4, <2>5, NoWriterLeft
  <2>7. child = [pc |-> "gone", code |-> EXIT_ABORT_EOF]
    BY <2>6 DEF Typed, Process
  <2>8. PlanIsTrue'
    BY <1>f, <2>5, <2>6, <2>7 DEF PlanIsTrue
  <2>9. PlanHeld'
    BY <1>f, <2>5, <2>6 DEF PlanHeld, ReapedGraph
  <2>10. rel'.read = rel.read /\ rel'.status = rel.status
    BY <1>r, <2>1 DEF Release
  <2> QED BY <1>f, <1>n, <1>w, <2>1, <2>8, <2>9, <2>10, RelKeeps
<1>7. ASSUME Reentered PROVE Parts'
  BY <1>7, <1>p DEF Reentered
<1> QED BY <1>1, <1>2, <1>3, <1>4, <1>5, <1>6, <1>7 DEF QualifySteps

\* A release of the claim touches nothing but the claim.
LEMMA ClaimKeeps ==
    ASSUME Typed, Parts, ClaimChange, ClaimFrame
    PROVE  Parts'
<1>0. /\ UNCHANGED <<alive, fds, graph, enrol, record, child, own, adp, capt, att, rel>>
      /\ claim \in TerminalClaim
  BY DEF ClaimFrame, Typed
<1>1. IntentDurable' /\ ForkLatched' /\ Observed' /\ CapturePhases' /\ VerifiedIsTrue'
  BY <1>0 DEF Parts, IntentDurable, ForkLatched, Observed, CapturePhases, VerifiedIsTrue
<1>2. Accounted'
  BY <1>0, QuietAccounts DEF Running
<1>3. Ends' /\ Branches' /\ PlanIsTrue' /\ PlanHeld'
  BY <1>0 DEF Parts, Ends, Ended, Branches, Claimed, PlanIsTrue, PlanHeld
<1>4. ClaimOrder'
  BY <1>0, ClaimKeepsOrder DEF Parts
<1> QED BY <1>1, <1>2, <1>3, <1>4 DEF Parts

-----------------------------------------------------------------------------
(* The invariant                                                           *)

\* The shared state of a composed domain and the domain itself stay together.
LEMMA DomainFollowsTypes ==
    ASSUME dom \in Domain, DomainFollows
    PROVE  dom' \in Domain
<1>1. \/ dom' = [state |-> "PREPARED", deadline |-> HardLimit]
      \/ dom' = [dom EXCEPT !.state = "UNKNOWN"]
      \/ dom' = dom
  BY DEF DomainFollows
<1> QED BY <1>1, DomainTypes

\* A step below the descendant branch keeps every type.
LEMMA BelowKeepsTypes ==
    ASSUME Typed, IntentDurable, AttemptNext
    PROVE  AttemptTyped'
<1> USE DEF AttemptTyped, CaptureTyped, ChildTyped, GraphTyped
<1>0. AttemptTyped
  BY DEF Typed
<1>1. ASSUME Prefork PROVE AttemptTyped'
  BY <1>0, <1>1, GraphKeepsTypes DEF Prefork, captureVars
<1>2. ASSUME Capture PROVE AttemptTyped'
  BY <1>0, <1>2, MonitorKeepsTypes, ReapKeepsTypes, SettleKeepsTypes DEF Capture
<1>3. ASSUME AttemptSteps PROVE AttemptTyped'
  BY <1>0, <1>3, LaunchKeepsTypes, ConcludeKeepsTypes DEF AttemptSteps
<1>4. ASSUME AroundChild PROVE AttemptTyped'
  BY <1>0, <1>4, ChildKeepsTypes DEF AroundChild, captureVars
<1> QED BY <1>1, <1>2, <1>3, <1>4 DEF AttemptNext

LEMMA NextKeepsTypes ==
    ASSUME Typed, IntentDurable, Next
    PROVE  Typed'
<1>1. ASSUME Below, claim' = claim PROVE Typed'
  <2>1. AttemptTyped'
    BY <1>1, BelowKeepsTypes DEF Below
  <2>2. dom' \in Domain /\ rel' = rel
    BY <1>1, DomainFollowsTypes DEF Below, Typed
  <2> QED BY <1>1, <2>1, <2>2 DEF Typed, AttemptTyped, CaptureTyped, ChildTyped, GraphTyped
<1>2. ASSUME DescendantSteps \/ QualifySteps, claim' = claim PROVE Typed'
  <2>1. BranchTyped
    BY DEF Typed, BranchTyped, AttemptTyped, CaptureTyped, ChildTyped, GraphTyped
  <2>2. BranchTyped'
    BY <1>2, <2>1, DescendantKeepsTypes, QualifyKeepsTypes
  <2> QED BY <1>2, <2>2
      DEF Typed, BranchTyped, AttemptTyped, CaptureTyped, ChildTyped, GraphTyped
<1>3. ASSUME ClaimNext PROVE Typed'
  <2>1. ClaimChange /\ ClaimFrame /\ claim \in TerminalClaim
    BY <1>3, ClaimSplits DEF Typed
  <2>2. claim' \in TerminalClaim
    BY <2>1, ClaimKeepsTypes
  <2>3. faults' \in 0..MaxFaults
    BY <2>1, FaultTypes DEF ClaimFrame, Typed
  <2> QED BY <2>1, <2>2, <2>3 DEF Typed, ClaimFrame
<1> QED BY <1>1, <1>2, <1>3 DEF Next, ReleaseNext

LEMMA NextKeepsParts ==
    ASSUME Typed, Parts, Next, Typed'
    PROVE  Parts'
<1>1. ASSUME Prefork, rel' = rel, claim' = claim PROVE Parts'
  BY <1>1, PreforkKeeps
<1>2. ASSUME Capture, rel' = rel, claim' = claim PROVE Parts'
  <2>1. CaptureStepped /\ att' = att
    BY <1>2, MonitorSteps, ReapSteps, SettleSteps DEF Capture
  <2>2. capt' \in Captured
    BY DEF Typed
  <2> QED BY <1>2, <2>1, <2>2, CaptureKeeps
<1>3. ASSUME AttemptSteps, rel' = rel, claim' = claim PROVE Parts'
  BY <1>3, LaunchKeeps, MonitorPhaseKeeps, StatusPhaseKeeps DEF AttemptSteps
<1>4. ASSUME AroundChild, rel' = rel, claim' = claim PROVE Parts'
  <2>1. ChildStepped
    BY <1>4, ChildNextSteps DEF AroundChild
  <2> QED BY <1>4, <2>1, AroundKeeps DEF AroundChild, captureVars
<1>5. ASSUME ClaimNext PROVE Parts'
  BY <1>5, ClaimSplits, ClaimKeeps DEF Typed
<1> QED BY <1>1, <1>2, <1>3, <1>4, <1>5, DescendantKeeps, QualifyKeeps
    DEF Next, ReleaseNext, Below, AttemptNext

LEMMA InitialTypes ==
    ASSUME Init
    PROVE  Typed
<1> USE DEF Init, ReleaseInit, AttemptInit
<1>1. /\ clock \in Nat /\ faults \in 0..MaxFaults /\ alive \in BOOLEAN
      /\ fds \in [Procs -> SUBSET Roles]
  BY LimitTypes DEF GraphInit
<1>2. pipe \in [Pipes -> Seq(Token)]
  <2>1. <<>> \in Seq(Token)
    OBVIOUS
  <2> QED BY <2>1 DEF GraphInit
<1>3. graph \in Handle /\ record \in IntentRecord
  BY HandleTypes, RecordTypes DEF GraphInit
<1>4. enrol \in Enrollment
  BY DEF GraphInit, NewEnrollment, Enrollment, Domains
<1>5. child \in Process /\ holder \in {"no", "holding", "wrote", "gone"}
  BY ProcessTypes DEF ChildInit
<1>6. own \in Owned /\ adp \in Adapter /\ capt \in Captured /\ settle \in Settlement
  BY OwnedTypes, AdapterTypes, CapturedTypes, SettlementTypes DEF CaptureInit
<1>7. att \in Attempt /\ dom \in Domain /\ rel \in Release
  BY AttemptTypes, DomainTypes, ReleaseTypes
<1>8. claim \in TerminalClaim
  BY DEF NewClaim, TerminalClaim, Outcome
<1> QED BY <1>1, <1>2, <1>3, <1>4, <1>5, <1>6, <1>7, <1>8 DEF Typed

LEMMA InitialParts ==
    ASSUME Init
    PROVE  Parts
<1>1. /\ alive = TRUE /\ fds = [q \in Procs |-> {}] /\ record = NoRecord
      /\ graph = [FreshHandle EXCEPT !.state = "UNALLOCATED", !.owned = {}]
      /\ enrol = NewEnrollment /\ child = NoChild /\ own = NoOwned /\ adp = NoAdapter
      /\ capt = NoCapture /\ att = NoAttempt /\ rel = NoRelease /\ claim = NewClaim
  BY DEF Init, ReleaseInit, AttemptInit, GraphInit, ChildInit, CaptureInit
<1>2. /\ att.state = "NONE" /\ ~att.fork_attempted /\ att.status = "UNREAD" /\ child.pc = "none"
      /\ ~Claimed /\ enrol.domain = "NONE"
  BY <1>1 DEF NoAttempt, NoChild, Claimed, NewEnrollment
<1>3. capt.eof = {} /\ ~capt.active /\ capt.state = "NONE" /\ capt.cap = "NONE"
  BY <1>1 DEF NoCapture
<1>4. rel.read = "UNREAD" /\ rel.status = "NONE" /\ rel.plan = "NONE"
  BY <1>1 DEF NoRelease
<1>5. IntentDurable
  BY <1>1, <1>2 DEF IntentDurable, NewEnrollment
<1>6. ForkLatched
  BY <1>2 DEF ForkLatched
<1>7. Accounted
  <2>1. graph.owned = {} /\ graph.lost = {}
    BY <1>1 DEF FreshHandle
  <2>2. fds["launcher"] = {} /\ fds["holder"] = {} /\ fds["child"] = {}
    BY <1>1 DEF Procs
  <2> QED BY <1>1, <2>1, <2>2 DEF Accounted, EndpointsAccounted
<1>8. Ends
  BY <1>2, <1>3, <1>4 DEF Ends
<1>9. Observed
  <2>1. own.state = "NONE" /\ ~adp.cached
    BY <1>1 DEF NoOwned, NoAdapter
  <2> QED BY <2>1 DEF Observed
<1>10. CapturePhases
  BY <1>2, <1>3 DEF CapturePhases, ReapPhases
<1>11. Branches /\ VerifiedIsTrue /\ PlanIsTrue /\ PlanHeld
  BY <1>1, <1>2, <1>4 DEF Branches, VerifiedIsTrue, PlanIsTrue, PlanHeld
<1>12. ClaimOrder
  <2>1. /\ claim.running = "NONE" /\ claim.at = "idle" /\ claim.attempted = {} /\ claim.nested = {}
        /\ \A r \in Resources : claim.closes[r] = 0 /\ claim.outcome[r] = "NONE"
    BY <1>1 DEF NewClaim
  <2>2. ReleaseIsHonest
    BY <2>1 DEF ReleaseIsHonest
  <2> QED BY <1>1, <2>1, <2>2 DEF ClaimOrder
<1> QED BY <1>5, <1>6, <1>7, <1>8, <1>9, <1>10, <1>11, <1>12 DEF Parts

LEMMA StutterKeeps ==
    ASSUME PipelineInv, UNCHANGED pipelineVars
    PROVE  PipelineInv'
<1>1. UNCHANGED <<clock, faults, alive, fds, pipe, graph, enrol, record, child, holder,
                  own, adp, capt, settle, att, dom, rel, claim>>
  BY DEF pipelineVars, releaseVars, attemptVars
<1>2. Typed'
  BY <1>1 DEF PipelineInv, Typed
<1>3. IntentDurable' /\ ForkLatched' /\ Observed' /\ CapturePhases' /\ VerifiedIsTrue'
  BY <1>1 DEF PipelineInv, IntentDurable, ForkLatched, Observed, CapturePhases, VerifiedIsTrue
<1>4. Accounted' /\ Ends' /\ Branches' /\ PlanIsTrue' /\ PlanHeld'
  BY <1>1 DEF PipelineInv, Accounted, EndpointsAccounted, Running, Ends, Ended, Branches, Claimed,
              PlanIsTrue, PlanHeld
<1>5. ClaimOrder'
  BY <1>1 DEF PipelineInv, ClaimOrder, ReleaseIsHonest, Claimed
<1> QED BY <1>2, <1>3, <1>4, <1>5 DEF PipelineInv

\* The inductive invariant of the pipeline, through every interleaving of the
\* launcher, its child, the foreign process, the faults and the callbacks.
THEOREM PipelineInvariant == Spec => []PipelineInv
<1>1. Init => PipelineInv
  BY InitialTypes, InitialParts DEF PipelineInv, Parts
<1>2. PipelineInv /\ [Next]_pipelineVars => PipelineInv'
  <2>1. ASSUME PipelineInv, Next PROVE PipelineInv'
    <3>1. Typed /\ Parts
      BY <2>1 DEF PipelineInv, Parts
    <3>2. Typed'
      BY <2>1, <3>1, NextKeepsTypes DEF Parts
    <3>3. Parts'
      BY <2>1, <3>1, <3>2, NextKeepsParts
    <3> QED BY <3>2, <3>3 DEF PipelineInv, Parts
  <2> QED BY <2>1, StutterKeeps
<1> QED BY <1>1, <1>2, PTL DEF Spec

-----------------------------------------------------------------------------
(* Theorems                                                                *)

\* Every variable of the launcher, its child, the capture, the attempt and both
\* releases keeps its type.
THEOREM TypeCorrect == Spec => []TypeOK
<1>1. Typed => TypeOK
  <2>1. Typed => GraphTypeOK
    BY DEF Typed, GraphTypeOK, Handle, Enrollment, Domains, IntentRecord, Token
  <2>2. Typed => ChildTypeOK
    BY DEF Typed, ChildTypeOK, Process
  <2>3. Typed => CaptureTypeOK
    BY DEF Typed, CaptureTypeOK, Owned, Adapter, Captured, Settlement
  <2>4. Typed => dom \in Domain /\ rel \in Release /\ claim \in TerminalClaim /\ att \in Attempt
    BY DEF Typed
  <2>5. rel \in Release => /\ rel.step \in StepOutcomes \cup {"NONE", "ADVANCING", "UNKNOWN"}
                           /\ rel.status \in {"NONE", "OBSERVING", "EOF", "DATA", "EAGAIN", "UNKNOWN"}
    BY DEF Release
  <2>6. claim \in TerminalClaim => /\ claim.running \in Resources \cup {"NONE"}
                                   /\ claim.closes \in [Resources -> Nat]
    BY DEF TerminalClaim
  <2> QED BY <2>1, <2>2, <2>3, <2>4, <2>5, <2>6 DEF TypeOK, AttemptTypeOK, Domain, Attempt
<1> QED BY <1>1, PipelineInvariant, PTL DEF PipelineInv

\* LinuxFork runs behind a persisted INTENT and nothing writes the record after
\* its seal: whenever a child exists, the record of its request is complete,
\* synced and under its own name.
THEOREM ForkBehindIntent == Spec => []IntentBeforeFork
<1>1. IntentDurable /\ ForkLatched => IntentBeforeFork
  BY DEF IntentDurable, ForkLatched, IntentBeforeFork, Sealed
<1> QED BY <1>1, PipelineInvariant, PTL DEF PipelineInv

\* _poison of the attempt classifies by the fork latch, which is set before the
\* call of fork(): UNKNOWN is never said of an attempt that left a child.
THEOREM SurvivorsAreClassified == Spec => []SurvivorClassified
<1>1. ForkLatched => SurvivorClassified
  BY DEF ForkLatched, SurvivorClassified
<1> QED BY <1>1, PipelineInvariant, PTL DEF PipelineInv

\* The handle of the descriptor graph, through every close that failed, was
\* refused or found another object: what the launcher holds is owned or lost.
THEOREM EveryEndpointAccounted == Spec => []EndpointsAccounted
<1>1. Accounted => EndpointsAccounted
  BY DEF Accounted
<1> QED BY <1>1, PipelineInvariant, PTL DEF PipelineInv

\* verify_linux_abort_protocol_once: what it calls verified is an abort that
\* happened, with the child reaped and no writer of its pipes left anywhere.
THEOREM VerifiedAbortHappened == Spec => []VerifiedIsTrue
BY PipelineInvariant, PTL DEF PipelineInv

\* bind_allocated_resource_plan_once: a bound plan names open descriptors of an
\* abort that happened, although a domain was drained and three callbacks ran
\* between the reap and the plan.
THEOREM PlanBoundForAbort == Spec => []PlanIsTrue
BY PipelineInvariant, PTL DEF PipelineInv

\* _AbortTerminalReleaseClaim: each resource is closed at most once, behind timely
\* closes of all before it, and no disturbed close is confirmed.
THEOREM ClaimReleasesHonestly == Spec => []ReleaseIsHonest
<1>1. ClaimOrder => ReleaseIsHonest
  BY DEF ClaimOrder
<1> QED BY <1>1, PipelineInvariant, PTL DEF PipelineInv

-----------------------------------------------------------------------------
(* The reap                                                                *)

\* The launcher's own steps outside the capture leave a forked child alone.
LEMMA AttemptLeavesZombie ==
    ASSUME Typed, Parts, AttemptSteps, Zombie
    PROVE  child' = child
<1>1. child.pc # "none"
  BY DEF Zombie
<1>2. att.state # "LINUX_FORKING"
  BY <1>1 DEF Parts, ForkLatched
<1>3. ~LinuxFork /\ ~LinuxForkFails
  BY <1>2 DEF LinuxFork, LinuxForkFails, InPhase
<1> QED BY <1>3 DEF AttemptSteps, ClaimAttempt, LinuxPreflight, LinuxBind, PrepareBegins,
    CloseChildEndpoint, ReadReady, BindCapture, GrantAdmission, close_linux_grant_zero_write_once,
    MonitorBegins, monitor_linux_abort_unreaped_once, ReapAdmission, reap_linux_completion_once,
    StatusTailBegins, StatusTailRefused, ReadStatusTail, observe_linux_status_tail_once,
    verify_linux_abort_protocol_once, claim_abort_terminal_release_once, SettleFailedCapture,
    AfterSettlement, AttemptFails, probe_children_after_reap, close_capture_epoll

LEMMA BranchLeavesChild ==
    ASSUME DescendantSteps \/ QualifySteps
    PROVE  child' = child
BY DEF DescendantSteps, QualifySteps, attach_allocated_owned_domain, DeadlineBinding,
    bind_allocated_settlement_deadline, DrainTransferring, transfer_allocated_descendant_drain,
    StepBegins, advance_allocated_descendant_once, BridgeReentered, StepReentered, BridgeUnchanged,
    StatusBegins, ReadStatusOnce, observe_allocated_status_tail_once,
    match_allocated_abort_protocol_once, qualify_allocated_release_inputs_once, DeadlineAdmitting,
    admit_allocated_release_deadline_once, bind_allocated_resource_plan_once, Reentered,
    ReleaseUnchanged

LEMMA ReapIsObserved ==
    ASSUME Typed, Parts, Next, alive', Zombie, child'.pc = "gone"
    PROVE  own.obs = child.code /\ capt.used
<1>1. child' # child
  BY DEF Zombie
<1>2. ~Running
  BY DEF Zombie, Running, RunningPc
<1>3. ASSUME Capture PROVE own.obs = child.code /\ capt.used
  <2>1. CaptureStepped
    BY <1>3, MonitorSteps, ReapSteps, SettleSteps DEF Capture
  <2> QED BY <1>1, <2>1 DEF CaptureStepped
<1>4. ~AroundChild
  <2>1. AroundChild => ChildStepped
    BY ChildNextSteps DEF AroundChild
  <2> QED BY <1>1, <1>2, <2>1 DEF ChildStepped
<1>5. ~Prefork
  BY <1>1, PreforkFrame
<1>6. ~AttemptSteps /\ ~DescendantSteps /\ ~QualifySteps
  BY <1>1, AttemptLeavesZombie, BranchLeavesChild
<1>7. ~ClaimNext
  BY <1>1, ClaimSplits DEF ClaimFrame, Typed
<1> QED BY <1>3, <1>4, <1>5, <1>6, <1>7 DEF Next, ReleaseNext, Below, AttemptNext

\* waitid of the owned child is asked for only by reap_cached_once and its failing
\* form: while the launcher lives, a zombie goes only after its exit was observed
\* through the pidfd, by the consumer that used up the capture.
THEOREM ReapedOnlyObserved == Spec => ObservedBeforeReaped
<1>1. /\ PipelineInv /\ [Next]_pipelineVars
      => [(alive' /\ Zombie /\ child'.pc = "gone") => own.obs = child.code /\ capt.used]_pipelineVars
  <2>1. PipelineInv => Typed /\ Parts
    BY DEF PipelineInv, Parts
  <2> QED BY <2>1, ReapIsObserved
<1> QED BY <1>1, PipelineInvariant, PTL DEF Spec, ObservedBeforeReaped

-----------------------------------------------------------------------------
(* The release of the pidfd implements ExactFDReleaseBinding               *)

\* While the claim exists its deadline stands and time only passes.
LEMMA DeadlineStands ==
    ASSUME Typed, Parts, Claimed, ReleaseNext
    PROVE  settle' = settle /\ clock' \in Nat /\ clock' >= clock
<1>0. clock \in Nat /\ ~capt.active /\ capt.state # "SETTLING"
  BY DEF Typed, Parts, Claimed, CapturePhases, Survivor
<1>1. ~Prefork
  BY PreforkFrame DEF Claimed
<1>2. ~Capture
  <2>1. Capture => CaptureStepped
    BY MonitorSteps, ReapSteps, SettleSteps DEF Capture
  <2> QED BY <1>0, <2>1 DEF CaptureStepped
<1>3. ~AttemptSteps
  BY DEF Claimed, AttemptSteps, ClaimAttempt, LinuxPreflight, LinuxFork, LinuxForkFails, LinuxBind,
    PrepareBegins, CloseChildEndpoint, ReadReady, BindCapture, GrantAdmission,
    close_linux_grant_zero_write_once, MonitorBegins, monitor_linux_abort_unreaped_once,
    ReapAdmission, reap_linux_completion_once, StatusTailBegins, StatusTailRefused, ReadStatusTail,
    observe_linux_status_tail_once, verify_linux_abort_protocol_once,
    claim_abort_terminal_release_once, SettleFailedCapture, AfterSettlement, AttemptFails,
    InPhase, Over
<1>4. ASSUME AroundChild PROVE settle' = settle /\ clock' \in Nat /\ clock' >= clock
  <2>1. settle' = settle
    BY <1>4 DEF AroundChild, captureVars
  <2>2. clock' = clock \/ clock' = clock + 1
    BY <1>4 DEF AroundChild, ChildNext, ChildSteps, current_child_identity, ChildClosesParentEnds,
       ChildWrites, _write_exact, read_grant, ChildDeadline, _exit_once, Killed, HolderOpens, HolderWrites,
       HolderCloses, LauncherDies, Tick
  <2> QED BY <1>0, <2>1, <2>2
<1>5. ASSUME DescendantSteps PROVE settle' = settle /\ clock' = clock
  <2>1. ~DrainTransferring
    BY DEF Claimed, DrainTransferring, InPhase
  <2> QED BY <1>5, <2>1 DEF DescendantSteps, attach_allocated_owned_domain, DeadlineBinding,
    bind_allocated_settlement_deadline, transfer_allocated_descendant_drain, StepBegins,
    advance_allocated_descendant_once, BridgeReentered, StepReentered, BridgeUnchanged
<1>6. ASSUME QualifySteps PROVE settle' = settle /\ clock' = clock
  BY <1>6 DEF QualifySteps, StatusBegins, ReadStatusOnce, observe_allocated_status_tail_once,
    match_allocated_abort_protocol_once, qualify_allocated_release_inputs_once, DeadlineAdmitting,
    admit_allocated_release_deadline_once, bind_allocated_resource_plan_once, Reentered,
    ReleaseUnchanged
<1> QED BY <1>0, <1>1, <1>2, <1>3, <1>4, <1>5, <1>6 DEF ReleaseNext, Below, AttemptNext

Late == Confirmed("anchor") /\ ~InRelease

\* The fields the binding is seen through.
SameView ==
    /\ claim'.running = "pidfd" <=> claim.running = "pidfd"
    /\ "pidfd" \in claim'.nested <=> "pidfd" \in claim.nested
    /\ claim'.closes["pidfd"] = claim.closes["pidfd"]
    /\ claim'.outcome["pidfd"] = claim.outcome["pidfd"]
    /\ Confirmed("anchor")' <=> Confirmed("anchor")

LEMMA SameBinding ==
    ASSUME SameView, claim.outcome["pidfd"] \in Outcome
    PROVE  /\ BindingState' = BindingState
           /\ (claim.running = "pidfd")' = (claim.running = "pidfd")
           /\ ("pidfd" \in claim.nested)' = ("pidfd" \in claim.nested)
           /\ (claim.closes["pidfd"] = 0)' = (claim.closes["pidfd"] = 0)
<1>1. CASE ~Confirmed("anchor") \/ claim.running = "pidfd"
  BY <1>1 DEF SameView, BindingState
<1>2. CASE Confirmed("anchor") /\ claim.running # "pidfd"
  <2>1. Confirmed("anchor")' /\ claim'.running # "pidfd"
    BY <1>2 DEF SameView
  <2>2. claim.outcome["pidfd"] \in {"NONE", "CONFIRMED", "CONFIRMED_LATE", "IDENTITY_QUARANTINED",
                                    "UNKNOWN"}
    BY DEF Outcome
  <2> QED BY <1>2, <2>1, <2>2 DEF SameView, BindingState
<1> QED BY <1>1, <1>2

\* Seen from the binding, time is all that passes below the claim.
LEMMA BelowBinds ==
    ASSUME Typed, Parts, ReleaseNext, claim' = claim
    PROVE  [PidfdBinding!Next]_PidfdBinding!vars
<1>0. SameView /\ claim.outcome["pidfd"] \in Outcome
  BY ResourceNames DEF SameView, Confirmed, Typed, TerminalClaim
<1>1. /\ BindingState' = BindingState
      /\ (claim.running = "pidfd")' = (claim.running = "pidfd")
      /\ ("pidfd" \in claim.nested)' = ("pidfd" \in claim.nested)
      /\ (claim.closes["pidfd"] = 0)' = (claim.closes["pidfd"] = 0)
  BY <1>0, SameBinding
<1>2. Confirmed("anchor") => Claimed
  BY ResourceNames DEF Confirmed, Parts, ClaimOrder, NewClaim
<1>3. ASSUME Late PROVE Late'
  <2>1. settle' = settle /\ clock' \in Nat /\ clock' >= clock /\ clock \in Nat
    BY <1>2, <1>3, DeadlineStands DEF Late, Typed
  <2>2. settle.deadline \in 0..HardLimit
    BY DEF Typed, Settlement
  <2> QED BY <1>3, <2>1, <2>2, LimitTypes DEF Late, InRelease, Confirmed
<1>4. CASE Late' <=> Late
  BY <1>1, <1>4 DEF PidfdBinding!vars, Late
<1>5. CASE ~Late /\ Late'
  BY <1>1, <1>5 DEF PidfdBinding!Next, PidfdBinding!Expires, Late
<1> QED BY <1>3, <1>4, <1>5

\* A step of the claim is a step of the binding when the pidfd or its anchor is
\* concerned, and nothing otherwise.
LEMMA ClaimBinds ==
    ASSUME Typed, Parts, ClaimNext
    PROVE  [PidfdBinding!Next]_PidfdBinding!vars
<1> DEFINE run == claim.running
<1>0. ClaimChange /\ ClaimFrame /\ claim \in TerminalClaim /\ ClaimOrder
  BY ClaimSplits DEF Typed, Parts
<1>t. /\ run \in Resources \cup {"NONE"} /\ claim.closes \in [Resources -> Nat]
      /\ claim.outcome \in [Resources -> Outcome] /\ claim.outcome["pidfd"] \in Outcome
  BY <1>0, ResourceNames DEF TerminalClaim
<1>n. /\ "NONE" \notin Resources /\ "pidfd" \in Resources /\ "anchor" \in Resources
      /\ "pidfd" # "anchor"
  BY ResourceNames
<1>i. InRelease' <=> InRelease
  BY <1>0 DEF ClaimFrame, InRelease
<1>b. "anchor" \in Before("pidfd")
  <2>1. 5 \in 1..5 /\ 6 \in 1..6 /\ Order[5] = "anchor" /\ Order[6] = "pidfd" /\ 5 < 6
    BY DEF Order
  <2> QED BY <2>1 DEF Before
<1>c. "pidfd" \in claim.attempted => Confirmed("anchor")
  BY <1>0, <1>b DEF ClaimOrder, Confirmed
<1>u. "pidfd" \notin claim.attempted =>
        /\ claim.closes["pidfd"] = 0 /\ claim.outcome["pidfd"] = "NONE" /\ "pidfd" \notin claim.nested
  BY <1>0, <1>n DEF ClaimOrder
<1>r. ASSUME run \in Resources
      PROVE  /\ run \in claim.attempted /\ claim.outcome[run] = "NONE"
             /\ claim.closes[run] = IF claim.at = "close" THEN 1 ELSE 0
             /\ SlotHeld => run \notin claim.nested
  BY <1>0, <1>n, <1>r, ResourceNames DEF ClaimOrder, SlotHeld
<1>s. ASSUME SameView PROVE UNCHANGED PidfdBinding!vars
  <2>1. Late' <=> Late
    BY <1>i, <1>s DEF SameView, Late
  <2>2. /\ BindingState' = BindingState
        /\ (claim.running = "pidfd")' = (claim.running = "pidfd")
        /\ ("pidfd" \in claim.nested)' = ("pidfd" \in claim.nested)
        /\ (claim.closes["pidfd"] = 0)' = (claim.closes["pidfd"] = 0)
    BY <1>s, <1>t, SameBinding
  <2> QED BY <2>1, <2>2 DEF PidfdBinding!vars, Late
<1>1. ASSUME NEW r \in Resources, run = "NONE", r \notin claim.attempted, Prerequisite(r),
             claim' = [claim EXCEPT !.running = r, !.at = "observe", !.release_active = r,
                                    !.attempted = @ \cup {r}]
      PROVE  [PidfdBinding!Next]_PidfdBinding!vars
  <2>1. /\ claim'.running = r /\ claim'.closes = claim.closes /\ claim'.nested = claim.nested
        /\ claim'.outcome = claim.outcome
    BY <1>0, <1>1 DEF TerminalClaim
  <2>2. Confirmed("anchor")' <=> Confirmed("anchor")
    BY <2>1 DEF Confirmed
  <2>3. CASE r # "pidfd"
    <3>1. SameView
      BY <1>1, <2>1, <2>2, <2>3 DEF SameView
    <3> QED BY <1>s, <3>1
  <2>4. CASE r = "pidfd"
    <3>1. Confirmed("anchor")
      BY <1>1, <1>b, <2>4, PrerequisiteMeans DEF Confirmed
    <3>2. BindingState = "BOUND_UNQUALIFIED"
      BY <1>1, <1>u, <2>4, <3>1 DEF BindingState
    <3>3. BindingState' = "VERIFYING_RESOURCE_BINDING"
      BY <1>1, <1>u, <2>1, <2>2, <2>4, <3>1 DEF BindingState
    <3>4. (Confirmed("anchor") /\ ~InRelease)' <=> (Confirmed("anchor") /\ ~InRelease)
      BY <1>i, <2>2
    <3> QED BY <1>1, <1>u, <2>1, <2>4, <3>2, <3>3, <3>4
        DEF PidfdBinding!Next, PidfdBinding!release_primary_once, PidfdBinding!_preflight
  <2> QED BY <2>3, <2>4
<1>2. ASSUME run \in Resources,
             claim' = [claim EXCEPT !.release_active = "POISONED", !.nested = @ \cup {run}]
      PROVE  [PidfdBinding!Next]_PidfdBinding!vars
  <2>1. /\ claim'.running = run /\ claim'.closes = claim.closes
        /\ claim'.nested = claim.nested \cup {run} /\ claim'.outcome = claim.outcome
    BY <1>0, <1>2 DEF TerminalClaim
  <2>2. Confirmed("anchor")' <=> Confirmed("anchor")
    BY <2>1 DEF Confirmed
  <2>3. CASE run # "pidfd"
    <3>1. SameView
      BY <2>1, <2>2, <2>3 DEF SameView
    <3> QED BY <1>s, <3>1
  <2>4. CASE run = "pidfd"
    <3>1. Confirmed("anchor") /\ claim.outcome["pidfd"] = "NONE"
      BY <1>2, <1>c, <1>r, <2>4
    <3>2. BindingState' = "RESOURCE_RELEASE_UNKNOWN"
      BY <2>1, <2>2, <2>4, <3>1 DEF BindingState
    <3>3. (Confirmed("anchor") /\ ~InRelease)' <=> (Confirmed("anchor") /\ ~InRelease)
      BY <1>i, <2>2
    <3> QED BY <2>1, <2>4, <3>2, <3>3 DEF PidfdBinding!Next, PidfdBinding!Reentered
  <2> QED BY <2>3, <2>4
<1>3. ASSUME run \in Resources, claim.at = "observe", SlotHeld, InRelease,
             claim' = [claim EXCEPT !.at = "close", !.closes[claim.running] = @ + 1]
      PROVE  [PidfdBinding!Next]_PidfdBinding!vars
  <2>1. /\ claim'.running = run /\ claim'.closes = [claim.closes EXCEPT ![run] = @ + 1]
        /\ claim'.nested = claim.nested /\ claim'.outcome = claim.outcome
    BY <1>0, <1>3 DEF TerminalClaim
  <2>2. Confirmed("anchor")' <=> Confirmed("anchor")
    BY <2>1 DEF Confirmed
  <2>3. CASE run # "pidfd"
    <3>1. SameView
      BY <1>3, <1>n, <1>t, <2>1, <2>2, <2>3 DEF SameView
    <3> QED BY <1>s, <3>1
  <2>4. CASE run = "pidfd"
    <3>1. /\ Confirmed("anchor") /\ claim.closes["pidfd"] = 0 /\ "pidfd" \notin claim.nested
          /\ claim.outcome["pidfd"] = "NONE"
      BY <1>3, <1>c, <1>r, <2>4
    <3>2. BindingState = "VERIFYING_RESOURCE_BINDING"
      BY <2>4, <3>1 DEF BindingState
    <3>3. claim'.closes["pidfd"] = 1
      BY <1>3, <1>t, <2>1, <2>4, <3>1
    <3>4. BindingState' = "CLOSING_PRIMARY"
      BY <2>1, <2>2, <2>4, <3>1, <3>3 DEF BindingState
    <3>5. (Confirmed("anchor") /\ ~InRelease)' <=> (Confirmed("anchor") /\ ~InRelease)
      BY <1>i, <2>2
    <3> QED BY <1>3, <2>1, <2>4, <3>1, <3>2, <3>3, <3>4, <3>5
        DEF PidfdBinding!Next, PidfdBinding!SameDescription, PidfdBinding!_preflight
  <2> QED BY <2>3, <2>4
\* A release that returns: what it does to the view of the binding.
<1>f. ASSUME run \in Resources, NEW o \in Outcome \ {"NONE"}, Finished(o)
      PROVE  /\ claim'.running = "NONE" /\ claim'.closes = claim.closes
             /\ claim'.nested = claim.nested /\ claim'.outcome[run] = o
             /\ \A r \in Resources \ {run} : claim'.outcome[r] = claim.outcome[r]
  <2>1. /\ claim'.running = "NONE" /\ claim'.closes = claim.closes
        /\ claim'.nested = claim.nested /\ claim'.outcome = [claim.outcome EXCEPT ![run] = o]
    BY <1>0, <1>f DEF TerminalClaim, Finished
  <2> QED BY <1>f, <1>t, <2>1
<1>o. {"UNKNOWN", "IDENTITY_QUARANTINED", "CONFIRMED", "CONFIRMED_LATE"} \subseteq Outcome \ {"NONE"}
  BY DEF Outcome
<1>4. ASSUME run \in Resources \ {"pidfd"}, NEW o \in Outcome \ {"NONE"}, Finished(o),
             run = "anchor" => o # "CONFIRMED"
      PROVE  UNCHANGED PidfdBinding!vars
  <2>1. Confirmed("anchor")' <=> Confirmed("anchor")
    BY <1>4, <1>f, <1>r, <1>n DEF Confirmed
  <2>2. SameView
    BY <1>4, <1>f, <1>n, <2>1 DEF SameView
  <2> QED BY <1>s, <2>2
<1>5. ASSUME run = "anchor", Finished("CONFIRMED"), InRelease
      PROVE  [PidfdBinding!Next]_PidfdBinding!vars
  <2>1. ~Confirmed("anchor") /\ Confirmed("anchor")'
    BY <1>5, <1>f, <1>r, <1>n, <1>o DEF Confirmed
  <2>2. claim'.outcome["pidfd"] = "NONE" /\ claim'.running = "NONE"
        /\ claim'.closes = claim.closes /\ claim'.nested = claim.nested
    BY <1>5, <1>c, <1>u, <1>f, <1>n, <1>o, <2>1
  <2>3. BindingState = "UNBOUND"
    BY <1>5, <1>c, <1>u, <2>1 DEF BindingState
  <2>4. BindingState' = "BOUND_UNQUALIFIED"
    BY <2>1, <2>2 DEF BindingState
  <2>5. (Confirmed("anchor") /\ ~InRelease)' <=> (Confirmed("anchor") /\ ~InRelease)
    BY <1>5, <1>i
  <2> QED BY <1>5, <2>2, <2>3, <2>4, <2>5
      DEF PidfdBinding!Next, PidfdBinding!record_exact_pidfd_binding
<1>6. ASSUME run = "pidfd", NEW o \in Outcome \ {"NONE"}, Finished(o)
      PROVE  /\ Confirmed("anchor") /\ Confirmed("anchor")' /\ claim'.running = "NONE"
             /\ claim'.closes["pidfd"] = claim.closes["pidfd"] /\ claim'.nested = claim.nested
             /\ claim'.outcome["pidfd"] = o
             /\ (Confirmed("anchor") /\ ~InRelease)' <=> (Confirmed("anchor") /\ ~InRelease)
  BY <1>6, <1>c, <1>f, <1>i, <1>n, <1>r DEF Confirmed
<1>7. ASSUME run = "pidfd", Finished("UNKNOWN") PROVE [PidfdBinding!Next]_PidfdBinding!vars
  <2>1. CASE claim.closes["pidfd"] = 0
    <3>1. BindingState' = "RESOURCE_RELEASE_UNKNOWN"
      BY <1>6, <1>7, <1>o, <2>1 DEF BindingState
    <3> QED BY <1>6, <1>7, <1>o, <2>1, <3>1 DEF PidfdBinding!Next, PidfdBinding!VerificationFails
  <2>2. CASE claim.closes["pidfd"] = 1
    <3>1. BindingState' = "PRIMARY_CLOSE_UNKNOWN"
      BY <1>6, <1>7, <1>o, <2>2 DEF BindingState
    <3> QED BY <1>6, <1>7, <1>o, <2>2, <3>1 DEF PidfdBinding!Next, PidfdBinding!CloseRaises
  <2> QED BY <1>7, <1>n, <1>r, <2>1, <2>2
<1>8. ASSUME run = "pidfd", claim.at = "observe", SlotHeld, InRelease,
             Finished("IDENTITY_QUARANTINED")
      PROVE  [PidfdBinding!Next]_PidfdBinding!vars
  <2>1. claim.closes["pidfd"] = 0 /\ "pidfd" \notin claim.nested /\ claim.outcome["pidfd"] = "NONE"
    BY <1>8, <1>n, <1>r
  <2>2. BindingState = "VERIFYING_RESOURCE_BINDING"
    BY <1>6, <1>8, <1>o, <2>1 DEF BindingState
  <2>3. BindingState' = "QUARANTINED_RESOURCE_IDENTITY"
    BY <1>6, <1>8, <1>o DEF BindingState
  <2> QED BY <1>6, <1>8, <1>o, <2>1, <2>2, <2>3
      DEF PidfdBinding!Next, PidfdBinding!DifferentDescription, PidfdBinding!_preflight
<1>9. ASSUME run = "pidfd", claim.at = "close", SlotHeld,
             \/ InRelease /\ Finished("CONFIRMED")
             \/ ~InRelease /\ Finished("CONFIRMED_LATE")
      PROVE  [PidfdBinding!Next]_PidfdBinding!vars
  <2>1. claim.closes["pidfd"] = 1 /\ "pidfd" \notin claim.nested /\ claim.outcome["pidfd"] = "NONE"
    BY <1>9, <1>n, <1>r
  <2>2. BindingState = "CLOSING_PRIMARY"
    BY <1>6, <1>9, <1>o, <2>1 DEF BindingState
  <2>3. CASE InRelease /\ Finished("CONFIRMED")
    <3>1. BindingState' = "PRIMARY_CLOSED_ANCHOR_OWNED"
      BY <1>6, <1>9, <1>o, <2>3 DEF BindingState
    <3> QED BY <1>6, <1>9, <1>o, <2>1, <2>2, <2>3, <3>1
        DEF PidfdBinding!Next, PidfdBinding!CloseReturns, PidfdBinding!_preflight
  <2>4. CASE ~InRelease /\ Finished("CONFIRMED_LATE")
    <3>1. BindingState' = "PRIMARY_CLOSED_CONFIRMED_LATE"
      BY <1>6, <1>9, <1>o, <2>4 DEF BindingState
    <3> QED BY <1>6, <1>9, <1>o, <2>1, <2>2, <2>4, <3>1
        DEF PidfdBinding!Next, PidfdBinding!CloseReturns, PidfdBinding!_preflight
  <2> QED BY <1>9, <2>3, <2>4
<1>10. ASSUME run \in Resources, Finished("UNKNOWN") PROVE [PidfdBinding!Next]_PidfdBinding!vars
  BY <1>4, <1>7, <1>10, <1>o
<1>11. ASSUME run \in Resources, claim.at = "close" \/ run = "anchor", SlotHeld, InRelease,
              Finished("CONFIRMED")
       PROVE  [PidfdBinding!Next]_PidfdBinding!vars
  <2>1. CASE run = "anchor"
    BY <1>5, <1>11, <2>1
  <2>2. CASE run = "pidfd"
    <3>1. claim.at = "close"
      BY <1>11, <2>2
    <3> QED BY <1>9, <1>11, <2>2, <3>1
  <2>3. CASE run \notin {"anchor", "pidfd"}
    BY <1>4, <1>11, <1>o, <2>3
  <2> QED BY <2>1, <2>2, <2>3
<1>12. ASSUME run \in Resources, claim.at = "close", SlotHeld, ~InRelease,
              Finished("CONFIRMED_LATE")
       PROVE  [PidfdBinding!Next]_PidfdBinding!vars
  BY <1>4, <1>9, <1>12, <1>o
<1> QED BY <1>0, <1>1, <1>2, <1>3, <1>8, <1>10, <1>11, <1>12 DEF ClaimChange

\* release_pidfd_model_once and acquire_pidfd_anchor_model_once: whatever the
\* backend answers, raises or calls back, and whenever the deadline falls, the
\* pidfd is released as ExactFDReleaseBinding releases one descriptor.
THEOREM PidfdReleaseExact == Spec => ImplementsRelease
<1>1. Init => PidfdBinding!Init
  <2>1. ASSUME Init PROVE PidfdBinding!Init
    <3>1. claim = NewClaim /\ "anchor" \in Resources /\ "pidfd" \in Resources
      BY <2>1, ResourceNames DEF Init
    <3>2. /\ claim.running = "NONE" /\ claim.nested = {} /\ claim.closes["pidfd"] = 0
          /\ claim.outcome["pidfd"] = "NONE" /\ ~Confirmed("anchor")
      BY <3>1 DEF NewClaim, Confirmed
    <3>3. BindingState = "UNBOUND"
      BY <3>2 DEF BindingState
    <3> QED BY <3>2, <3>3 DEF PidfdBinding!Init
  <2> QED BY <2>1
<1>2. PipelineInv /\ [Next]_pipelineVars => [PidfdBinding!Next]_PidfdBinding!vars
  <2>1. PipelineInv => Typed /\ Parts
    BY DEF PipelineInv, Parts
  <2>2. ASSUME PipelineInv, UNCHANGED pipelineVars PROVE UNCHANGED PidfdBinding!vars
    BY <2>2 DEF pipelineVars, releaseVars, attemptVars, PidfdBinding!vars, BindingState, Confirmed,
                InRelease
  <2> QED BY <2>1, <2>2, BelowBinds, ClaimBinds DEF Next
<1> QED BY <1>1, <1>2, PipelineInvariant, PTL DEF Spec, ImplementsRelease, PidfdBinding!Spec

=============================================================================
