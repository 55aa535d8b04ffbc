---------------------------- MODULE NoGrantGraph ----------------------------
(***************************************************************************)
(* The pre-fork half of the no-grant launcher of the thick-generations     *)
(* supervisor: four pipes are allocated as one owned graph of eight        *)
(* endpoints, the graph is enrolled for closing only, it is bound to one   *)
(* request, and the INTENT record of that request is persisted and reread  *)
(* before anything may fork.                                               *)
(*                                                                         *)
(* One launcher process, one thread.  A failing system call is a fault:    *)
(* the code never retries it, it poisons what it was working on.  The      *)
(* launcher may die at any step; the kernel then closes its descriptors.   *)
(***************************************************************************)
EXTENDS Integers, Sequences, FiniteSets

CONSTANTS
    Deadline,       \* unarmed_deadline_ns of the request, in model ticks
    CleanupBudget,  \* cleanup_ms of the request, in model ticks
    MaxFaults       \* bound: failing system calls in one behaviour

ASSUME BoundsAssumption ==
    /\ Deadline \in Nat \ {0}
    /\ CleanupBudget \in Nat \ {0}
    /\ MaxFaults \in Nat

VARIABLES
    clock,    \* CLOCK_MONOTONIC
    faults,   \* system calls that failed so far
    alive,    \* the launcher process exists
    fds,      \* descriptors each process really holds
    pipe,     \* bytes in each pipe, as tokens
    graph,    \* RealFDHandle
    enrol,    \* AllocatedNoGrantGraphEnrollment and its capabilities
    record    \* exact-event-000001.json in the journal directory

graphVars == <<fds, pipe, graph, enrol, record>>

Pipes == {"grant", "status", "stdout", "stderr"}

\* The endpoint that writes into a pipe, and the one that reads it.
Writer(p) ==
    CASE p = "grant"  -> "grant_parent"
      [] p = "status" -> "status_child"
      [] p = "stdout" -> "stdout_child"
      [] p = "stderr" -> "stderr_child"
Reader(p) ==
    CASE p = "grant"  -> "grant_child"
      [] p = "status" -> "status_parent"
      [] p = "stdout" -> "stdout_parent"
      [] p = "stderr" -> "stderr_parent"

ParentEnds == {"grant_parent", "status_parent", "stdout_parent", "stderr_parent"}
ChildEnds == {"grant_child", "status_child", "stdout_child", "stderr_child"}
Roles == ParentEnds \cup ChildEnds

\* The launcher, its child, and any other process that reopened a write end
\* of the child through /proc.
Procs == {"launcher", "child", "holder"}

\* read() returns 0 only when the pipe is empty and no process writes to it.
Eof(p) == pipe[p] = <<>> /\ \A q \in Procs : Writer(p) \notin fds[q]
HasReader(p) == \E q \in Procs : Reader(p) \in fds[q]

CanFail == faults < MaxFaults
Failing == CanFail /\ faults' = faults + 1
Working == UNCHANGED faults

InTime == clock < Deadline

HardLimit == Deadline + CleanupBudget

-----------------------------------------------------------------------------
(***************************************************************************)
(* RealFDHandle.  "owned" is what the handle believes it still holds,      *)
(* "closes" the roles whose one close was attempted, "lost" those whose    *)
(* descriptor was no longer the allocated object and was left alone.       *)
(***************************************************************************)
FreshHandle ==
    [state |-> "FD_GRAPH_READY", owned |-> Roles, lost |-> {}, closes |-> {},
     claimed |-> FALSE]

Poisoned(g) == g.state = "UNKNOWN_FD_GRAPH"

allocate_real_fd_graph ==
    /\ alive /\ graph.state = "UNALLOCATED"
    /\ Working
    /\ graph' = FreshHandle
    /\ fds' = [fds EXCEPT !["launcher"] = Roles]
    /\ UNCHANGED <<clock, alive, pipe, enrol, record>>

\* An allocation that fails closes each descriptor it got, once, and leaves
\* alone (quarantines) the ones it no longer recognises.
AllocationRefusal ==
    /\ alive /\ graph.state = "UNALLOCATED"
    /\ Failing
    /\ graph' = [graph EXCEPT !.state = "ALLOCATION_REFUSED"]
    /\ \E quarantined \in {{}, {"grant_child"}, ChildEnds} :
            fds' = [fds EXCEPT !["launcher"] = quarantined]
    /\ UNCHANGED <<clock, alive, pipe, enrol, record>>

claim_close_only_once(g) == [g EXCEPT !.claimed = TRUE]

\* validate(): the handle is not poisoned and every role it owns is open.
GraphIntact(g) ==
    /\ ~Poisoned(g) /\ g.state # "FD_GRAPH_CLOSED"
    /\ g.lost = {}
    /\ g.owned \subseteq fds["launcher"]
    /\ Roles \ g.owned \subseteq g.closes

GraphFresh(g) == GraphIntact(g) /\ g.owned = Roles /\ g.closes = {}

\* Ownership is given up before the one close(2); whatever close returns, it
\* is never tried again.
CloseConfirmed(g, role) ==
    [g EXCEPT !.closes = @ \cup {role}, !.owned = @ \ {role},
              !.state = IF g.owned = {role} /\ ~Poisoned(g)
                        THEN "FD_GRAPH_CLOSED" ELSE @]

CloseUnknown(g, role) ==
    [g EXCEPT !.closes = @ \cup {role}, !.owned = @ \ {role},
              !.state = "UNKNOWN_FD_GRAPH"]

\* Mutant: a descriptor that is another object by now is left alone, unnoted.
CloseTargetDropped(g, role) == CloseUnknown(g, role)

CloseTargetLost(g, role) ==
    [CloseUnknown(g, role) EXCEPT !.lost = @ \cup {role}]

close_role_once(role) ==
    /\ role \in graph.owned \ graph.closes
    /\ Working
    /\ graph' = CloseConfirmed(graph, role)
    /\ fds' = [fds EXCEPT !["launcher"] = @ \ {role}]

CloseRoleFails(role) ==
    /\ role \in graph.owned \ graph.closes
    /\ Failing
    /\ \/ /\ graph' = CloseUnknown(graph, role)
          /\ fds' = [fds EXCEPT !["launcher"] = @ \ {role}]
       \/ /\ graph' = CloseTargetLost(graph, role)
          /\ UNCHANGED fds

\* read_nonblocking: one token, EOF, or EAGAIN.
ReadKind(p) == IF pipe[p] # <<>> THEN "DATA" ELSE IF Eof(p) THEN "EOF" ELSE "EAGAIN"

-----------------------------------------------------------------------------
(***************************************************************************)
(* Enrollment, binding, persistence.  "domain" is "NONE", or the state of  *)
(* the AllocatedDescendantEnrollment composed with the graph; "ticket"     *)
(* tells whether the one fork ticket was used; "backend" is the exact      *)
(* journal file backend under the INTENT bridge.                           *)
(***************************************************************************)
NewEnrollment ==
    [state |-> "NONE", domain |-> "NONE", bound |-> "NONE", bridge |-> "READY",
     backend |-> "READY", ticket |-> FALSE]

\* _poison of the enrollment takes the domain enrollment with it.
PoisonEnrollment(e) ==
    [e EXCEPT !.state = "UNKNOWN",
              !.domain = IF @ = "NONE" THEN @ ELSE "UNKNOWN"]

enroll_allocated_no_grant_graph ==
    /\ alive /\ enrol.state = "NONE" /\ graph.state = "FD_GRAPH_READY"
    /\ Working
    /\ GraphFresh(graph)
    /\ graph' = claim_close_only_once(graph)
    /\ enrol' = [enrol EXCEPT !.state = "GRAPH_ENROLLED"]
    /\ UNCHANGED <<clock, alive, fds, pipe, record>>

\* A failed claim leaves the handle poisoned and no enrollment object.
EnrollmentRefused ==
    /\ alive /\ enrol.state = "NONE" /\ graph.state = "FD_GRAPH_READY"
    /\ Failing
    /\ graph' = [claim_close_only_once(graph) EXCEPT !.state = "UNKNOWN_FD_GRAPH"]
    /\ UNCHANGED <<clock, alive, fds, pipe, enrol, record>>

\* The domain's deadline is frozen at Deadline + CleanupBudget.
enroll_allocated_descendant_domain ==
    /\ alive /\ enrol.state = "GRAPH_ENROLLED" /\ enrol.domain = "NONE"
    /\ Working
    /\ enrol' = IF InTime /\ GraphFresh(graph)
                THEN [enrol EXCEPT !.domain = "READY"]
                ELSE PoisonEnrollment(enrol)
    /\ UNCHANGED <<clock, alive, fds, pipe, graph, record>>

\* The INTENT the caller brings: no closed event at all, one of another
\* request, owner, deadline or graph, or the event of this one.
IntentBytes == {"malformed", "foreign", "exact"}
_strict_event(raw) == raw # "malformed"
encode_v2_intent == "exact"

BoundNoGrantIntentCapability(e) == [e EXCEPT !.state = "BOUND", !.bound = "BOUND"]

bind_once ==
    /\ alive /\ enrol.state = "GRAPH_ENROLLED"
    /\ Working
    /\ \E intent \in IntentBytes :
        enrol' = IF /\ InTime /\ GraphFresh(graph)
                    /\ _strict_event(intent) /\ intent = encode_v2_intent
                 THEN BoundNoGrantIntentCapability(enrol)
                 ELSE PoisonEnrollment(enrol)
    /\ UNCHANGED <<clock, alive, fds, pipe, graph, record>>

BindRefused ==
    /\ alive /\ enrol.state = "GRAPH_ENROLLED"
    /\ Failing
    /\ enrol' = PoisonEnrollment(enrol)
    /\ UNCHANGED <<clock, alive, fds, pipe, graph, record>>

-----------------------------------------------------------------------------
(***************************************************************************)
(* The INTENT record: created with O_EXCL, written, file and directory     *)
(* synced, closed, then reread independently through a fresh descriptor.   *)
(* Contents "absent", "partial" or "exact"; "synced" once both fsyncs      *)
(* returned; "root" tells whether the directory of that name is still the  *)
(* one the bridge was made for.                                            *)
(***************************************************************************)
NoRecord == [content |-> "absent", synced |-> FALSE, root |-> "exact"]

\* The name still leads to the directory that is held open.
_verify_namespace == record.root = "exact"

NotPersisted(e) == [PoisonEnrollment(e) EXCEPT !.bound = "UNKNOWN"]
BridgeRefuses(e) == [NotPersisted(e) EXCEPT !.bridge = "UNKNOWN"]
BackendRefuses(e) == [BridgeRefuses(e) EXCEPT !.backend = "UNKNOWN"]

\* A call after the deadline is refused before it touches anything.
persist_bound_intent_once ==
    /\ alive /\ enrol.bound = "BOUND" /\ enrol.state = "BOUND" /\ InTime
    /\ Working
    /\ enrol' = IF GraphFresh(graph)
                THEN [enrol EXCEPT !.bound = "PERSISTING", !.bridge = "PERSISTING",
                                   !.backend = "PERSISTING"]
                ELSE NotPersisted(enrol)
    /\ UNCHANGED <<clock, alive, fds, pipe, graph, record>>

\* Another directory takes the journal's name, until the record is sealed.
RootReplaced ==
    /\ alive /\ enrol.bridge \in {"READY", "PERSISTING"} /\ _verify_namespace
    /\ Failing
    /\ record' = [record EXCEPT !.root = "foreign"]
    /\ UNCHANGED <<clock, alive, fds, pipe, graph, enrol>>

CreateRecord ==
    /\ alive /\ enrol.backend = "PERSISTING" /\ record.content = "absent"
    /\ Working
    /\ IF _verify_namespace
       THEN record' = [record EXCEPT !.content = "partial"] /\ UNCHANGED enrol
       ELSE enrol' = BackendRefuses(enrol) /\ UNCHANGED record
    /\ UNCHANGED <<clock, alive, fds, pipe, graph>>

WriteAll ==
    /\ alive /\ enrol.backend = "PERSISTING" /\ record.content = "partial"
    /\ Working
    /\ record' = [record EXCEPT !.content = "exact"]
    /\ UNCHANGED <<clock, alive, fds, pipe, graph, enrol>>

\* Mutant: acknowledged once the bytes are written, without the fsyncs.
PersistUnsynced ==
    /\ alive /\ enrol.backend = "PERSISTING" /\ record.content = "exact"
    /\ Working
    /\ enrol' = [enrol EXCEPT !.backend = "READY"]
    /\ UNCHANGED <<clock, alive, fds, pipe, graph, record>>

\* fsync of the record and of its directory, close, and the named recheck.
persist_exact_file ==
    /\ alive /\ enrol.backend = "PERSISTING" /\ record.content = "exact"
    /\ Working
    /\ record' = [record EXCEPT !.synced = TRUE]
    /\ enrol' = IF _verify_namespace THEN [enrol EXCEPT !.backend = "READY"]
                ELSE BackendRefuses(enrol)
    /\ UNCHANGED <<clock, alive, fds, pipe, graph>>

\* Through the directory's name, with fresh descriptors.
_independent_reread == _verify_namespace /\ record.content = "exact"

\* The backend's acknowledgement, the reread and the bridge's seal.
SealIntent ==
    /\ alive /\ enrol.bridge = "PERSISTING" /\ enrol.backend = "READY"
    /\ Working
    /\ enrol' = IF _independent_reread
                THEN [enrol EXCEPT !.bridge = "SEALED_INTENT"]
                ELSE BridgeRefuses(enrol)
    /\ UNCHANGED <<clock, alive, fds, pipe, graph, record>>

\* The receipt is the one of a sealed bridge and names this request's record.
_strict_persistence_receipt ==
    enrol.bridge = "SEALED_INTENT" /\ record.content = encode_v2_intent

PersistedNoGrantIntentCapability ==
    /\ alive /\ enrol.bound = "PERSISTING" /\ enrol.backend = "READY"
    /\ _strict_persistence_receipt
    /\ Working
    /\ enrol' = IF GraphFresh(graph) THEN [enrol EXCEPT !.bound = "PERSISTED"]
                ELSE NotPersisted(enrol)
    /\ UNCHANGED <<clock, alive, fds, pipe, graph, record>>

\* Any error while persisting: the record may or may not be there, in full or
\* in part, and nothing looks at it again.
PersistFails ==
    /\ alive /\ enrol.bound = "PERSISTING"
    /\ Failing
    /\ enrol' = CASE enrol.bridge = "SEALED_INTENT" -> NotPersisted(enrol)
                  [] enrol.bridge # "SEALED_INTENT" /\ enrol.backend = "READY" ->
                        BridgeRefuses(enrol)
                  [] enrol.backend = "PERSISTING" -> BackendRefuses(enrol)
    /\ UNCHANGED <<clock, alive, fds, pipe, graph, record>>

GraphInit ==
    /\ clock = 0 /\ faults = 0 /\ alive = TRUE
    /\ fds = [q \in Procs |-> {}]
    /\ pipe = [p \in Pipes |-> <<>>]
    /\ graph = [FreshHandle EXCEPT !.state = "UNALLOCATED", !.owned = {}]
    /\ enrol = NewEnrollment
    /\ record = NoRecord

GraphNext ==
    \/ allocate_real_fd_graph \/ AllocationRefusal
    \/ enroll_allocated_no_grant_graph \/ EnrollmentRefused
    \/ enroll_allocated_descendant_domain
    \/ bind_once \/ BindRefused
    \/ persist_bound_intent_once \/ CreateRecord \/ WriteAll
    \/ persist_exact_file \/ SealIntent \/ PersistedNoGrantIntentCapability
    \/ PersistFails \/ RootReplaced

GraphTypeOK ==
    /\ clock \in Nat /\ faults \in 0..MaxFaults /\ alive \in BOOLEAN
    /\ fds \in [Procs -> SUBSET Roles]
    /\ pipe \in [Pipes -> Seq({"R", "C", "x"})]
    /\ graph \in [state : {"UNALLOCATED", "ALLOCATION_REFUSED", "FD_GRAPH_READY",
                           "FD_GRAPH_CLOSED", "UNKNOWN_FD_GRAPH"},
                  owned : SUBSET Roles, lost : SUBSET Roles, closes : SUBSET Roles,
                  claimed : BOOLEAN]
    /\ enrol \in [state : {"NONE", "GRAPH_ENROLLED", "BOUND", "UNKNOWN"},
                  domain : {"NONE", "READY", "FORKED", "ATTACHED_HARD_LIMIT_ONLY",
                            "DEADLINE_BINDING", "DEADLINE_BOUND_NON_DRAINABLE",
                            "DRAIN_TRANSFERRING", "ALLOCATED_DRAIN_READY",
                            "DESCENDANT_STEP_ADVANCING", "ALLOCATED_STEP_NONQUALIFIED",
                            "ALLOCATED_MODEL_DOMAIN_DRAINED_NONQUALIFIED", "UNKNOWN"},
                  bound : {"NONE", "BOUND", "PERSISTING", "PERSISTED", "CLAIMED",
                           "UNKNOWN"},
                  bridge : {"READY", "PERSISTING", "SEALED_INTENT", "UNKNOWN"},
                  backend : {"READY", "PERSISTING", "UNKNOWN"},
                  ticket : BOOLEAN]
    /\ record \in [content : {"absent", "partial", "exact"}, synced : BOOLEAN,
                   root : {"exact", "foreign"}]
=============================================================================
