----------------------------- MODULE PreGrantRun -----------------------------
(***************************************************************************)
(* A supervised run under either contract.  Under V1 the controller of     *)
(* PreGrant grants its child once.  Under V2 the same controller stays NEW *)
(* and a V2EventChain (prelive_launcher_identity_consumer) persists its    *)
(* own events over a V2JournalSessionModel, binds the launcher's identity  *)
(* (prelive_launcher_identity_model) and ends with one pre-exec authority, *)
(* which grants nothing.                                                   *)
(*                                                                         *)
(* An observation of the launcher is "A" or "B" when it agrees with the    *)
(* enrolled descriptor (they differ in the child), and "bad" otherwise.    *)
(***************************************************************************)
EXTENDS PreGrant

VARIABLES
    binding,   \* V2RequestBinding and the controller claim it carries
    session,   \* state of V2JournalSessionModel
    handle,    \* LauncherIdentityHandle: its state and what it is bound to
    chain,     \* V2EventChain; busy while an append is under way
    v2disk,    \* events the model backend holds
    launcher,  \* what an observation of the launcher would say now
    seen       \* observations taken so far

v2Vars == <<binding, session, handle, chain, v2disk, launcher, seen>>
vars == <<clock, faults, alive, journalVars, runVars, v2Vars>>

\* Nothing of the V1 side moves under V2: _require_v1_transition refuses
\* before it touches the controller.
V1Unchanged == <<worldVars, journalVars, runVars>>

ReadyStates == <<"READY_INTENT", "READY_CHILD_BOUND", "READY_EXEC_ISSUED",
                 "SEALED_MODEL_ONLY">>

\* _unarmed_observation: everything but the child is the descriptor's.
_unarmed_observation(o) == o \in {"A", "B"}

\* bind_v2_request, enroll_model and create_v2_journal_session_model.
Enrolled == [state |-> "ENROLLED_V2", claim |-> "none"]
NewIdentity == [state |-> "ENROLLED", unarmed |-> "none"]
Unclaimed == "UNCLAIMED"
FreshChain ==
    [state |-> "NONE", busy |-> FALSE, sequence |-> 0, inflight |-> FALSE,
     write_may_exist |-> FALSE, at |-> 0, consumed |-> 0]

-----------------------------------------------------------------------------
(***************************************************************************)
(* What every operation of the chain validates first.                      *)
(***************************************************************************)
_validate_binding_phase(state, identity) ==
    binding.state = state /\ handle.state = identity

\* The claim ties the binding to a controller that has done nothing yet.
_validate_controller_claim(claim) ==
    /\ binding.claim = claim /\ contract = "V2"
    /\ gate.state = "NEW" /\ channel = "WRITER_OPEN"

\* The call is made in the state it needs, and no other is under way.
_validate(state, identity) ==
    /\ chain.state = state /\ ~chain.busy /\ session = "READY"
    /\ _validate_controller_claim("used")
    /\ _validate_binding_phase("V2_EVENT_CHAIN_ACTIVE", identity)

-----------------------------------------------------------------------------
construct_and_claim_v2_controller ==
    /\ _validate_binding_phase("ENROLLED_V2", "ENROLLED")
    /\ _validate_controller_claim("none") /\ session = "UNCLAIMED"
    /\ Working
    /\ binding' = [binding EXCEPT !.claim = "fresh"]
    /\ session' = "CONTROLLER_CLAIMED"
    /\ UNCHANGED <<V1Unchanged, handle, chain, v2disk, launcher, seen>>

claim_chain == session = "CONTROLLER_CLAIMED" /\ session' = "READY"

start_v2_event_chain ==
    /\ _validate_binding_phase("ENROLLED_V2", "ENROLLED")
    /\ _validate_controller_claim("fresh")
    /\ Working
    /\ binding' = [state |-> "V2_EVENT_CHAIN_ACTIVE", claim |-> "used"]
    /\ claim_chain
    /\ chain' = [chain EXCEPT !.state = "READY_INTENT"]
    /\ UNCHANGED <<V1Unchanged, handle, v2disk, launcher, seen>>

\* Mutant: poisoning resets the append.
PoisonForgets(c) == [c EXCEPT !.state = "UNKNOWN", !.write_may_exist = FALSE]

\* _poison: an append under way may have left its event behind.
PoisonedChain(c) ==
    [c EXCEPT !.state = "UNKNOWN", !.write_may_exist = @ \/ c.inflight]

PoisonChain ==
    /\ chain' = [PoisonedChain(chain) EXCEPT !.busy = FALSE]
    /\ binding' = [binding EXCEPT !.state = "UNKNOWN_V2_EVENT_CHAIN"]

\* append_v2_model accepts the one append its chain has in flight.
append_v2_model == session = "READY" /\ session' = "BUSY"

\* _append up to its call of the backend.
_append ==
    /\ chain' = [chain EXCEPT !.state = "APPENDING", !.busy = TRUE,
                              !.inflight = TRUE, !.write_may_exist = TRUE]
    /\ append_v2_model
    /\ UNCHANGED binding

v2_persist_intent ==
    /\ _validate("READY_INTENT", "ENROLLED")
    /\ Working
    /\ _append
    /\ UNCHANGED <<V1Unchanged, handle, v2disk, launcher, seen>>

\* bind_unarmed_model: two equal observations that agree with the descriptor.
bind_unarmed_model ==
    /\ _unarmed_observation(seen.first) /\ _unarmed_observation(seen.second)
    /\ IF seen.first = seen.second
       THEN handle' = [handle EXCEPT !.state = "UNARMED_BOUND", !.unarmed = seen.first]
       ELSE handle' = [handle EXCEPT !.state = "UNKNOWN"]

persist_child_bound_fixture ==
    /\ _validate("READY_CHILD_BOUND", "ENROLLED")
    /\ seen.first # "none" /\ seen.second # "none"
    /\ Working
    /\ \/ /\ bind_unarmed_model
          /\ IF handle'.state = "UNARMED_BOUND" THEN _append
             ELSE PoisonChain /\ UNCHANGED session
       \/ /\ ~(_unarmed_observation(seen.first) /\ _unarmed_observation(seen.second))
          /\ PoisonChain
          /\ UNCHANGED <<handle, session>>
    /\ UNCHANGED <<V1Unchanged, v2disk, launcher, seen>>

persist_exec_issued ==
    /\ _validate("READY_EXEC_ISSUED", "UNARMED_BOUND")
    /\ Working
    /\ _append
    /\ UNCHANGED <<V1Unchanged, handle, v2disk, launcher, seen>>

-----------------------------------------------------------------------------
(***************************************************************************)
(* The backend stores the event and acknowledges it.                       *)
(***************************************************************************)
BackendStores ==
    /\ chain.busy /\ Len(v2disk) = chain.sequence
    /\ Working
    /\ v2disk' = Append(v2disk, EVENT_ORDER[chain.sequence + 1])
    /\ UNCHANGED <<V1Unchanged, binding, session, handle, chain, launcher, seen>>

\* The end of append_v2_model and of _append: both must find themselves as
\* they left off.
Acknowledged ==
    [chain EXCEPT !.state = ReadyStates[chain.sequence + 2], !.busy = FALSE,
                  !.inflight = FALSE, !.write_may_exist = FALSE,
                  !.sequence = @ + 1]

AppendReturns ==
    /\ chain.busy /\ Len(v2disk) = chain.sequence + 1
    /\ Working
    /\ session' = IF session = "BUSY" THEN "READY" ELSE "UNKNOWN"
    /\ IF session = "BUSY" /\ chain.state = "APPENDING"
       THEN chain' = Acknowledged /\ UNCHANGED binding
       ELSE PoisonChain
    /\ UNCHANGED <<V1Unchanged, handle, v2disk, launcher, seen>>

\* The backend raises, or returns what is no acknowledgement of this event.
AppendFails ==
    /\ chain.busy
    /\ Failing
    /\ session' \in (IF session = "BUSY" THEN {"READY", "UNKNOWN"} ELSE {"UNKNOWN"})
    /\ PoisonChain
    /\ UNCHANGED <<V1Unchanged, handle, v2disk, launcher, seen>>

\* A call out of order, or from the backend's callback.
ChainReentered ==
    /\ chain.state \notin {"NONE", "UNKNOWN"}
    /\ Failing
    /\ \/ /\ chain' = PoisonedChain(chain)
          /\ binding' = [binding EXCEPT !.state = "UNKNOWN_V2_EVENT_CHAIN"]
          /\ UNCHANGED session
       \/ session' = "UNKNOWN" /\ UNCHANGED <<chain, binding>>
    /\ UNCHANGED <<V1Unchanged, handle, v2disk, launcher, seen>>

\* An operation on a session that is no longer READY finds it so.
ChainRefused ==
    /\ ~chain.busy /\ session = "UNKNOWN" /\ chain.state \notin {"NONE", "UNKNOWN"}
    /\ Working
    /\ PoisonChain
    /\ UNCHANGED <<V1Unchanged, session, handle, v2disk, launcher, seen>>

-----------------------------------------------------------------------------
\* Mutant: any observation that agrees with the descriptor will do.
MintUnbound ==
    /\ _validate("SEALED_MODEL_ONLY", "UNARMED_BOUND") /\ seen.fresh # "none"
    /\ Working
    /\ IF InTime /\ _unarmed_observation(seen.fresh)
       THEN /\ handle' = [handle EXCEPT !.state = "MODEL_PREEXEC_VALIDATED"]
            /\ chain' = [chain EXCEPT !.state = "PREEXEC_READY", !.at = clock]
            /\ UNCHANGED binding
       ELSE PoisonChain /\ UNCHANGED handle
    /\ UNCHANGED <<V1Unchanged, session, v2disk, launcher, seen>>

(***************************************************************************)
(* The pre-exec authority.                                                 *)
(***************************************************************************)
\* The fresh observation agrees with the descriptor and is the bound one.
validate_preexec_model(o) == _unarmed_observation(o) /\ o = handle.unarmed

mint_v2_preexec_authority ==
    /\ _validate("SEALED_MODEL_ONLY", "UNARMED_BOUND") /\ seen.fresh # "none"
    /\ Working
    /\ IF ~InTime
       THEN PoisonChain /\ UNCHANGED handle
       ELSE IF validate_preexec_model(seen.fresh)
       THEN /\ handle' = [handle EXCEPT !.state = "MODEL_PREEXEC_VALIDATED"]
            /\ chain' = [chain EXCEPT !.state = "PREEXEC_READY", !.at = clock]
            /\ UNCHANGED binding
       ELSE PoisonChain /\ handle' = [handle EXCEPT !.state = "UNKNOWN"]
    /\ UNCHANGED <<V1Unchanged, session, v2disk, launcher, seen>>

consume_v2_preexec_authority ==
    /\ _validate("PREEXEC_READY", "MODEL_PREEXEC_VALIDATED")
    /\ Working
    /\ IF chain.at <= clock /\ InTime
       THEN /\ chain' = [chain EXCEPT !.state = "PREEXEC_AUTHORITY_CONSUMED",
                                      !.consumed = @ + 1, !.at = clock]
            /\ UNCHANGED binding
       ELSE PoisonChain
    /\ UNCHANGED <<V1Unchanged, session, handle, v2disk, launcher, seen>>

\* The caller observes the launcher: twice to bind it, once before exec.
Observe(slot) ==
    /\ contract = "V2" /\ seen[slot] = "none"
    /\ slot = "second" => seen.first # "none"
    /\ slot = "fresh" => handle.state = "UNARMED_BOUND"
    /\ Working
    /\ seen' = [seen EXCEPT ![slot] = launcher]
    /\ UNCHANGED <<V1Unchanged, binding, session, handle, chain, v2disk, launcher>>

\* The launcher dies and its pid is taken, or it is no longer what was enrolled.
LauncherChanges ==
    /\ contract = "V2" /\ launcher = "A"
    /\ Failing
    /\ launcher' \in {"B", "bad"}
    /\ UNCHANGED <<V1Unchanged, binding, session, handle, chain, v2disk, seen>>

V2Init ==
    /\ binding = Enrolled
    /\ session = Unclaimed
    /\ handle = NewIdentity
    /\ chain = FreshChain
    /\ v2disk = <<>>
    /\ launcher = "A"
    /\ seen = [slot \in {"first", "second", "fresh"} |-> "none"]

V2Next ==
    \/ construct_and_claim_v2_controller \/ start_v2_event_chain
    \/ v2_persist_intent \/ persist_child_bound_fixture \/ persist_exec_issued
    \/ BackendStores \/ AppendReturns \/ AppendFails \/ ChainReentered \/ ChainRefused
    \/ mint_v2_preexec_authority \/ consume_v2_preexec_authority
    \/ (\E slot \in {"first", "second", "fresh"} : Observe(slot))
    \/ LauncherChanges

-----------------------------------------------------------------------------
Init == PreGrantInit /\ V2Init /\ contract \in {"V1", "V2"}

V1Next == PreGrantNext /\ UNCHANGED v2Vars

Next == V1Next \/ V2Next

\* The supervisor's own thread and the child are scheduled, and time passes;
\* no fault has to happen.
Fairness ==
    /\ WF_vars(Supervisor /\ UNCHANGED v2Vars)
    /\ WF_vars(Child /\ UNCHANGED v2Vars)
    /\ WF_vars(Tick /\ UNCHANGED v2Vars)

Spec == Init /\ [][Next]_vars /\ Fairness

-----------------------------------------------------------------------------
GateStates == {"NEW", "PERSISTING_INTENT", "INTENT_PERSISTED", "BINDING_UNARMED",
    "PERSISTING_CHILD_BOUND", "CHILD_BOUND_PERSISTED", "PERSISTING_EXEC_ISSUED",
    "VALIDATING_GRANT", "GRANT_ATTEMPTED", "GRANT_PROTOCOL_COMPLETED", "UNKNOWN"}

\* Types, and at most one byte ever written to the grant pipe.
TypeOK ==
    /\ JournalTypeOK
    /\ contract \in {"V1", "V2"}
    /\ gate.state \in GateStates
    /\ gate.pc \in {"idle", "persist", "persisted", "spawn", "bound", "recheck", "grant"}
    /\ journal \in [state : {"READY", "PERSISTING", "SEALED_ACTIVE", "UNKNOWN"},
                    sequence : 0..3]
    /\ channel \in {"WRITER_OPEN", "ATTEMPTED", "EOF_CONFIRMED"}
    /\ ctl.reads \in 0..MAX_READS_PER_TURN /\ Len(ctl.status) <= 2
    /\ grant.sent \in 0..1 /\ Len(grant.bytes) <= grant.sent
    /\ chain.sequence \in 0..3 /\ chain.consumed \in 0..1
    /\ Len(v2disk) \in chain.sequence .. chain.sequence + 1

EventOnDisk(i) == i <= Len(disk) /\ disk[i].kind = EVENT_ORDER[i] /\ disk[i].synced

\* The payload runs only behind the whole protocol: all three events were
\* synced, in order, the child had reported ready and the channels had read
\* nothing but that, the controller had used up its one grant, and one byte
\* was written.  Fork, exec and the supervisor's death may fall anywhere.
ExecWasIssued ==
    child.at = "payload"
        => /\ \A i \in 1..3 : EventOnDisk(i)
           /\ ctl.readiness = "taken" /\ ctl.status = <<"R">>
           /\ gate.consumed /\ channel # "WRITER_OPEN" /\ grant.sent = 1

\* A completed protocol means what it says: the byte was written, no process
\* holds the grant pipe open for writing, so the child cannot miss its end of
\* file, and the journal is sealed over durable events.
CompletedIsTrue ==
    gate.state = "GRANT_PROTOCOL_COMPLETED"
        => /\ grant.sent = 1 /\ (child.at \in {"ready", "gotG", "armed"} => grant.writers = {})
           /\ journal.state = "SEALED_ACTIVE" /\ channel = "EOF_CONFIRMED"
           /\ \A i \in 1..3 : EventOnDisk(i)

\* A child is never forgotten: from the fork on the controller says that one
\* may exist, and one that is poisoned says that it must be settled and has
\* kept the evidence of a bound one.
ChildNeverForgotten ==
    child.at # "unborn"
        => /\ gate.child_may_exist /\ EventOnDisk(1)
           /\ (gate.state = "UNKNOWN" /\ gate.pc = "idle")
                => gate.settlement_required /\ (child.bound => gate.evidence)

\* What the V2 chain has not acknowledged it does not deny: an event on disk
\* beyond its sequence is covered by write_may_exist, after any failure.
WriteNeverForgotten ==
    Len(v2disk) > chain.sequence => chain.write_may_exist

\* A consumed authority was backed by the three events, by a fresh observation
\* equal to the two the launcher was bound with, and by the time left; and it
\* granted nothing.
AuthorityIsBound ==
    chain.consumed > 0
        => /\ v2disk = EVENT_ORDER
           /\ seen.fresh = seen.first /\ seen.fresh = seen.second /\ seen.fresh # "bad"
           /\ chain.at < Deadline
           /\ gate = FreshGate /\ grant.sent = 0

\* The child that is not granted ends by its own deadline, even when the
\* supervisor died or stopped caring; and no call of the controller hangs.
RunEnds ==
    /\ CanRead ~> ~CanRead
    /\ (gate.pc # "idle") ~> (gate.pc = "idle" \/ ~alive)
=============================================================================
