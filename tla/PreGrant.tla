------------------------------ MODULE PreGrant ------------------------------
(***************************************************************************)
(* The one-shot grant of a supervised run: PreGrantController and its      *)
(* JournalSessionModel (prelive_pregrant_composition) over the exact       *)
(* journal, ControlChannels (prelive_control_channels) on the control      *)
(* pipes, and the unarmed child of prelive-supervisor-fixture, which execs *)
(* its payload when it has read one byte G and then end of file.           *)
(*                                                                         *)
(* The supervisor is one thread; its callbacks may call back into it, and  *)
(* then the outer call goes on with an UNKNOWN controller.  The child runs *)
(* on its own, and the supervisor may die at any moment, which closes its  *)
(* end of the grant pipe.                                                  *)
(***************************************************************************)
EXTENDS ExactJournal

CONSTANT MAX_READS_PER_TURN

ASSUME ReadsAssumption == MAX_READS_PER_TURN \in Nat \ {0}

VARIABLES
    contract,  \* "V1" or "V2": which journal the controller was built on
    gate,      \* PreGrantController; pc is where the call under way stands
    journal,   \* JournalSessionModel
    channel,   \* phase of ModelGrantChannel
    ctl,       \* ControlChannels
    child,     \* the forked launcher
    grant,     \* the grant pipe: bytes in it, all ever written, who can write
    status     \* the status pipe: bytes in it, who can write

gateVars == <<gate, journal, channel>>
kidVars == <<child, grant, status>>
runVars == <<contract, gate, journal, channel, ctl, child, grant, status>>

FreshGate ==
    [state |-> "NEW", pc |-> "idle", child_may_exist |-> FALSE,
     settlement_required |-> FALSE, evidence |-> FALSE, consumed |-> FALSE,
     permit |-> "none"]

\* _poison: whatever it was, the controller is UNKNOWN, and a child that may
\* exist must be settled.
_poison(g) ==
    [g EXCEPT !.state = "UNKNOWN",
              !.settlement_required = @ \/ g.child_may_exist]

\* The handler every operation ends in; _capture_owned_evidence included.
Unwinds(g) == [_poison(g) EXCEPT !.pc = "idle", !.evidence = @ \/ child.bound]

Enters(expected) ==
    /\ alive /\ contract = "V1" /\ gate.pc = "idle" /\ gate.state = expected

\* A step of the call under way, in the state it was entered with.
At(pc, state) == alive /\ gate.pc = pc /\ gate.state = state

HasExited == child.at \in {"exited", "dead"}
CanRead == child.at \in {"forked", "ready", "gotG", "armed"}

-----------------------------------------------------------------------------
(***************************************************************************)
(* What the controller validates before it goes on.                        *)
(***************************************************************************)
\* _owner and _clock: the process that was enrolled, before its deadline.
OwnerAndClock == alive /\ InTime

\* The identity of CHILD_BOUND is that of a child some pidfd holds.
_validate_owned_identity == child.bound

\* _event_payload: an event is built from the ones before it, and CHILD_BOUND
\* from the binding of a child.
_event_payload(kind) ==
    CASE kind = "INTENT" -> TRUE
      [] kind = "CHILD_BOUND" -> _validate_owned_identity /\ journal.sequence >= 1
      [] kind = "EXEC_ISSUED" -> journal.sequence >= 2

\* The journal asks the controller again when it is given the payload.
_validate_event_payload(kind) ==
    journal.sequence < 3 /\ kind = EVENT_ORDER[journal.sequence + 1]

\* Three capabilities of this journal, over a bound child, and a grant channel
\* in the phase the latch says.
_validate_chain(g, phase) ==
    /\ journal.sequence = 3 /\ _validate_owned_identity
    /\ IF g.consumed THEN phase \in {"ATTEMPTED", "EOF_CONFIRMED"}
                     ELSE phase = "WRITER_OPEN"

_validate_permit(g) == g.permit = "used" /\ g.consumed

(***************************************************************************)
(* JournalSessionModel.persist, around the record the backend writes; a    *)
(* journal or a session that is not READY is UNKNOWN afterwards.           *)
(***************************************************************************)
persist(kind, state) ==
    \/ /\ journal.state = "READY" /\ _validate_event_payload(kind)
       /\ append_exact_event(kind)
       /\ journal' = [journal EXCEPT !.state = "PERSISTING"]
       /\ gate' = [gate EXCEPT !.state = state, !.pc = "persist"]
    \/ /\ journal.state # "READY" \/ adapter.state # "READY"
       /\ journal' = [journal EXCEPT !.state = "UNKNOWN"]
       /\ IF journal.state = "READY" THEN RefuseAppend ELSE UNCHANGED <<adapter, backend>>
       /\ gate' = Unwinds(gate)

\* The acknowledged event is the next one of the session.
PersistedEventCapability == [state |-> "READY", sequence |-> journal.sequence + 1]

PersistReturns ==
    /\ alive /\ gate.pc = "persist" /\ ~Writing
    /\ Working
    /\ IF /\ adapter.state = "READY" /\ journal.state = "PERSISTING"
          /\ gate.state \in {"PERSISTING_INTENT", "PERSISTING_CHILD_BOUND",
                             "PERSISTING_EXEC_ISSUED"}
       THEN /\ journal' = PersistedEventCapability
            /\ gate' = [gate EXCEPT !.pc = "persisted"]
       ELSE /\ journal' = [journal EXCEPT !.state = "UNKNOWN"]
            /\ gate' = Unwinds(gate)
    /\ UNCHANGED <<worldVars, journalVars, contract, channel, ctl, kidVars>>

\* Entering an operation that persists: owner and clock, then the append.
EntersPersisting(kind, state) ==
    IF OwnerAndClock /\ _event_payload(kind)
    THEN persist(kind, state) /\ UNCHANGED <<disk, verdict>>
    ELSE /\ gate' = Unwinds(gate)
         /\ UNCHANGED <<journal, journalVars>>

\* Leaving it: still the state it entered with, owner and clock again.
Leaves(busy, state, pc) ==
    /\ alive /\ gate.pc = "persisted"
    /\ gate.state \in {busy, "UNKNOWN"}
    /\ journal.state = "READY"
    /\ Working
    /\ gate' = IF gate.state = busy /\ OwnerAndClock
               THEN [gate EXCEPT !.state = state, !.pc = pc]
               ELSE Unwinds(gate)
    /\ UNCHANGED <<worldVars, journalVars, contract, journal, channel, ctl, kidVars>>

persist_intent ==
    /\ Enters("NEW")
    /\ Working
    /\ EntersPersisting("INTENT", "PERSISTING_INTENT")
    /\ UNCHANGED <<worldVars, contract, channel, ctl, kidVars>>

IntentPersisted ==
    journal.sequence = 1 /\ Leaves("PERSISTING_INTENT", "INTENT_PERSISTED", "idle")

-----------------------------------------------------------------------------
\* Mutant: the latches are left to whoever sees the child.
PrepareUnlatched ==
    /\ Enters("INTENT_PERSISTED")
    /\ Working
    /\ gate' = IF OwnerAndClock
               THEN [gate EXCEPT !.state = "BINDING_UNARMED", !.pc = "spawn"]
               ELSE Unwinds(gate)
    /\ UNCHANGED <<worldVars, journalVars, contract, journal, channel, ctl, kidVars>>

(***************************************************************************)
(* prepare_and_bind_unarmed: both latches are set before the launcher      *)
(* callback forks.                                                         *)
(***************************************************************************)
prepare_and_bind_unarmed ==
    /\ Enters("INTENT_PERSISTED")
    /\ Working
    /\ gate' = IF OwnerAndClock
               THEN [gate EXCEPT !.state = "BINDING_UNARMED", !.pc = "spawn",
                                 !.child_may_exist = TRUE,
                                 !.settlement_required = TRUE]
               ELSE Unwinds(gate)
    /\ UNCHANGED <<worldVars, journalVars, contract, journal, channel, ctl, kidVars>>

\* fork; the child has every descriptor the supervisor has.
spawn_unarmed ==
    /\ alive /\ gate.pc = "spawn" /\ child.at = "unborn"
    /\ Working
    /\ child' = [child EXCEPT !.at = "forked"]
    /\ grant' = [grant EXCEPT !.writers = @ \cup {"child"}]
    /\ status' = [status EXCEPT !.writers = @ \cup {"child"}]
    /\ UNCHANGED <<worldVars, journalVars, contract, gateVars, ctl>>

\* The parent closes the child's ends and binds the pidfd; a child that has
\* already exited is still there to bind.
BindsPidfd ==
    /\ alive /\ gate.pc = "spawn" /\ child.at # "unborn" /\ ~child.bound
    /\ Working
    /\ child' = [child EXCEPT !.bound = TRUE]
    /\ status' = [status EXCEPT !.writers = @ \ {"supervisor"}]
    /\ UNCHANGED <<worldVars, journalVars, contract, gate, journal, channel, ctl, grant>>

\* The launcher callback returns with a bound child, whose evidence is kept.
_capture_owned_evidence ==
    /\ alive /\ gate.pc = "spawn" /\ child.bound
    /\ Working
    /\ gate' = [gate EXCEPT !.pc = "bound", !.evidence = TRUE]
    /\ UNCHANGED <<worldVars, journalVars, contract, journal, channel, ctl, kidVars>>

\* The launcher callback fails or returns something else: before the fork, after
\* it, or with the pidfd already bound.
SpawnFails ==
    /\ alive /\ gate.pc = "spawn"
    /\ Failing
    /\ gate' = Unwinds(gate)
    /\ status' \in {status, [status EXCEPT !.writers = @ \ {"supervisor"}]}
    /\ UNCHANGED <<worldVars, journalVars, contract, journal, channel, ctl, child, grant>>

\* The binding is validated and becomes the LaunchBinding of CHILD_BOUND.
PersistsChildBound ==
    /\ alive /\ gate.pc = "bound"
    /\ Working
    /\ IF gate.state = "BINDING_UNARMED"
       THEN EntersPersisting("CHILD_BOUND", "PERSISTING_CHILD_BOUND")
       ELSE gate' = Unwinds(gate) /\ UNCHANGED <<journal, journalVars>>
    /\ UNCHANGED <<worldVars, contract, channel, ctl, kidVars>>

ChildBoundPersisted ==
    /\ journal.sequence = 2
    /\ Leaves("PERSISTING_CHILD_BOUND", "CHILD_BOUND_PERSISTED", "idle")

-----------------------------------------------------------------------------
(***************************************************************************)
(* ControlChannels.  "status" is every status byte it has read.            *)
(***************************************************************************)
Unbound ==
    [state |-> "NONE", prior |-> "NONE", attached |-> FALSE, status |-> <<>>,
     reads |-> 0, drain |-> "none", readiness |-> "none", attempted |-> FALSE,
     written |-> FALSE, closed |-> FALSE, owned |-> TRUE]

NewChannels == [Unbound EXCEPT !.state = "WAITING_READY"]

PoisonedChannels(c) == [c EXCEPT !.state = "UNKNOWN"]

\* The clock of the channels, which no UNKNOWN channels read.
_clock(c) == c.state # "UNKNOWN" /\ InTime

\* The graph that was frozen at the binding, and latches that never go back.
_validate_frozen_authority(c) ==
    /\ c.state # "UNKNOWN" /\ alive /\ child.bound
    /\ (c.written => c.attempted) /\ (c.closed => c.written)

\* The supervisor's descriptors are the enrolled ones, the grant's while owned.
_observe_authority(c) ==
    _validate_frozen_authority(c) /\ (c.owned => "supervisor" \in grant.writers)

CtlUnchanged == <<worldVars, journalVars, contract, journal, channel, child, grant>>

bind_parent_control ==
    /\ alive /\ gate.pc = "idle" /\ child.bound /\ ctl.state = "NONE"
    /\ gate.state = "CHILD_BOUND_PERSISTED"
    /\ \/ /\ Working
          /\ ctl' = IF _observe_authority(NewChannels) THEN NewChannels
                    ELSE PoisonedChannels(NewChannels)
       \/ Failing /\ ctl' = PoisonedChannels(NewChannels)
    /\ UNCHANGED <<CtlUnchanged, gate, status>>

attach_pregrant_controller ==
    /\ alive /\ gate.state = "CHILD_BOUND_PERSISTED" /\ gate.pc = "idle"
    /\ ctl.state # "NONE" /\ ~ctl.attached
    /\ Working
    /\ ctl' = [ctl EXCEPT !.attached = TRUE]
    /\ UNCHANGED <<CtlUnchanged, gate, status>>

read_status_turn ==
    /\ alive /\ gate.pc = "idle" /\ ctl.state \in {"WAITING_READY", "READY_OBSERVED"}
    /\ ~gate.consumed
    /\ Working
    /\ ctl' = [ctl EXCEPT !.state = "READING_STATUS", !.prior = ctl.state,
                          !.reads = 0, !.drain = "reading"]
    /\ UNCHANGED <<CtlUnchanged, gate, status>>

\* What one observation of the status pipe does to the channels.
_apply_status(c, kind) ==
    LET seen == c.status \o status.bytes IN
    CASE kind = "DATA" /\ Head(seen) = "E" ->
            [c EXCEPT !.status = seen, !.drain = "error"]
      [] kind = "DATA" /\ Head(seen) # "E" ->
            IF seen = <<"R">> THEN [c EXCEPT !.status = seen]
            ELSE [PoisonedChannels(c) EXCEPT !.status = seen]
      [] kind = "EOF" -> PoisonedChannels(c)
      [] kind = "EAGAIN" ->
            IF c.status = <<"R">> THEN [c EXCEPT !.drain = "ready"] ELSE c
      [] kind = "HUP" -> c

StatusKinds ==
    IF status.bytes # <<>> THEN {"DATA"}
    ELSE IF status.writers = {} THEN {"EOF", "HUP"} ELSE {"EAGAIN"}

Draining == ctl.state \in {"READING_STATUS", "VALIDATING_GRANT"} /\ ctl.drain = "reading"

\* One read of _drain, clock and authority before and after it.
_drain ==
    /\ alive /\ Draining /\ ctl.reads < MAX_READS_PER_TURN
    /\ Working
    /\ \E kind \in StatusKinds :
        LET next == [(IF _clock(ctl) /\ _observe_authority(ctl)
                      THEN _apply_status(ctl, kind) ELSE PoisonedChannels(ctl))
                        EXCEPT !.reads = @ + 1] IN
        /\ ctl' = next
        /\ status' = [status EXCEPT !.bytes = <<>>]
        /\ gate' = IF ctl.state = "VALIDATING_GRANT" /\ next.state = "UNKNOWN"
                   THEN Unwinds(gate) ELSE gate
    /\ UNCHANGED CtlUnchanged

TurnEnds ==
    /\ alive /\ ctl.state = "READING_STATUS"
    /\ ctl.drain # "reading" \/ ctl.reads = MAX_READS_PER_TURN
    /\ Working
    /\ ctl' = [ctl EXCEPT
                !.state = CASE ctl.drain = "error" -> "ERROR_SEEN"
                            [] ctl.drain = "ready" -> "READY_OBSERVED"
                            [] OTHER -> ctl.prior,
                !.readiness = IF ctl.drain = "ready" /\ @ = "none" THEN "minted" ELSE @]
    /\ UNCHANGED <<CtlUnchanged, gate, status>>

take_readiness_once ==
    /\ alive /\ gate.pc = "idle"
    /\ ctl.state = "READY_OBSERVED" /\ ctl.readiness = "minted"
    /\ Working
    /\ ctl' = [ctl EXCEPT !.readiness = "taken"]
    /\ UNCHANGED <<CtlUnchanged, gate, status>>

-----------------------------------------------------------------------------
(***************************************************************************)
(* issue_grant_once, of the controller and inside it of the channels.      *)
(***************************************************************************)
issue_grant_once ==
    /\ Enters("CHILD_BOUND_PERSISTED")
    /\ ctl.state # "READING_STATUS"
    /\ Working
    /\ EntersPersisting("EXEC_ISSUED", "PERSISTING_EXEC_ISSUED")
    /\ UNCHANGED <<worldVars, contract, channel, ctl, kidVars>>

ExecIssuedPersisted ==
    /\ journal.sequence = 3 /\ journal.state = "READY"
    /\ Leaves("PERSISTING_EXEC_ISSUED", "VALIDATING_GRANT", "recheck")

\* The channels accept only a controller they are attached to, after readiness
\* was taken, once.
GrantAvailable ==
    ctl.state = "READY_OBSERVED" /\ ctl.readiness = "taken" /\ ~ctl.attempted /\ ctl.attached

\* The launcher is still there, unarmed, and its grant channel is the one bound.
recheck_unarmed_model == ~HasExited /\ child.bound /\ channel = "WRITER_OPEN"

\* One permit, made from the three events and the binding.
OneShotGrantPermit(g) ==
    [g EXCEPT !.state = "GRANT_ATTEMPTED", !.consumed = TRUE, !.permit = "used", !.pc = "grant"]

begin_attempt == channel = "WRITER_OPEN" /\ channel' = "ATTEMPTED"
confirm_eof == channel = "ATTEMPTED" /\ channel' = "EOF_CONFIRMED"

\* seal_active: the whole chain, and nothing after it.
seal_active ==
    /\ journal.state = "READY" /\ journal.sequence = 3
    /\ journal' = [journal EXCEPT !.state = "SEALED_ACTIVE"]

\* recheck_unarmed_model, the permit, _validate_chain and the journal's seal;
\* then the permit and the channel are used up before anything is written.
SealsForGrant ==
    /\ alive /\ gate.pc = "recheck"
    /\ Working
    /\ IF /\ At("recheck", "VALIDATING_GRANT") /\ OwnerAndClock
          /\ recheck_unarmed_model /\ _validate_chain(gate, channel)
       THEN /\ seal_active
            /\ begin_attempt
            /\ ctl' = IF GrantAvailable
                      THEN [ctl EXCEPT !.state = "VALIDATING_GRANT", !.reads = 0,
                                       !.drain = "reading"]
                      ELSE IF ctl.state = "NONE" THEN ctl ELSE PoisonedChannels(ctl)
            /\ LET used == OneShotGrantPermit(gate)
               IN  gate' = IF GrantAvailable THEN used ELSE Unwinds(used)
       ELSE gate' = Unwinds(gate) /\ UNCHANGED <<journal, channel, ctl>>
    /\ UNCHANGED <<worldVars, journalVars, contract, kidVars>>

\* The controller that is attached, in its attempt, with the readiness taken
\* from these channels, and a status that is still exactly R.
_validate_grant_authority(c) ==
    /\ gate.state = "GRANT_ATTEMPTED" /\ journal.state = "SEALED_ACTIVE"
    /\ c.attached /\ c.readiness = "taken"
    /\ _validate_chain(gate, channel) /\ _validate_permit(gate)
    /\ c.status = <<"R">>

\* _validate_grant_authority and the clock, last thing before the latch.
LatchesAttempt ==
    /\ alive /\ gate.pc = "grant" /\ ctl.state = "VALIDATING_GRANT"
    /\ ctl.drain # "reading" \/ ctl.reads = MAX_READS_PER_TURN
    /\ Working
    /\ IF /\ ctl.drain = "ready" /\ _clock(ctl)
          /\ _validate_grant_authority(ctl) /\ _observe_authority(ctl)
       THEN /\ ctl' = [ctl EXCEPT !.state = "GRANT_ATTEMPTED", !.attempted = TRUE]
            /\ UNCHANGED gate
       ELSE ctl' = PoisonedChannels(ctl) /\ gate' = Unwinds(gate)
    /\ UNCHANGED <<CtlUnchanged, status>>

Granting == alive /\ gate.pc = "grant" /\ ctl.state = "GRANT_ATTEMPTED"

GrantFails == ctl' = PoisonedChannels(ctl) /\ gate' = Unwinds(gate)

WriteG == grant' = [grant EXCEPT !.bytes = Append(@, "G"), !.sent = @ + 1]

\* Nobody left to read is EPIPE.
write_grant ==
    /\ Granting /\ ~ctl.written
    /\ Working
    /\ IF CanRead
       THEN WriteG /\ ctl' = [ctl EXCEPT !.written = TRUE] /\ UNCHANGED gate
       ELSE GrantFails /\ UNCHANGED grant
    /\ UNCHANGED <<worldVars, journalVars, contract, journal, channel, child, status>>

\* Mutant: an interrupted write is tried again.
GrantWriteRetried ==
    /\ Granting /\ ~ctl.written
    /\ Failing
    /\ UNCHANGED grant \/ (CanRead /\ WriteG)
    /\ UNCHANGED <<worldVars, journalVars, contract, journal, channel, child, status>>
    /\ UNCHANGED <<ctl, gate>>

\* The write fails or is interrupted, with the byte in the pipe or not.
GrantWriteFails ==
    /\ Granting /\ ~ctl.written
    /\ Failing
    /\ GrantFails
    /\ UNCHANGED grant \/ (CanRead /\ WriteG)
    /\ UNCHANGED <<worldVars, journalVars, contract, journal, channel, child, status>>

\* Authority again, then the descriptor is given up and closed once.
close_grant ==
    /\ Granting /\ ctl.written /\ ~ctl.closed
    /\ Working
    /\ IF _validate_grant_authority(ctl) /\ _observe_authority(ctl)
       THEN /\ grant' = [grant EXCEPT !.writers = @ \ {"supervisor"}]
            /\ ctl' = [ctl EXCEPT !.owned = FALSE, !.closed = TRUE,
                                  !.state = "WRITER_CLOSE_CONFIRMED"]
            /\ UNCHANGED gate
       ELSE GrantFails /\ UNCHANGED grant
    /\ UNCHANGED <<worldVars, journalVars, contract, journal, channel, child, status>>

\* Mutant: a failed close counts as one.
GrantCloseIgnored ==
    /\ Granting /\ ctl.written /\ ~ctl.closed
    /\ Failing
    /\ ctl' = [ctl EXCEPT !.owned = FALSE, !.closed = TRUE,
                          !.state = "WRITER_CLOSE_CONFIRMED"]
    /\ UNCHANGED gate
    /\ grant' \in {grant, [grant EXCEPT !.writers = @ \ {"supervisor"}]}
    /\ UNCHANGED <<worldVars, journalVars, contract, journal, channel, child, status>>

GrantCloseFails ==
    /\ Granting /\ ctl.written /\ ~ctl.closed
    /\ Failing
    /\ ctl' = [PoisonedChannels(ctl) EXCEPT !.owned = FALSE]
    /\ gate' = Unwinds(gate)
    /\ grant' \in {grant, [grant EXCEPT !.writers = @ \ {"supervisor"}]}
    /\ UNCHANGED <<worldVars, journalVars, contract, journal, channel, child, status>>

GrantCompletes ==
    /\ alive /\ gate.pc = "grant" /\ ctl.state = "WRITER_CLOSE_CONFIRMED"
    /\ Working
    /\ IF /\ gate.state = "GRANT_ATTEMPTED" /\ journal.state = "SEALED_ACTIVE"
          /\ _validate_permit(gate) /\ channel = "ATTEMPTED"
          /\ _validate_chain(gate, "EOF_CONFIRMED")
       THEN /\ confirm_eof
            /\ gate' = [gate EXCEPT !.state = "GRANT_PROTOCOL_COMPLETED", !.pc = "idle"]
       ELSE gate' = Unwinds(gate) /\ UNCHANGED channel
    /\ UNCHANGED <<worldVars, journalVars, contract, journal, ctl, kidVars>>

-----------------------------------------------------------------------------
(***************************************************************************)
(* Calls nobody should make, and the end of the supervisor.                *)
(***************************************************************************)
\* An operation called from a callback or out of its phase: _enter poisons the
\* controller at once, and a persist in between finds it so when it returns.
CalledOutOfPhase ==
    /\ alive /\ contract = "V1" /\ gate.state # "UNKNOWN"
    /\ Failing
    /\ gate' = _poison(gate)
    /\ UNCHANGED <<worldVars, journalVars, contract, journal, channel, ctl, kidVars>>

\* A status turn, readiness or grant out of its phase or from a callback.
ChannelsOutOfPhase ==
    /\ alive /\ ctl.state \notin {"NONE", "UNKNOWN"}
    /\ Failing
    /\ ctl' = PoisonedChannels(ctl)
    /\ gate' = IF gate.pc = "grant" THEN Unwinds(gate) ELSE gate
    /\ UNCHANGED <<CtlUnchanged, status>>

SupervisorDies ==
    /\ alive /\ child.at # "unborn"
    /\ Failing
    /\ alive' = FALSE
    /\ grant' = [grant EXCEPT !.writers = @ \ {"supervisor"}]
    /\ status' = [status EXCEPT !.writers = @ \ {"supervisor"}]
    /\ UNCHANGED <<clock, journalVars, contract, gateVars, ctl, child>>

-----------------------------------------------------------------------------
(***************************************************************************)
(* _child_launcher.                                                        *)
(***************************************************************************)
ChildUnchanged == <<worldVars, journalVars, contract, gateVars, ctl>>

\* Exit closes its descriptors; with "E:..." written first if somebody reads.
Ends(at, bytes) ==
    /\ child' = [child EXCEPT !.at = at]
    /\ grant' = [grant EXCEPT !.writers = @ \ {"child"}]
    /\ status' = [bytes |-> IF alive THEN status.bytes \o bytes ELSE status.bytes,
                  writers |-> status.writers \ {"child"}]

_child_fail == Ends("exited", <<"E">>)

\* Descriptors it does not keep are closed, R is written, its deadline starts.
ChildReady ==
    /\ child.at = "forked"
    /\ Working
    /\ IF alive
       THEN /\ child' = [child EXCEPT !.at = "ready", !.deadline = clock + Deadline]
            /\ grant' = [grant EXCEPT !.writers = @ \ {"child"}]
            /\ status' = [status EXCEPT !.bytes = Append(@, "R")]
       ELSE _child_fail
    /\ UNCHANGED ChildUnchanged

\* poll and read: the byte, an extra byte, or end of file.
ChildReads ==
    /\ child.at \in {"ready", "gotG"} /\ clock < child.deadline
    /\ Working
    /\ \/ /\ grant.bytes # <<>>
          /\ IF child.at = "ready" /\ Len(grant.bytes) = 1
             THEN /\ child' = [child EXCEPT !.at = "gotG"]
                  /\ grant' = [grant EXCEPT !.bytes = <<>>]
                  /\ UNCHANGED status
             ELSE _child_fail
       \/ /\ grant.bytes = <<>> /\ grant.writers = {}
          /\ IF child.at = "gotG"
             THEN child' = [child EXCEPT !.at = "armed"] /\ UNCHANGED <<grant, status>>
             ELSE _child_fail
    /\ UNCHANGED ChildUnchanged

\* Mutant: the deadline counts only once G was read.
ChildTimesOutLate ==
    /\ child.at = "gotG" /\ clock >= child.deadline
    /\ Working
    /\ _child_fail
    /\ UNCHANGED ChildUnchanged

ChildTimesOut ==
    /\ child.at \in {"ready", "gotG"} /\ clock >= child.deadline
    /\ Working
    /\ _child_fail
    /\ UNCHANGED ChildUnchanged

\* status_w is close-on-exec.
ChildExecs ==
    /\ child.at = "armed"
    /\ Working
    /\ Ends("payload", <<>>)
    /\ UNCHANGED ChildUnchanged

ChildFails ==
    /\ CanRead
    /\ Failing
    /\ _child_fail \/ Ends("dead", <<>>)
    /\ UNCHANGED ChildUnchanged

\* Time matters up to the request's deadline and then to the child's own.
Tick ==
    /\ clock < Deadline \/ (child.at \in {"ready", "gotG"} /\ clock < child.deadline)
    /\ clock' = clock + 1
    /\ UNCHANGED <<faults, alive, journalVars, runVars>>

NewJournal == [state |-> "READY", sequence |-> 0]
Unforked == [at |-> "unborn", bound |-> FALSE, deadline |-> 0]

\* create_fd_bundle: pipes with the supervisor at every end.
create_fd_bundle ==
    /\ grant = [bytes |-> <<>>, sent |-> 0, writers |-> {"supervisor"}]
    /\ status = [bytes |-> <<>>, writers |-> {"supervisor"}]

PreGrantInit ==
    /\ JournalInit
    /\ gate = FreshGate
    /\ journal = NewJournal
    /\ channel = "WRITER_OPEN"
    /\ ctl = Unbound
    /\ child = Unforked
    /\ create_fd_bundle

\* What the supervisor does by itself, one call after another.
Supervisor ==
    \/ persist_intent \/ IntentPersisted \/ PersistReturns
    \/ prepare_and_bind_unarmed \/ spawn_unarmed \/ BindsPidfd
    \/ _capture_owned_evidence \/ PersistsChildBound
    \/ ChildBoundPersisted
    \/ bind_parent_control \/ attach_pregrant_controller \/ read_status_turn \/ _drain
    \/ TurnEnds \/ take_readiness_once
    \/ issue_grant_once \/ ExecIssuedPersisted \/ SealsForGrant \/ LatchesAttempt
    \/ write_grant \/ close_grant \/ GrantCompletes
    \/ ((CreateRecord \/ _write_all \/ persist_exact_file) /\ UNCHANGED runVars)

Child == ChildReady \/ ChildReads \/ ChildTimesOut \/ ChildExecs

PreGrantNext ==
    \/ Supervisor \/ Child \/ Tick
    \/ (JournalNext /\ UNCHANGED runVars)
    \/ SpawnFails \/ GrantWriteFails \/ GrantCloseFails
    \/ CalledOutOfPhase \/ ChannelsOutOfPhase \/ SupervisorDies \/ ChildFails
=============================================================================
