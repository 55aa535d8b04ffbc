---------------------------- MODULE ExactJournal ----------------------------
(***************************************************************************)
(* The create-only journal of one supervised run: ExactEventSession        *)
(* (prelive_fixture_journal_adapter) chains INTENT, CHILD_BOUND and        *)
(* EXEC_ISSUED over ExactJournalFileBackend, one O_EXCL file per event,    *)
(* and prelive_exact_journal_qualification rereads them at the end.        *)
(*                                                                         *)
(* An event is durable once its record is exact and both fsyncs returned.  *)
(* Anything that goes wrong in between leaves the record as it is and the  *)
(* session and the backend UNKNOWN: nothing is repaired or written again.  *)
(***************************************************************************)
EXTENDS Integers, Sequences, FiniteSets

CONSTANTS
    Deadline,   \* unarmed deadline of the request, in model ticks
    MaxFaults   \* bound: failing, ambiguous or foreign calls in one behaviour

ASSUME JournalAssumption == Deadline \in Nat \ {0} /\ MaxFaults \in Nat

VARIABLES
    clock,     \* CLOCK_MONOTONIC
    faults,    \* faults so far
    alive,     \* the supervisor process exists
    disk,      \* records of the journal directory, in the order of their names
    backend,   \* ExactJournalFileBackend
    adapter,   \* ExactEventSession
    verdict    \* of the independent verification: "none", "PASS" or "REFUSED"

worldVars == <<clock, alive>>
journalVars == <<disk, backend, adapter, verdict>>

EVENT_ORDER == <<"INTENT", "CHILD_BOUND", "EXEC_ISSUED">>

InTime == clock < Deadline
Working == UNCHANGED faults
Failing == faults < MaxFaults /\ faults' = faults + 1

Durable(i) == i <= Len(disk) /\ disk[i].content = "exact" /\ disk[i].synced

\* The record being written is the one after the last acknowledged event.
Writing == backend.state = "PERSISTING"

-----------------------------------------------------------------------------
\* The envelope continues the chain: the next number, the kind that belongs to
\* it, and the digest of the event before.
_validate_event(kind) ==
    adapter.sequence < Len(EVENT_ORDER) /\ kind = EVENT_ORDER[adapter.sequence + 1]

(***************************************************************************)
(* append_exact_event: envelope and payload are validated, then the state  *)
(* is PERSISTING until the backend has acknowledged the exact bytes.       *)
(***************************************************************************)
append_exact_event(kind) ==
    /\ adapter.state = "READY" /\ backend.state = "READY"
    /\ _validate_event(kind)
    /\ adapter' = [adapter EXCEPT !.state = "PERSISTING"]
    /\ backend' = [backend EXCEPT !.state = "PERSISTING"]

\* O_CREAT | O_EXCL in the pinned directory, whose identity was checked.
CreateRecord ==
    /\ alive /\ Writing /\ Len(disk) = adapter.sequence
    /\ Working
    /\ disk' = Append(disk, [kind |-> EVENT_ORDER[adapter.sequence + 1],
                             content |-> "partial", synced |-> FALSE])
    /\ UNCHANGED <<worldVars, backend, adapter, verdict>>

_write_all ==
    /\ alive /\ Writing /\ Len(disk) = adapter.sequence + 1
    /\ disk[Len(disk)].content = "partial"
    /\ Working
    /\ disk' = [disk EXCEPT ![Len(disk)].content = "exact"]
    /\ UNCHANGED <<worldVars, backend, adapter, verdict>>

\* Mutant: the acknowledgement does not wait for the fsyncs.
PersistUnsynced ==
    /\ alive /\ Writing /\ Len(disk) = adapter.sequence + 1
    /\ disk[Len(disk)].content = "exact"
    /\ Working
    /\ backend' = [backend EXCEPT !.state = "READY", !.records = @ + 1]
    /\ adapter' = IF adapter.state = "PERSISTING"
                  THEN [state |-> "READY", sequence |-> adapter.sequence + 1]
                  ELSE adapter
    /\ UNCHANGED <<worldVars, disk, verdict>>

\* Both fsyncs, the final identity, close, the named recheck and the ack; the
\* session takes its receipt unless it was disturbed meanwhile.
persist_exact_file ==
    /\ alive /\ Writing /\ Len(disk) = adapter.sequence + 1
    /\ disk[Len(disk)].content = "exact"
    /\ Working
    /\ disk' = [disk EXCEPT ![Len(disk)].synced = TRUE]
    /\ backend' = [backend EXCEPT !.state = "READY", !.records = @ + 1]
    /\ adapter' = IF adapter.state = "PERSISTING"
                  THEN [state |-> "READY", sequence |-> adapter.sequence + 1]
                  ELSE adapter
    /\ UNCHANGED <<worldVars, verdict>>

\* An append the session refuses poisons it; the backend is not called.
RefuseAppend == adapter' = [adapter EXCEPT !.state = "UNKNOWN"] /\ UNCHANGED backend

\* A system call of the backend fails, before or after both fsyncs.
PersistFails ==
    /\ alive /\ Writing
    /\ Failing
    /\ \/ UNCHANGED disk
       \/ /\ Len(disk) = adapter.sequence + 1 /\ disk[Len(disk)].content = "exact"
          /\ disk' = [disk EXCEPT ![Len(disk)].synced = TRUE]
    /\ backend' = [backend EXCEPT !.state = "UNKNOWN"]
    /\ adapter' = [adapter EXCEPT !.state = "UNKNOWN"]
    /\ UNCHANGED <<worldVars, verdict>>

\* A foreign, unclaimed or re-entrant append: the session is UNKNOWN, and
\* the backend still finishes the record it was writing.
AppendRefused ==
    /\ alive /\ adapter.state \in {"READY", "PERSISTING", "SEALED"}
    /\ Failing
    /\ RefuseAppend
    /\ UNCHANGED <<worldVars, disk, verdict>>

seal_pregrant ==
    /\ alive /\ adapter.state = "READY" /\ adapter.sequence = 3
    /\ Working
    /\ adapter' = [adapter EXCEPT !.state = "SEALED"]
    /\ UNCHANGED <<worldVars, disk, backend, verdict>>

\* Descriptors are given up once, before their close; an UNKNOWN backend stays
\* UNKNOWN, and so does one whose close failed.
release_descriptors_preserving_state ==
    /\ alive /\ ~backend.released /\ backend.state \in {"READY", "UNKNOWN"}
    /\ adapter.state \in {"SEALED", "UNKNOWN"}
    /\ \/ /\ Working
          /\ backend' = [backend EXCEPT !.released = TRUE,
                !.state = IF @ = "READY" THEN "CLOSED_ARTIFACTS_PRESERVED" ELSE @]
       \/ Failing /\ backend' = [backend EXCEPT !.released = TRUE, !.state = "UNKNOWN"]
    /\ UNCHANGED <<worldVars, disk, adapter, verdict>>

\* Someone with the right to do so replaces a record that was acknowledged.
Replaced(i) ==
    /\ i <= backend.records /\ disk[i].content = "exact"
    /\ Failing
    /\ disk' = [disk EXCEPT ![i].content = "foreign"]
    /\ UNCHANGED <<worldVars, backend, adapter, verdict>>

\* The directory holds exactly the three names, and each record is the inode
\* that was acknowledged and has exactly its bytes.
RecordVerified(i) ==
    /\ disk[i].kind = EVENT_ORDER[i]
    /\ disk[i].content = "exact"

_independent_verify ==
    /\ alive /\ verdict = "none"
    /\ backend.state = "CLOSED_ARTIFACTS_PRESERVED" /\ adapter.state = "SEALED"
    /\ Working
    /\ verdict' = IF /\ Len(disk) = 3 /\ backend.records = 3
                     /\ \A i \in 1..3 : RecordVerified(i)
                  THEN "PASS" ELSE "REFUSED"
    /\ UNCHANGED <<worldVars, disk, backend, adapter>>

NewBackend == [state |-> "READY", released |-> FALSE, records |-> 0]
NewSession == [state |-> "READY", sequence |-> 0]

JournalInit ==
    /\ clock = 0 /\ faults = 0 /\ alive = TRUE
    /\ disk = <<>>
    /\ backend = NewBackend
    /\ adapter = NewSession
    /\ verdict = "none"

JournalNext ==
    \/ CreateRecord \/ _write_all \/ persist_exact_file \/ PersistFails
    \/ AppendRefused \/ seal_pregrant
    \/ release_descriptors_preserving_state
    \/ (\E i \in 1..3 : Replaced(i)) \/ _independent_verify

JournalTypeOK ==
    /\ clock \in Nat /\ faults \in 0..MaxFaults /\ alive \in BOOLEAN
    /\ disk \in Seq([kind : {"INTENT", "CHILD_BOUND", "EXEC_ISSUED"},
                     content : {"partial", "exact", "foreign"}, synced : BOOLEAN])
    /\ Len(disk) <= 3
    /\ backend \in [state : {"READY", "PERSISTING", "CLOSED_ARTIFACTS_PRESERVED",
                             "UNKNOWN"},
                    released : BOOLEAN, records : 0..3]
    /\ adapter \in [state : {"READY", "PERSISTING", "SEALED", "UNKNOWN"},
                    sequence : 0..3]
    /\ verdict \in {"none", "PASS", "REFUSED"}
=============================================================================
