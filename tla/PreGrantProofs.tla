--------------------------- MODULE PreGrantProofs ---------------------------
(***************************************************************************)
(* Proofs about PreGrantRun: the one-shot grant of a supervised run and    *)
(* the V2 event chain, for any deadline, any number of faults and any      *)
(* number of reads in a turn of the channels.                              *)
(***************************************************************************)
EXTENDS PreGrantRun, TLAPS

Kind == {"INTENT", "CHILD_BOUND", "EXEC_ISSUED"}
Record == [kind : Kind, content : {"partial", "exact", "foreign"}, synced : BOOLEAN]
Backend == [state : {"READY", "PERSISTING", "CLOSED_ARTIFACTS_PRESERVED", "UNKNOWN"},
            released : BOOLEAN, records : 0..3]
Adapter == [state : {"READY", "PERSISTING", "SEALED", "UNKNOWN"}, sequence : 0..3]
Session == [state : {"READY", "PERSISTING", "SEALED_ACTIVE", "UNKNOWN"}, sequence : 0..3]
Gate == [state : GateStates,
         pc : {"idle", "persist", "persisted", "spawn", "bound", "recheck", "grant"},
         child_may_exist : BOOLEAN, settlement_required : BOOLEAN, evidence : BOOLEAN,
         consumed : BOOLEAN, permit : {"none", "used"}]
Phase == {"WRITER_OPEN", "ATTEMPTED", "EOF_CONFIRMED"}
CtlState == {"NONE", "WAITING_READY", "READY_OBSERVED", "READING_STATUS", "VALIDATING_GRANT",
             "ERROR_SEEN", "GRANT_ATTEMPTED", "WRITER_CLOSE_CONFIRMED", "UNKNOWN"}
Channels == [state : CtlState, prior : {"NONE", "WAITING_READY", "READY_OBSERVED"},
             attached : BOOLEAN, status : Seq({"R", "E"}), reads : 0..MAX_READS_PER_TURN,
             drain : {"none", "reading", "error", "ready"},
             readiness : {"none", "minted", "taken"}, attempted : BOOLEAN,
             written : BOOLEAN, closed : BOOLEAN, owned : BOOLEAN]
Launched == [at : {"unborn", "forked", "ready", "gotG", "armed", "payload", "exited", "dead"},
             bound : BOOLEAN, deadline : Nat]
GrantPipe == [bytes : Seq({"G"}), sent : 0..1, writers : SUBSET {"supervisor", "child"}]
StatusPipe == [bytes : Seq({"R", "E"}), writers : SUBSET {"supervisor", "child"}]

-----------------------------------------------------------------------------
(* The invariant                                                           *)

\* The journal of one run: the records are the events in their order, and those
\* the session has acknowledged are synced.  A session that can still append
\* knows how many there are; an UNKNOWN one may be one behind.
JournalExact ==
    /\ clock \in Nat /\ faults \in 0..MaxFaults /\ alive \in BOOLEAN
    /\ disk \in Seq(Record) /\ backend \in Backend /\ adapter \in Adapter
    /\ verdict \in {"none", "PASS", "REFUSED"}
    /\ Len(disk) <= 3 /\ Len(disk) \in {adapter.sequence, adapter.sequence + 1}
    /\ backend.records <= Len(disk)
    /\ \A i \in 1..Len(disk) : disk[i].kind = EVENT_ORDER[i]
    /\ \A i \in 1..adapter.sequence : disk[i].synced
    /\ adapter.state \in {"READY", "SEALED"} => Len(disk) = adapter.sequence
    /\ adapter.state = "PERSISTING" => Writing
    /\ adapter.state # "UNKNOWN" \/ Writing => backend.records = adapter.sequence
    /\ Writing => adapter.state \in {"PERSISTING", "UNKNOWN"} /\ adapter.sequence < 3

\* The controller's session never runs ahead of the journal, and while it
\* persists it is one event behind the acknowledgement.
SessionFollows ==
    /\ journal \in Session
    /\ gate.pc = "persist" <=> journal.state = "PERSISTING"
    /\ journal.sequence <= adapter.sequence
    /\ journal.state = "PERSISTING" =>
        /\ adapter.state = "READY" => adapter.sequence = journal.sequence + 1
        /\ adapter.state = "PERSISTING" => adapter.sequence = journal.sequence

\* The step a call is in and the state of the controller go together, and from
\* the fork on everything is set that a child needs to be settled.
GateKnows ==
    /\ gate \in Gate /\ child \in Launched /\ contract \in {"V1", "V2"}
    /\ gate.state = "INTENT_PERSISTED" \/ gate.pc \in {"spawn", "bound"} \/ child.at # "unborn"
        => journal.sequence >= 1
    /\ gate.pc \in {"spawn", "bound"} \/ child.at # "unborn"
        => gate.child_may_exist /\ gate.settlement_required
    /\ child.bound => gate.evidence \/ gate.pc = "spawn"
    /\ gate.state = "GRANT_PROTOCOL_COMPLETED" => gate.pc = "idle"

\* Nothing is written to the grant pipe but by the one attempt, and that is made
\* behind three acknowledged events, a taken readiness and a status of just R.
GrantOnce ==
    /\ ctl \in Channels /\ grant \in GrantPipe /\ channel \in Phase
    /\ Len(grant.bytes) <= grant.sent
    /\ grant.sent = 1 => ctl.attempted
    /\ ctl.attempted =>
        /\ ctl.state \in {"GRANT_ATTEMPTED", "WRITER_CLOSE_CONFIRMED", "UNKNOWN"}
        /\ ctl.readiness = "taken" /\ ctl.status = <<"R">>
        /\ journal.sequence = 3 /\ gate.consumed /\ channel # "WRITER_OPEN"
    /\ ctl.state \in {"GRANT_ATTEMPTED", "WRITER_CLOSE_CONFIRMED"} => ctl.attempted
    /\ ctl.state \in {"VALIDATING_GRANT", "GRANT_ATTEMPTED"} => gate.pc = "grant"
    /\ ctl.state = "WRITER_CLOSE_CONFIRMED" => ctl.closed
    /\ ctl.state = "GRANT_ATTEMPTED" /\ ~ctl.written => grant.sent = 0
    /\ ctl.written => grant.sent = 1
    /\ ctl.closed => ctl.written /\ "supervisor" \notin grant.writers
    /\ child.at \in {"gotG", "armed", "payload"} => grant.sent = 1
    /\ child.at \in {"ready", "gotG", "armed"} => "child" \notin grant.writers
    /\ gate.state = "GRANT_PROTOCOL_COMPLETED" =>
        ctl.closed /\ journal.state = "SEALED_ACTIVE" /\ channel = "EOF_CONFIRMED"

\* The bytes a child in this state can have written.
Reported(at) == IF at \in {"unborn", "forked"} THEN 0 ELSE IF at = "exited" THEN 2 ELSE 1

StatusShort ==
    /\ status \in StatusPipe
    /\ Len(ctl.status) + Len(status.bytes) <= Reported(child.at)


\* The V2 chain: its state says how many events it has acknowledged, and the
\* one event there may be beyond them is under way or admitted.
ChainState == {"NONE", "READY_INTENT", "READY_CHILD_BOUND", "READY_EXEC_ISSUED", "APPENDING",
               "SEALED_MODEL_ONLY", "PREEXEC_READY", "PREEXEC_AUTHORITY_CONSUMED", "UNKNOWN"}
Chain == [state : ChainState, busy : BOOLEAN, sequence : 0..3, inflight : BOOLEAN,
          write_may_exist : BOOLEAN, at : Nat, consumed : 0..1]
Observation == {"none", "A", "B", "bad"}
Identity == [state : {"ENROLLED", "UNARMED_BOUND", "MODEL_PREEXEC_VALIDATED", "UNKNOWN"},
             unarmed : Observation]

\* How many events a chain in this state has acknowledged.
StateCounts(c) ==
    /\ c.state \in {"NONE", "READY_INTENT"} => c.sequence = 0
    /\ c.state = "READY_CHILD_BOUND" => c.sequence = 1
    /\ c.state = "READY_EXEC_ISSUED" => c.sequence = 2
    /\ c.state \in {"SEALED_MODEL_ONLY", "PREEXEC_READY", "PREEXEC_AUTHORITY_CONSUMED"}
        => c.sequence = 3

ChainExact ==
    /\ chain \in Chain /\ StateCounts(chain)
    /\ v2disk \in Seq(Kind) /\ Len(v2disk) \in {chain.sequence, chain.sequence + 1}
    /\ Len(v2disk) <= 3 /\ \A i \in 1..Len(v2disk) : v2disk[i] = EVENT_ORDER[i]
    /\ Len(v2disk) > chain.sequence => chain.write_may_exist
    /\ chain.state \notin {"APPENDING", "UNKNOWN"} => Len(v2disk) = chain.sequence
    /\ chain.state = "APPENDING" => chain.busy
    /\ chain.busy => /\ chain.write_may_exist /\ chain.state \in {"APPENDING", "UNKNOWN"}
                     /\ chain.sequence < 3 /\ chain.consumed = 0

\* A bound identity is what both observations said, a validated one what the
\* fresh one says too, and nothing is consumed but behind a validated one.
IdentityBound ==
    /\ handle \in Identity /\ launcher \in Observation \ {"none"}
    /\ seen \in [{"first", "second", "fresh"} -> Observation]
    /\ handle.state \in {"UNARMED_BOUND", "MODEL_PREEXEC_VALIDATED"} =>
        /\ handle.unarmed \in {"A", "B"}
        /\ seen["first"] = handle.unarmed /\ seen["second"] = handle.unarmed
    /\ handle.state = "MODEL_PREEXEC_VALIDATED" => seen["fresh"] = handle.unarmed
    /\ chain.consumed = 1 =>
        /\ chain.state \in {"PREEXEC_AUTHORITY_CONSUMED", "UNKNOWN"} /\ chain.sequence = 3
        /\ chain.at < Deadline /\ handle.state = "MODEL_PREEXEC_VALIDATED"

\* A chain has a state once its binding was used.
Binding == [state : {"ENROLLED_V2", "V2_EVENT_CHAIN_ACTIVE", "UNKNOWN_V2_EVENT_CHAIN"},
            claim : {"none", "fresh", "used"}]
ChainBegun == binding \in Binding /\ (binding.state = "ENROLLED_V2" => chain.state = "NONE")

\* One contract at a time: the other side has done nothing.
OneContract ==
    /\ contract = "V1" => chain = FreshChain
    /\ contract = "V2" =>
        gate = FreshGate /\ child = Unforked /\ ctl = Unbound /\ grant.sent = 0

GrantInv == JournalExact /\ SessionFollows /\ GateKnows /\ GrantOnce /\ StatusShort
RunInv == GrantInv /\ ChainExact /\ IdentityBound /\ ChainBegun /\ OneContract

-----------------------------------------------------------------------------
(* The journal                                                             *)

LEMMA EventOrder ==
    /\ Len(EVENT_ORDER) = 3
    /\ EVENT_ORDER[1] = "INTENT" /\ EVENT_ORDER[2] = "CHILD_BOUND" /\ EVENT_ORDER[3] = "EXEC_ISSUED"
    /\ \A i \in 1..3 : EVENT_ORDER[i] \in Kind
    /\ \A i, j \in 1..3 : EVENT_ORDER[i] = EVENT_ORDER[j] => i = j
BY DEF EVENT_ORDER, Kind

\* Steps that touch no record keep the journal.
LEMMA JournalKept ==
    ASSUME JournalExact, UNCHANGED <<alive, disk, backend, adapter, verdict>>, clock' \in Nat,
           faults' \in 0..MaxFaults
    PROVE  JournalExact'
BY DEF JournalExact, Writing

LEMMA CreateRecordKeeps == ASSUME JournalExact, CreateRecord PROVE JournalExact'
<1> DEFINE r == [kind |-> EVENT_ORDER[adapter.sequence + 1], content |-> "partial", synced |-> FALSE]
<1>1. /\ UNCHANGED <<clock, faults, alive, backend, adapter, verdict>> /\ disk' = Append(disk, r)
      /\ Len(disk) = adapter.sequence /\ adapter.sequence \in 0..2 /\ disk \in Seq(Record)
      /\ adapter.state \in {"PERSISTING", "UNKNOWN"}
  BY DEF JournalExact, CreateRecord, Working, worldVars, Adapter
<1>2. r \in Record /\ r.kind = EVENT_ORDER[adapter.sequence + 1]
  BY <1>1, EventOrder DEF Record
<1> HIDE DEF r
<1>3. /\ disk' \in Seq(Record) /\ Len(disk') = adapter.sequence + 1
      /\ disk'[adapter.sequence + 1] = r
      /\ \A i \in 1..adapter.sequence : disk'[i] = disk[i]
  BY <1>1, <1>2
<1>4. \A i \in 1..Len(disk') : disk'[i].kind = EVENT_ORDER[i]
  BY <1>1, <1>2, <1>3 DEF JournalExact
<1>5. \A i \in 1..adapter.sequence : disk'[i].synced
  BY <1>3 DEF JournalExact
<1>6. backend.records <= Len(disk')
  BY <1>1, <1>3 DEF JournalExact, Backend
<1> QED BY <1>1, <1>3, <1>4, <1>5, <1>6 DEF JournalExact, Writing

\* A record that is there gets another content, or is synced.
LEMMA RecordRewritten ==
    ASSUME NEW d \in Seq(Record), NEW i \in 1..Len(d), NEW c \in {"exact", "foreign"},
           NEW e, e = [d EXCEPT ![i].content = c]
    PROVE  /\ e \in Seq(Record) /\ Len(e) = Len(d)
           /\ \A j \in 1..Len(d) : e[j].kind = d[j].kind /\ e[j].synced = d[j].synced
<1>1. \A j \in 1..Len(d) : d[j] \in Record
  OBVIOUS
<1> DEFINE r == [d[i] EXCEPT !.content = c]
<1>2. r \in Record /\ r.kind = d[i].kind /\ r.synced = d[i].synced
  BY <1>1 DEF Record
<1>3. e = [d EXCEPT ![i] = r]
  OBVIOUS
<1> HIDE DEF r
<1> QED BY <1>1, <1>2, <1>3

LEMMA RecordSynced ==
    ASSUME NEW d \in Seq(Record), NEW i \in 1..Len(d), NEW e, e = [d EXCEPT ![i].synced = TRUE]
    PROVE  /\ e \in Seq(Record) /\ Len(e) = Len(d) /\ e[i].synced
           /\ \A j \in 1..Len(d) : e[j].kind = d[j].kind /\ (d[j].synced => e[j].synced)
<1>1. \A j \in 1..Len(d) : d[j] \in Record
  OBVIOUS
<1> DEFINE r == [d[i] EXCEPT !.synced = TRUE]
<1>2. r \in Record /\ r.kind = d[i].kind /\ r.synced
  BY <1>1 DEF Record
<1>6. r \in Record
  BY <1>2
<1>3. e = [d EXCEPT ![i] = r]
  OBVIOUS
<1> HIDE DEF r
<1>4. /\ e \in Seq(Record) /\ Len(e) = Len(d) /\ e[i] = r
      /\ \A j \in 1..Len(d) : j # i => e[j] = d[j]
  <2>1. \A x \in Record : /\ [d EXCEPT ![i] = x] \in Seq(Record) /\ Len([d EXCEPT ![i] = x]) = Len(d)
                          /\ [d EXCEPT ![i] = x][i] = x
                          /\ \A j \in 1..Len(d) : j # i => [d EXCEPT ![i] = x][j] = d[j]
    OBVIOUS
  <2> DEFINE f == [d EXCEPT ![i] = r]
  <2>2. /\ f \in Seq(Record) /\ Len(f) = Len(d) /\ f[i] = r
        /\ \A j \in 1..Len(d) : j # i => f[j] = d[j]
    BY <1>6, <2>1
  <2>3. e = f
    BY <1>3
  <2> HIDE DEF f
  <2> QED BY <2>2, <2>3, Zenon
<1>5. \A j \in 1..Len(d) : e[j].kind = d[j].kind /\ (d[j].synced => e[j].synced)
  BY <1>2, <1>4, Zenon
<1> QED BY <1>2, <1>4, <1>5, Zenon

LEMMA WriteAllKeeps == ASSUME JournalExact, _write_all PROVE JournalExact'
<1>1. /\ UNCHANGED <<clock, faults, alive, backend, adapter, verdict>>
      /\ disk' = [disk EXCEPT ![Len(disk)].content = "exact"]
      /\ Len(disk) = adapter.sequence + 1 /\ disk \in Seq(Record) /\ adapter.sequence \in 0..3
      /\ Len(disk) \in 1..Len(disk)
  BY DEF JournalExact, _write_all, Working, worldVars, Adapter
<1>2. /\ disk' \in Seq(Record) /\ Len(disk') = Len(disk)
      /\ \A j \in 1..Len(disk) : disk'[j].kind = disk[j].kind /\ disk'[j].synced = disk[j].synced
  BY <1>1, RecordRewritten
<1> QED BY <1>1, <1>2 DEF JournalExact, Writing

LEMMA PersistExactKeeps == ASSUME JournalExact, persist_exact_file PROVE JournalExact'
<1>1. /\ UNCHANGED <<clock, faults, alive, verdict>>
      /\ disk' = [disk EXCEPT ![Len(disk)].synced = TRUE]
      /\ Len(disk) = adapter.sequence + 1 /\ disk \in Seq(Record) /\ adapter.sequence \in 0..2
      /\ Len(disk) \in 1..Len(disk)
      /\ backend' = [backend EXCEPT !.state = "READY", !.records = @ + 1]
      /\ backend.records = adapter.sequence /\ backend \in Backend /\ adapter \in Adapter
  BY DEF JournalExact, persist_exact_file, Working, worldVars, Adapter
<1>2. /\ disk' \in Seq(Record) /\ Len(disk') = Len(disk) /\ disk'[Len(disk)].synced
      /\ \A j \in 1..Len(disk) : disk'[j].kind = disk[j].kind /\ (disk[j].synced => disk'[j].synced)
  BY <1>1, RecordSynced
<1>3. backend' \in Backend /\ backend'.state = "READY" /\ backend'.records = adapter.sequence + 1
  <2>1. backend.records + 1 \in 0..3
    BY <1>1
  <2> QED BY <1>1, <2>1 DEF Backend
<1>4. CASE adapter.state = "PERSISTING"
  <2>1. adapter' \in Adapter /\ adapter'.state = "READY" /\ adapter'.sequence = adapter.sequence + 1
    BY <1>1, <1>4 DEF persist_exact_file, Adapter
  <2>2. \A j \in 1..adapter'.sequence : disk'[j].synced
    BY <1>1, <1>2, <2>1 DEF JournalExact
  <2> QED BY <1>1, <1>2, <1>3, <2>1, <2>2 DEF JournalExact, Writing
<1>5. CASE adapter.state # "PERSISTING"
  <2>1. adapter' = adapter /\ adapter.state = "UNKNOWN"
    BY <1>5 DEF persist_exact_file, JournalExact
  <2>2. \A j \in 1..adapter.sequence : disk'[j].synced
    BY <1>1, <1>2 DEF JournalExact
  <2> QED BY <1>1, <1>2, <1>3, <2>1, <2>2 DEF JournalExact, Writing
<1> QED BY <1>4, <1>5

LEMMA PersistFailsKeeps == ASSUME JournalExact, PersistFails PROVE JournalExact'
<1>1. /\ UNCHANGED <<clock, alive, verdict>> /\ faults' \in 0..MaxFaults
      /\ backend' = [backend EXCEPT !.state = "UNKNOWN"] /\ adapter' = [adapter EXCEPT !.state = "UNKNOWN"]
      /\ disk \in Seq(Record) /\ adapter.sequence \in 0..3
      /\ backend \in Backend /\ adapter \in Adapter
  BY JournalAssumption DEF JournalExact, PersistFails, Failing, worldVars, Adapter
<1>2. /\ disk' \in Seq(Record) /\ Len(disk') = Len(disk)
      /\ \A j \in 1..Len(disk) : disk'[j].kind = disk[j].kind /\ (disk[j].synced => disk'[j].synced)
  <2>1. CASE disk' = disk
    BY <1>1, <2>1
  <2>2. CASE Len(disk) = adapter.sequence + 1 /\ disk' = [disk EXCEPT ![Len(disk)].synced = TRUE]
    <3>1. Len(disk) \in 1..Len(disk)
      BY <1>1, <2>2
    <3> QED BY <1>1, <2>2, <3>1, RecordSynced
  <2> QED BY <2>1, <2>2 DEF PersistFails
<1>3. backend' \in Backend /\ backend'.state = "UNKNOWN" /\ backend'.records = backend.records
  BY <1>1 DEF Backend
<1>4. adapter' \in Adapter /\ adapter'.state = "UNKNOWN" /\ adapter'.sequence = adapter.sequence
  BY <1>1 DEF Adapter
<1>5. \A j \in 1..adapter.sequence : disk'[j].synced
  BY <1>1, <1>2 DEF JournalExact
<1> QED BY <1>1, <1>2, <1>3, <1>4, <1>5 DEF JournalExact, Writing

\* The session alone changes its state; the backend goes on as it was.
LEMMA SessionChanges ==
    ASSUME JournalExact, UNCHANGED <<clock, alive, disk, verdict, backend>>, faults' \in 0..MaxFaults,
           NEW s \in {"SEALED", "UNKNOWN"}, adapter' = [adapter EXCEPT !.state = s],
           s = "SEALED" => adapter.state = "READY"
    PROVE  JournalExact'
<1>1. adapter' \in Adapter /\ adapter'.state = s /\ adapter'.sequence = adapter.sequence
  BY DEF JournalExact, Adapter
<1> QED BY <1>1 DEF JournalExact, Writing

\* An append that is accepted.
LEMMA AppendKeeps ==
    ASSUME JournalExact, UNCHANGED <<clock, faults, alive, disk, verdict>>, NEW kind,
           append_exact_event(kind)
    PROVE  JournalExact'
<1>1. /\ adapter' \in Adapter /\ adapter'.state = "PERSISTING" /\ adapter'.sequence = adapter.sequence
      /\ adapter.sequence < 3 /\ adapter.state = "READY" /\ backend.state = "READY"
  BY EventOrder DEF JournalExact, Adapter, append_exact_event, _validate_event
<1>2. backend' \in Backend /\ backend'.state = "PERSISTING" /\ backend'.records = backend.records
  BY DEF JournalExact, Backend, append_exact_event
<1> QED BY <1>1, <1>2 DEF JournalExact, Writing

LEMMA ReleaseKeeps == ASSUME JournalExact, release_descriptors_preserving_state PROVE JournalExact'
<1>1. UNCHANGED <<clock, alive, disk, adapter, verdict>> /\ faults' \in 0..MaxFaults
  BY JournalAssumption
     DEF release_descriptors_preserving_state, JournalExact, Working, Failing, worldVars
<1>2. /\ backend.state # "PERSISTING"
      /\ backend' \in Backend /\ backend'.state # "PERSISTING" /\ backend'.records = backend.records
  BY DEF release_descriptors_preserving_state, JournalExact, Backend
<1> QED BY <1>1, <1>2 DEF JournalExact, Writing

LEMMA ReplacedKeeps == ASSUME JournalExact, NEW i \in 1..3, Replaced(i) PROVE JournalExact'
<1>1. /\ UNCHANGED <<clock, alive, backend, adapter, verdict>> /\ faults' \in 0..MaxFaults
      /\ disk' = [disk EXCEPT ![i].content = "foreign"] /\ disk \in Seq(Record)
      /\ i \in 1..Len(disk)
  BY JournalAssumption DEF JournalExact, Replaced, Failing, worldVars, Backend
<1>2. /\ disk' \in Seq(Record) /\ Len(disk') = Len(disk)
      /\ \A j \in 1..Len(disk) : disk'[j].kind = disk[j].kind /\ disk'[j].synced = disk[j].synced
  BY <1>1, RecordRewritten
<1>3. \A j \in 1..adapter.sequence : disk'[j].synced
  BY <1>2 DEF JournalExact, Adapter
<1> QED BY <1>1, <1>2, <1>3 DEF JournalExact, Writing

LEMMA JournalNextKeeps == ASSUME JournalExact, JournalNext PROVE JournalExact'
<1>1. CASE AppendRefused
  BY <1>1, SessionChanges, JournalAssumption
     DEF AppendRefused, RefuseAppend, Failing, worldVars, JournalExact
<1>2. CASE seal_pregrant
  BY <1>2, SessionChanges DEF seal_pregrant, Working, worldVars, JournalExact
<1>3. CASE _independent_verify
  BY <1>3 DEF _independent_verify, Working, worldVars, JournalExact, Writing
<1> QED
  BY <1>1, <1>2, <1>3, CreateRecordKeeps, WriteAllKeeps, PersistExactKeeps, PersistFailsKeeps,
     ReleaseKeeps, ReplacedKeeps DEF JournalNext

-----------------------------------------------------------------------------
(* What the parts of the invariant need of a step                          *)

\* A controller that gives up keeps all that it knows of the child.
LEMMA UnwindFacts ==
    ASSUME NEW g \in Gate, child \in Launched
    PROVE  /\ Unwinds(g) \in Gate /\ Unwinds(g).state = "UNKNOWN" /\ Unwinds(g).pc = "idle"
           /\ Unwinds(g).child_may_exist = g.child_may_exist /\ Unwinds(g).consumed = g.consumed
           /\ g.settlement_required => Unwinds(g).settlement_required
           /\ g.evidence \/ child.bound => Unwinds(g).evidence
<1> DEFINE p == _poison(g)
<1>1. /\ p \in Gate /\ p.state = "UNKNOWN" /\ p.child_may_exist = g.child_may_exist
      /\ p.consumed = g.consumed /\ p.evidence = g.evidence
      /\ g.settlement_required => p.settlement_required
  BY DEF Gate, _poison, GateStates
<1> HIDE DEF p
<1>2. Unwinds(g) = [p EXCEPT !.pc = "idle", !.evidence = @ \/ child.bound]
  BY DEF Unwinds, p
<1>3. (p.evidence \/ child.bound) \in BOOLEAN
  OBVIOUS
<1> QED BY <1>1, <1>2, <1>3 DEF Gate

LEMMA PoisonFacts ==
    ASSUME NEW g \in Gate
    PROVE  /\ _poison(g) \in Gate /\ _poison(g).state = "UNKNOWN" /\ _poison(g).pc = g.pc
           /\ _poison(g).child_may_exist = g.child_may_exist /\ _poison(g).consumed = g.consumed
           /\ g.settlement_required => _poison(g).settlement_required
           /\ g.evidence => _poison(g).evidence
BY DEF Gate, _poison, GateStates

\* The controller goes on or gives up; nothing it knows is lost.
GateKeeps ==
    /\ gate' \in Gate
    /\ gate.child_may_exist => gate'.child_may_exist
    /\ gate.settlement_required => gate'.settlement_required
    /\ gate.evidence => gate'.evidence
    /\ gate.pc = "spawn" /\ child.bound => gate'.pc = "spawn" \/ gate'.evidence
    /\ gate.consumed => gate'.consumed

LEMMA GateFalls ==
    ASSUME GateKnows, gate' = Unwinds(gate)
    PROVE  GateKeeps /\ gate'.state = "UNKNOWN" /\ gate'.pc = "idle"
BY UnwindFacts DEF GateKnows, GateKeeps

LEMMA SessionKept ==
    ASSUME SessionFollows, UNCHANGED <<journal, adapter>>, gate'.pc = "persist" <=> gate.pc = "persist"
    PROVE  SessionFollows'
BY DEF SessionFollows

\* A session that ends or is sealed, outside any append.
LEMMA SessionEnds ==
    ASSUME SessionFollows, JournalExact, adapter'.sequence = adapter.sequence,
           gate'.pc # "persist", NEW s \in {"SEALED_ACTIVE", "UNKNOWN"},
           journal' = [journal EXCEPT !.state = s]
    PROVE  SessionFollows' /\ journal'.state = s /\ journal'.sequence = journal.sequence
<1>1. journal' \in Session /\ journal'.state = s /\ journal'.sequence = journal.sequence
  BY DEF SessionFollows, Session
<1> QED BY <1>1 DEF SessionFollows

LEMMA GateKept ==
    ASSUME GateKnows, GateKeeps, UNCHANGED <<child, contract>>,
           journal.sequence >= 1 => journal'.sequence >= 1,
           gate'.state = "INTENT_PERSISTED" =>
                gate.state = "INTENT_PERSISTED" \/ journal'.sequence >= 1,
           gate'.pc \in {"spawn", "bound"} => gate.pc \in {"spawn", "bound"},
           gate'.state = "GRANT_PROTOCOL_COMPLETED" => gate'.pc = "idle"
    PROVE  GateKnows'
BY DEF GateKnows, GateKeeps

\* Nothing of the grant moves but the controller.
LEMMA GrantKept ==
    ASSUME GrantOnce, UNCHANGED <<ctl, grant, channel, child>>,
           journal.sequence = 3 => journal'.sequence = 3, gate.consumed => gate'.consumed,
           gate'.state = "GRANT_PROTOCOL_COMPLETED" =>
                gate.state = "GRANT_PROTOCOL_COMPLETED" /\ journal' = journal,
           ctl.state \in {"VALIDATING_GRANT", "GRANT_ATTEMPTED"} => gate'.pc = "grant"
    PROVE  GrantOnce'
BY DEF GrantOnce

LEMMA StatusKept == ASSUME StatusShort, UNCHANGED <<status, ctl, child>> PROVE StatusShort'
BY DEF StatusShort

LEMMA FaultsBounded ==
    ASSUME JournalExact, Working \/ Failing
    PROVE  faults' \in 0..MaxFaults
BY JournalAssumption DEF JournalExact, Working, Failing

\* Only the controller moves.
LEMMA GateStepKeeps ==
    ASSUME GrantInv, UNCHANGED <<worldVars, journalVars, contract, journal, channel, ctl, kidVars>>,
           Working \/ Failing, GateKeeps, gate'.pc = "persist" <=> gate.pc = "persist",
           gate'.state = "INTENT_PERSISTED" => journal.sequence >= 1,
           gate'.pc \in {"spawn", "bound"} => gate.pc \in {"spawn", "bound"},
           gate'.state # "GRANT_PROTOCOL_COMPLETED",
           ctl.state \in {"VALIDATING_GRANT", "GRANT_ATTEMPTED"} => gate'.pc = "grant"
    PROVE  GrantInv'
<1> USE DEF GrantInv
<1>2. UNCHANGED <<clock, alive, disk, backend, adapter, verdict, contract, journal,
                  channel, ctl, child, grant, status>>
  BY DEF worldVars, journalVars, kidVars
<1>3. JournalExact'
  BY <1>2, JournalKept, FaultsBounded DEF JournalExact
<1>4. SessionFollows'
  BY <1>2, SessionKept
<1>5. GateKnows'
  BY <1>2, GateKept
<1>6. GrantOnce'
  BY <1>2, GrantKept DEF GateKeeps
<1>7. StatusShort'
  BY <1>2, StatusKept
<1> QED BY <1>3, <1>4, <1>5, <1>6, <1>7

\* The controller gives up and nothing else happens.
LEMMA UnwindKeeps ==
    ASSUME GrantInv, UNCHANGED <<worldVars, journalVars, contract, journal, channel, ctl, kidVars>>,
           Working \/ Failing, gate' = Unwinds(gate), gate.pc # "persist",
           ctl.state \notin {"VALIDATING_GRANT", "GRANT_ATTEMPTED"}
    PROVE  GrantInv'
<1>1. GateKeeps /\ gate'.state = "UNKNOWN" /\ gate'.pc = "idle"
  BY GateFalls DEF GrantInv
<1> QED BY <1>1, GateStepKeeps

-----------------------------------------------------------------------------
(* The controller up to its grant                                          *)

\* The session and the journal count alike when they name the same next event.
LEMMA SameEvent ==
    ASSUME JournalExact, SessionFollows, NEW kind, _validate_event(kind), _validate_event_payload(kind)
    PROVE  adapter.sequence = journal.sequence /\ journal.sequence < 3
<1>1. adapter.sequence \in 0..2 /\ journal.sequence \in 0..2
  BY EventOrder DEF JournalExact, SessionFollows, Session, Adapter, _validate_event,
                    _validate_event_payload
<1>2. EVENT_ORDER[adapter.sequence + 1] = EVENT_ORDER[journal.sequence + 1]
  BY DEF _validate_event, _validate_event_payload
<1>3. adapter.sequence + 1 = journal.sequence + 1
  BY <1>1, <1>2, EventOrder
<1> QED BY <1>1, <1>3

LEMMA EnterKeeps ==
    ASSUME GrantInv, gate.pc \in {"idle", "bound"}, gate.state # "GRANT_PROTOCOL_COMPLETED", NEW kind,
           NEW s \in {"PERSISTING_INTENT", "PERSISTING_CHILD_BOUND", "PERSISTING_EXEC_ISSUED"},
           Working, EntersPersisting(kind, s), UNCHANGED <<worldVars, contract, channel, ctl, kidVars>>
    PROVE  GrantInv'
<1> USE DEF GrantInv
<1>1. /\ UNCHANGED <<clock, faults, alive, contract, channel, ctl, child, grant, status>>
      /\ ctl.state \notin {"VALIDATING_GRANT", "GRANT_ATTEMPTED"}
      /\ faults' \in 0..MaxFaults /\ clock' \in Nat
  BY DEF worldVars, kidVars, Working, GrantOnce, JournalExact
<1>2. CASE ~(OwnerAndClock /\ _event_payload(kind))
  BY <1>1, <1>2, UnwindKeeps DEF EntersPersisting
<1>3. CASE OwnerAndClock /\ _event_payload(kind)
  <2>1. persist(kind, s) /\ UNCHANGED <<disk, verdict>>
    BY <1>3 DEF EntersPersisting
  <2>2. CASE /\ journal.state = "READY" /\ _validate_event_payload(kind)
             /\ append_exact_event(kind)
             /\ journal' = [journal EXCEPT !.state = "PERSISTING"]
             /\ gate' = [gate EXCEPT !.state = s, !.pc = "persist"]
    <3>1. JournalExact'
      BY <1>1, <2>1, <2>2, AppendKeeps
    <3>2. GateKeeps /\ gate'.state = s /\ gate'.pc = "persist"
      BY <2>2 DEF GateKnows, GateKeeps, Gate, GateStates
    <3>3. adapter.sequence = journal.sequence /\ journal.sequence < 3
      BY <2>2, SameEvent DEF append_exact_event
    <3>4. adapter'.state = "PERSISTING" /\ adapter'.sequence = adapter.sequence
      BY <2>2 DEF append_exact_event, JournalExact, Adapter
    <3>5. journal' \in Session /\ journal'.state = "PERSISTING" /\ journal'.sequence = journal.sequence
      BY <2>2 DEF SessionFollows, Session
    <3>6. SessionFollows'
      BY <3>2, <3>3, <3>4, <3>5 DEF SessionFollows, Session
    <3>7. GateKnows'
      BY <1>1, <3>2, <3>5, GateKept
    <3>8. GrantOnce'
      BY <1>1, <3>2, <3>5, GrantKept DEF GateKeeps
    <3> QED BY <1>1, <3>1, <3>6, <3>7, <3>8, StatusKept
  <2>3. CASE /\ journal' = [journal EXCEPT !.state = "UNKNOWN"]
             /\ (IF journal.state = "READY" THEN RefuseAppend ELSE UNCHANGED <<adapter, backend>>)
             /\ gate' = Unwinds(gate)
    <3>1. JournalExact' /\ adapter'.sequence = adapter.sequence
      <4>1. CASE UNCHANGED <<adapter, backend>>
        BY <1>1, <2>1, <4>1, JournalKept
      <4>2. CASE RefuseAppend
        BY <1>1, <2>1, <4>2, SessionChanges DEF RefuseAppend, JournalExact, Adapter
      <4> QED BY <2>3, <4>1, <4>2
    <3>2. GateKeeps /\ gate'.state = "UNKNOWN" /\ gate'.pc = "idle"
      BY <2>3, GateFalls
    <3>3. SessionFollows' /\ journal'.sequence = journal.sequence
      BY <2>3, <3>1, <3>2, SessionEnds
    <3>4. GateKnows'
      BY <1>1, <3>2, <3>3, GateKept
    <3>5. GrantOnce'
      BY <1>1, <3>2, <3>3, GrantKept DEF GateKeeps
    <3> QED BY <1>1, <3>1, <3>3, <3>4, <3>5, StatusKept
  <2> QED BY <2>1, <2>2, <2>3 DEF persist
<1> QED BY <1>2, <1>3

LEMMA PersistReturnsKeeps == ASSUME GrantInv, PersistReturns PROVE GrantInv'
<1> USE DEF GrantInv
<1>1. /\ UNCHANGED <<clock, faults, alive, disk, backend, adapter, verdict, contract, channel, ctl,
                     child, grant, status>>
      /\ ctl.state \notin {"VALIDATING_GRANT", "GRANT_ATTEMPTED"}
      /\ gate.pc = "persist" /\ journal.state = "PERSISTING" /\ gate.state # "GRANT_PROTOCOL_COMPLETED"
      /\ gate \in Gate /\ faults' \in 0..MaxFaults /\ clock' \in Nat
  BY DEF PersistReturns, worldVars, journalVars, kidVars, Working, GrantOnce, SessionFollows, GateKnows,
         JournalExact
<1>2. JournalExact'
  BY <1>1, JournalKept
<1>3. CASE journal' = PersistedEventCapability /\ gate' = [gate EXCEPT !.pc = "persisted"]
           /\ adapter.state = "READY"
  <2>1. GateKeeps /\ gate'.pc = "persisted" /\ gate'.state = gate.state
    BY <1>1, <1>3 DEF GateKeeps, Gate
  <2>2. /\ journal' \in Session /\ journal'.state = "READY" /\ journal'.sequence = adapter.sequence
        /\ journal.sequence \in 0..2 /\ journal'.sequence = journal.sequence + 1
    BY <1>1, <1>3 DEF PersistedEventCapability, SessionFollows, Session, JournalExact, Adapter
  <2>3. SessionFollows'
    BY <1>1, <2>1, <2>2 DEF SessionFollows, JournalExact, Adapter
  <2>4. GateKnows'
    BY <1>1, <2>1, <2>2, GateKept
  <2>5. GrantOnce'
    BY <1>1, <2>1, <2>2, GrantKept DEF GateKeeps
  <2> QED BY <1>1, <1>2, <2>3, <2>4, <2>5, StatusKept
<1>4. CASE journal' = [journal EXCEPT !.state = "UNKNOWN"] /\ gate' = Unwinds(gate)
  <2>1. GateKeeps /\ gate'.state = "UNKNOWN" /\ gate'.pc = "idle"
    BY <1>4, GateFalls
  <2>2. SessionFollows' /\ journal'.sequence = journal.sequence
    BY <1>1, <1>4, <2>1, SessionEnds
  <2>3. GateKnows'
    BY <1>1, <2>1, <2>2, GateKept
  <2>4. GrantOnce'
    BY <1>1, <2>1, <2>2, GrantKept DEF GateKeeps
  <2> QED BY <1>1, <1>2, <2>2, <2>3, <2>4, StatusKept
<1> QED BY <1>3, <1>4 DEF PersistReturns

LEMMA LeavesKeeps ==
    ASSUME GrantInv, NEW busy, NEW s \in GateStates, NEW p \in {"idle", "recheck"}, Leaves(busy, s, p),
           s # "GRANT_PROTOCOL_COMPLETED", s = "INTENT_PERSISTED" => journal.sequence >= 1
    PROVE  GrantInv'
<1> USE DEF GrantInv
<1>1. /\ gate.pc = "persisted" /\ gate \in Gate /\ Working
      /\ UNCHANGED <<worldVars, journalVars, contract, journal, channel, ctl, kidVars>>
      /\ ctl.state \notin {"VALIDATING_GRANT", "GRANT_ATTEMPTED"}
  BY DEF Leaves, GateKnows, GrantOnce
<1>2. CASE gate' = [gate EXCEPT !.state = s, !.pc = p]
  <2>1. GateKeeps /\ gate'.state = s /\ gate'.pc = p
    BY <1>1, <1>2 DEF GateKeeps, Gate
  <2> QED BY <1>1, <2>1, GateStepKeeps
<1>3. CASE gate' = Unwinds(gate)
  BY <1>1, <1>3, UnwindKeeps
<1> QED BY <1>2, <1>3 DEF Leaves

LEMMA PrepareKeeps == ASSUME GrantInv, prepare_and_bind_unarmed PROVE GrantInv'
<1> USE DEF GrantInv
<1>1. /\ UNCHANGED <<worldVars, journalVars, contract, journal, channel, ctl, kidVars>> /\ Working
      /\ UNCHANGED <<clock, faults, alive, disk, backend, adapter, verdict, contract, journal, channel,
                     ctl, child, grant, status>>
      /\ ctl.state \notin {"VALIDATING_GRANT", "GRANT_ATTEMPTED"}
      /\ gate.pc = "idle" /\ gate.state = "INTENT_PERSISTED" /\ journal.sequence >= 1
      /\ gate \in Gate /\ faults' \in 0..MaxFaults /\ clock' \in Nat
  BY DEF prepare_and_bind_unarmed, Enters, worldVars, journalVars, kidVars, Working, GrantOnce,
         GateKnows, JournalExact
<1>2. CASE gate' = [gate EXCEPT !.state = "BINDING_UNARMED", !.pc = "spawn",
                                !.child_may_exist = TRUE, !.settlement_required = TRUE]
  <2>1. /\ GateKeeps /\ gate'.state = "BINDING_UNARMED" /\ gate'.pc = "spawn"
        /\ gate'.child_may_exist /\ gate'.settlement_required
    BY <1>1, <1>2 DEF GateKeeps, Gate, GateStates
  <2>2. SessionFollows' /\ JournalExact' /\ StatusShort'
    BY <1>1, <2>1, SessionKept, JournalKept, StatusKept
  <2>3. GateKnows'
    BY <1>1, <2>1 DEF GateKnows, GateKeeps
  <2>4. GrantOnce'
    BY <1>1, <2>1, GrantKept DEF GateKeeps
  <2> QED BY <2>2, <2>3, <2>4
<1>3. CASE gate' = Unwinds(gate)
  BY <1>1, <1>3, UnwindKeeps
<1> QED BY <1>2, <1>3 DEF prepare_and_bind_unarmed

\* The journal and its session when neither moves.
LEMMA QuietJournal ==
    ASSUME GrantInv, UNCHANGED <<worldVars, journalVars, journal>>, Working \/ Failing,
           gate'.pc = "persist" <=> gate.pc = "persist"
    PROVE  JournalExact' /\ SessionFollows'
<1> USE DEF GrantInv
<1>1. UNCHANGED <<clock, alive, disk, backend, adapter, verdict, journal>> /\ clock' \in Nat
  BY DEF worldVars, journalVars, JournalExact
<1> QED BY <1>1, JournalKept, SessionKept, FaultsBounded

LEMMA SpawnKeeps == ASSUME GrantInv, spawn_unarmed PROVE GrantInv'
<1> USE DEF GrantInv
<1>1. /\ UNCHANGED <<contract, gate, journal, channel, ctl>>
      /\ gate.pc = "spawn" /\ child.at = "unborn" /\ child \in Launched
      /\ child' = [child EXCEPT !.at = "forked"]
      /\ grant \in GrantPipe /\ grant' = [grant EXCEPT !.writers = @ \cup {"child"}]
      /\ status \in StatusPipe /\ status' = [status EXCEPT !.writers = @ \cup {"child"}]
  BY DEF spawn_unarmed, gateVars, GateKnows, GrantOnce, StatusShort
<1>2. JournalExact' /\ SessionFollows'
  BY <1>1, QuietJournal DEF spawn_unarmed, gateVars
<1>3. child' \in Launched /\ child'.at = "forked" /\ child'.bound = child.bound
  BY <1>1 DEF Launched
<1>4. /\ grant' \in GrantPipe /\ grant'.bytes = grant.bytes /\ grant'.sent = grant.sent
      /\ grant'.writers = grant.writers \cup {"child"}
  BY <1>1 DEF GrantPipe
<1>5. status' \in StatusPipe /\ status'.bytes = status.bytes
  BY <1>1 DEF StatusPipe
<1>6. GateKnows'
  BY <1>1, <1>3 DEF GateKnows
<1>7. GrantOnce'
  BY <1>1, <1>3, <1>4 DEF GrantOnce
<1>8. StatusShort'
  BY <1>1, <1>3, <1>5 DEF StatusShort, Reported
<1> QED BY <1>2, <1>6, <1>7, <1>8

LEMMA BindsKeeps == ASSUME GrantInv, BindsPidfd PROVE GrantInv'
<1> USE DEF GrantInv
<1>1. /\ UNCHANGED <<contract, gate, journal, channel, ctl, grant>>
      /\ gate.pc = "spawn" /\ child.at # "unborn" /\ child \in Launched
      /\ child' = [child EXCEPT !.bound = TRUE]
      /\ status \in StatusPipe /\ status' = [status EXCEPT !.writers = @ \ {"supervisor"}]
  BY DEF BindsPidfd, GateKnows, StatusShort
<1>2. child' \in Launched /\ child'.at = child.at
  BY <1>1 DEF Launched
<1>3. status' \in StatusPipe /\ status'.bytes = status.bytes
  BY <1>1 DEF StatusPipe
<1>4. JournalExact' /\ SessionFollows'
  BY <1>1, QuietJournal DEF BindsPidfd
<1>5. GateKnows'
  BY <1>1, <1>2 DEF GateKnows
<1>6. GrantOnce'
  BY <1>1, <1>2 DEF GrantOnce
<1>7. StatusShort'
  BY <1>1, <1>2, <1>3 DEF StatusShort, Reported
<1> QED BY <1>4, <1>5, <1>6, <1>7

LEMMA CaptureKeeps == ASSUME GrantInv, _capture_owned_evidence PROVE GrantInv'
<1>1. /\ UNCHANGED <<worldVars, journalVars, contract, journal, channel, ctl, kidVars>> /\ Working
      /\ gate.pc = "spawn" /\ gate \in Gate /\ gate.state # "GRANT_PROTOCOL_COMPLETED"
      /\ gate' = [gate EXCEPT !.pc = "bound", !.evidence = TRUE]
      /\ ctl.state \notin {"VALIDATING_GRANT", "GRANT_ATTEMPTED"}
      /\ gate.state = "INTENT_PERSISTED" => journal.sequence >= 1
  BY DEF _capture_owned_evidence, GrantInv, GateKnows, GrantOnce
<1>2. GateKeeps /\ gate'.state = gate.state /\ gate'.pc = "bound"
  BY <1>1 DEF GateKeeps, Gate
<1> QED BY <1>1, <1>2, GateStepKeeps

LEMMA SpawnFailsKeeps == ASSUME GrantInv, SpawnFails PROVE GrantInv'
<1> USE DEF GrantInv
<1>1. /\ UNCHANGED <<contract, journal, channel, ctl, child, grant>>
      /\ gate.pc = "spawn" /\ gate' = Unwinds(gate) /\ status \in StatusPipe
      /\ status' \in {status, [status EXCEPT !.writers = @ \ {"supervisor"}]}
      /\ ctl.state \notin {"VALIDATING_GRANT", "GRANT_ATTEMPTED"}
  BY DEF SpawnFails, GrantOnce, StatusShort
<1>2. GateKeeps /\ gate'.state = "UNKNOWN" /\ gate'.pc = "idle"
  BY <1>1, GateFalls
<1>3. status' \in StatusPipe /\ status'.bytes = status.bytes
  BY <1>1 DEF StatusPipe
<1>4. JournalExact' /\ SessionFollows'
  BY <1>1, <1>2, QuietJournal DEF SpawnFails
<1>5. GateKnows'
  BY <1>1, <1>2, GateKept
<1>6. GrantOnce'
  BY <1>1, <1>2, GrantKept DEF GateKeeps
<1>7. StatusShort'
  BY <1>1, <1>3 DEF StatusShort
<1> QED BY <1>4, <1>5, <1>6, <1>7

LEMMA ChildBoundKeeps == ASSUME GrantInv, PersistsChildBound PROVE GrantInv'
<1>1. /\ gate.pc = "bound" /\ gate.state # "GRANT_PROTOCOL_COMPLETED"
      /\ Working /\ UNCHANGED <<worldVars, contract, channel, ctl, kidVars>>
      /\ ctl.state \notin {"VALIDATING_GRANT", "GRANT_ATTEMPTED"}
  BY DEF PersistsChildBound, GrantInv, GateKnows, GrantOnce
<1>2. CASE gate.state = "BINDING_UNARMED"
  BY <1>1, <1>2, EnterKeeps DEF PersistsChildBound
<1>3. CASE gate.state # "BINDING_UNARMED"
  BY <1>1, <1>3, UnwindKeeps DEF PersistsChildBound
<1> QED BY <1>2, <1>3

-----------------------------------------------------------------------------
(* The channels                                                            *)

LEMMA SumBound ==
    ASSUME NEW a \in Nat, NEW b \in Nat, NEW c \in Nat, NEW n \in Nat, a + b <= n, c <= a
    PROVE  c + b <= n
OBVIOUS

LEMMA SumCovers ==
    ASSUME NEW a \in Nat, NEW b \in Nat
    PROVE  a <= a + b /\ a + b <= a + b /\ (\A c, n \in Nat : a + b <= n /\ c <= a + b => c <= n)
OBVIOUS

\* Channels that have made no attempt move, with the controller as it is.
LEMMA ChannelsMove ==
    ASSUME GrantInv, UNCHANGED <<CtlUnchanged, gate, status>>, Working \/ Failing,
           ctl' \in Channels, ~ctl.attempted, ~ctl'.attempted, ~ctl'.written, ~ctl'.closed,
           ctl'.state \notin {"VALIDATING_GRANT", "GRANT_ATTEMPTED", "WRITER_CLOSE_CONFIRMED"},
           Len(ctl'.status) <= Len(ctl.status)
    PROVE  GrantInv'
<1> USE DEF GrantInv
<1>1. /\ UNCHANGED <<worldVars, journalVars, contract, gate, journal, channel, child, grant, status>>
      /\ ctl.status \in Seq({"R", "E"}) /\ ctl'.status \in Seq({"R", "E"}) /\ status.bytes \in Seq({"R", "E"})
  BY DEF CtlUnchanged, GrantOnce, Channels, StatusShort, StatusPipe
<1>2. JournalExact' /\ SessionFollows'
  BY <1>1, QuietJournal
<1>3. GateKnows'
  BY <1>1 DEF GateKnows
<1>4. GrantOnce'
  BY <1>1 DEF GrantOnce
<1>5. Len(ctl'.status) \in Nat /\ Len(ctl.status) \in Nat /\ Len(status.bytes) \in Nat
  BY <1>1
<1>6. Reported(child.at) \in Nat
  BY DEF Reported
<1>7. StatusShort'
  <2>1. Len(ctl.status) + Len(status.bytes) <= Reported(child.at)
    BY DEF StatusShort
  <2>2. Len(ctl'.status) + Len(status.bytes) <= Reported(child.at)
    BY <1>5, <1>6, <2>1, SumBound, Zenon
  <2> QED BY <1>1, <2>2 DEF StatusShort
<1> QED BY <1>2, <1>3, <1>4, <1>7

\* Before the attempt nothing was written and nothing closed.
LEMMA Unattempted ==
    ASSUME GrantOnce, ~ctl.attempted
    PROVE  /\ grant.sent = 0 /\ ~ctl.written /\ ~ctl.closed /\ ctl \in Channels
           /\ ctl.status \in Seq({"R", "E"}) /\ gate.state # "GRANT_PROTOCOL_COMPLETED"
BY DEF GrantOnce, GrantPipe, Channels

LEMMA BindControlKeeps == ASSUME GrantInv, bind_parent_control PROVE GrantInv'
<1>1. UNCHANGED <<CtlUnchanged, gate, status>> /\ ~ctl.attempted /\ (Working \/ Failing)
  BY DEF bind_parent_control, GrantInv, GrantOnce
<1>2. ctl' \in {NewChannels, PoisonedChannels(NewChannels)}
  BY DEF bind_parent_control
<1>3. \A c \in {NewChannels, PoisonedChannels(NewChannels)} :
        /\ c \in Channels /\ ~c.attempted /\ ~c.written /\ ~c.closed /\ c.status = <<>>
        /\ c.state \in {"WAITING_READY", "UNKNOWN"}
  <2>1. <<>> \in Seq({"R", "E"}) /\ 0 \in 0..MAX_READS_PER_TURN
    BY ReadsAssumption
  <2> QED BY <2>1 DEF NewChannels, PoisonedChannels, Unbound, Channels, CtlState
<1>4. ctl.status \in Seq({"R", "E"}) /\ Len(<<>>) <= Len(ctl.status)
  BY DEF GrantInv, GrantOnce, Channels
<1> QED BY <1>1, <1>2, <1>3, <1>4, ChannelsMove

LEMMA AttachKeeps == ASSUME GrantInv, attach_pregrant_controller PROVE GrantInv'
<1> USE DEF GrantInv
<1>1. /\ UNCHANGED <<worldVars, journalVars, contract, gate, journal, channel, child, grant, status>>
      /\ ctl \in Channels /\ ctl' = [ctl EXCEPT !.attached = TRUE] /\ Working
  BY DEF attach_pregrant_controller, CtlUnchanged, GrantOnce
<1>2. /\ ctl' \in Channels /\ ctl'.state = ctl.state /\ ctl'.status = ctl.status
      /\ ctl'.attempted = ctl.attempted /\ ctl'.written = ctl.written /\ ctl'.closed = ctl.closed
      /\ ctl'.readiness = ctl.readiness
  BY <1>1 DEF Channels
<1>3. JournalExact' /\ SessionFollows'
  BY <1>1, QuietJournal
<1>4. GateKnows' /\ StatusShort'
  BY <1>1, <1>2 DEF GateKnows, StatusShort
<1>5. GrantOnce'
  BY <1>1, <1>2 DEF GrantOnce
<1> QED BY <1>3, <1>4, <1>5

LEMMA StatusTurnKeeps == ASSUME GrantInv, read_status_turn PROVE GrantInv'
<1>1. /\ UNCHANGED <<CtlUnchanged, gate, status>> /\ ~ctl.attempted /\ Working
      /\ ctl.state \in {"WAITING_READY", "READY_OBSERVED"}
  BY DEF read_status_turn, GrantInv, GrantOnce
<1>2. 0 \in 0..MAX_READS_PER_TURN
  BY ReadsAssumption
<1>3. /\ ctl' \in Channels /\ ctl'.state = "READING_STATUS" /\ ctl'.status = ctl.status
      /\ ~ctl'.attempted /\ ~ctl'.written /\ ~ctl'.closed
  BY <1>1, <1>2, Unattempted DEF GrantInv, read_status_turn, Channels, CtlState
<1>4. Len(ctl'.status) <= Len(ctl.status)
  BY <1>1, <1>3, Unattempted DEF GrantInv
<1> QED BY <1>1, <1>3, <1>4, ChannelsMove

LEMMA TurnEndsKeeps == ASSUME GrantInv, TurnEnds PROVE GrantInv'
<1>1. /\ UNCHANGED <<CtlUnchanged, gate, status>> /\ ~ctl.attempted /\ Working
  BY DEF TurnEnds, GrantInv, GrantOnce
<1> DEFINE s == CASE ctl.drain = "error" -> "ERROR_SEEN"
                  [] ctl.drain = "ready" -> "READY_OBSERVED"
                  [] OTHER -> ctl.prior
           r == IF ctl.drain = "ready" /\ ctl.readiness = "none" THEN "minted" ELSE ctl.readiness
<1>2. /\ s \in {"ERROR_SEEN", "NONE", "WAITING_READY", "READY_OBSERVED"}
      /\ r \in {"none", "minted", "taken"}
  BY <1>1, Unattempted DEF GrantInv, Channels
<1>3. ctl' = [ctl EXCEPT !.state = s, !.readiness = r]
  BY DEF TurnEnds
<1> HIDE DEF s, r
<1>4. /\ ctl' \in Channels /\ ctl'.state = s /\ ctl'.status = ctl.status
      /\ ~ctl'.attempted /\ ~ctl'.written /\ ~ctl'.closed
  BY <1>1, <1>2, <1>3, Unattempted DEF GrantInv, Channels, CtlState
<1>5. Len(ctl'.status) <= Len(ctl.status)
  BY <1>1, <1>4, Unattempted DEF GrantInv
<1> QED BY <1>1, <1>2, <1>4, <1>5, ChannelsMove

LEMMA TakeReadinessKeeps == ASSUME GrantInv, take_readiness_once PROVE GrantInv'
<1>1. /\ UNCHANGED <<CtlUnchanged, gate, status>> /\ ~ctl.attempted /\ Working
      /\ ctl.state = "READY_OBSERVED"
  BY DEF take_readiness_once, GrantInv, GrantOnce
<1>2. /\ ctl' \in Channels /\ ctl'.state = ctl.state /\ ctl'.status = ctl.status
      /\ ~ctl'.attempted /\ ~ctl'.written /\ ~ctl'.closed
  BY <1>1, Unattempted DEF GrantInv, take_readiness_once, Channels
<1>3. Len(ctl'.status) <= Len(ctl.status)
  BY <1>1, <1>2, Unattempted DEF GrantInv
<1> QED BY <1>1, <1>2, <1>3, ChannelsMove

\* What one read does: it may add what was in the pipe to what was read.
LEMMA AppliedStatus ==
    ASSUME GrantInv, NEW kind \in StatusKinds, ~ctl.attempted,
           NEW c, c = _apply_status(ctl, kind)
    PROVE  /\ c \in Channels /\ c.reads = ctl.reads /\ ~c.attempted /\ ~c.written /\ ~c.closed
           /\ c.state \in {ctl.state, "UNKNOWN"}
           /\ Len(c.status) <= Len(ctl.status) + Len(status.bytes)
<1> DEFINE seen0 == ctl.status \o status.bytes
<1>1. /\ ctl \in Channels /\ ctl.status \in Seq({"R", "E"}) /\ status.bytes \in Seq({"R", "E"})
      /\ ~ctl.written /\ ~ctl.closed
  BY Unattempted DEF GrantInv, StatusShort, StatusPipe
<1>2. seen0 \in Seq({"R", "E"}) /\ Len(seen0) = Len(ctl.status) + Len(status.bytes)
  BY <1>1
<1>3. \/ c = [ctl EXCEPT !.status = seen0, !.drain = "error"]
      \/ c = [ctl EXCEPT !.status = seen0]
      \/ c = [PoisonedChannels(ctl) EXCEPT !.status = seen0]
      \/ c = PoisonedChannels(ctl)
      \/ c = [ctl EXCEPT !.drain = "ready"]
      \/ c = ctl
  BY DEF _apply_status, StatusKinds
<1>4. Len(ctl.status) \in Nat /\ Len(status.bytes) \in Nat
  BY <1>1
<1> HIDE DEF seen0
<1>5. /\ c \in Channels /\ c.reads = ctl.reads /\ ~c.attempted /\ ~c.written /\ ~c.closed
      /\ c.state \in {ctl.state, "UNKNOWN"} /\ c.status \in {ctl.status, seen0}
  BY <1>1, <1>2, <1>3 DEF Channels, CtlState, PoisonedChannels
<1>6. Len(c.status) \in {Len(ctl.status), Len(ctl.status) + Len(status.bytes)}
  BY <1>2, <1>5
<1> QED BY <1>4, <1>5, <1>6, SumCovers, Zenon

LEMMA DrainKeeps == ASSUME GrantInv, _drain PROVE GrantInv'
<1> USE DEF GrantInv
<1>1. /\ UNCHANGED <<worldVars, journalVars, contract, journal, channel, child, grant>> /\ Working
      /\ ctl.state \in {"READING_STATUS", "VALIDATING_GRANT"} /\ ~ctl.attempted
      /\ ctl.reads < MAX_READS_PER_TURN /\ ctl.reads \in 0..MAX_READS_PER_TURN
      /\ status \in StatusPipe /\ status' = [status EXCEPT !.bytes = <<>>]
  BY DEF _drain, CtlUnchanged, Draining, GrantOnce, Channels, StatusShort
<1>k. PICK kind \in StatusKinds : \E c :
        /\ c = IF _clock(ctl) /\ _observe_authority(ctl)
               THEN _apply_status(ctl, kind) ELSE PoisonedChannels(ctl)
        /\ ctl' = [c EXCEPT !.reads = @ + 1]
        /\ gate' = IF ctl.state = "VALIDATING_GRANT" /\ ctl'.state = "UNKNOWN"
                   THEN Unwinds(gate) ELSE gate
  BY DEF _drain
<1>2. PICK c :
        /\ c = IF _clock(ctl) /\ _observe_authority(ctl)
               THEN _apply_status(ctl, kind) ELSE PoisonedChannels(ctl)
        /\ ctl' = [c EXCEPT !.reads = @ + 1]
        /\ gate' = IF ctl.state = "VALIDATING_GRANT" /\ ctl'.state = "UNKNOWN"
                   THEN Unwinds(gate) ELSE gate
  BY <1>k
<1>3. /\ ctl.status \in Seq({"R", "E"}) /\ status.bytes \in Seq({"R", "E"})
      /\ ~ctl.written /\ ~ctl.closed /\ ctl \in Channels /\ grant.sent = 0
      /\ gate.state # "GRANT_PROTOCOL_COMPLETED"
  BY <1>1, Unattempted DEF StatusPipe
<1>4. Len(ctl.status) \in Nat /\ Len(status.bytes) \in Nat
  BY <1>3
<1>5. /\ c \in Channels /\ c.reads = ctl.reads /\ ~c.attempted /\ ~c.written /\ ~c.closed
      /\ c.state \in {ctl.state, "UNKNOWN"}
      /\ Len(c.status) <= Len(ctl.status) + Len(status.bytes)
  <2>1. CASE c = _apply_status(ctl, kind)
    BY <1>1, <2>1, AppliedStatus
  <2>2. CASE c = PoisonedChannels(ctl)
    <3>1. /\ c \in Channels /\ c.reads = ctl.reads /\ ~c.attempted /\ ~c.written /\ ~c.closed
          /\ c.state = "UNKNOWN" /\ c.status = ctl.status
      BY <1>1, <1>3, <2>2 DEF PoisonedChannels, Channels, CtlState
    <3> QED BY <1>4, <3>1, SumCovers, Zenon
  <2> QED BY <1>2, <2>1, <2>2
<1>6. ctl.reads + 1 \in 0..MAX_READS_PER_TURN
  BY <1>1, ReadsAssumption
<1>7. /\ ctl' \in Channels /\ ctl'.state = c.state /\ ctl'.status = c.status
      /\ ~ctl'.attempted /\ ~ctl'.written /\ ~ctl'.closed
  BY <1>2, <1>5, <1>6 DEF Channels
<1>8. status' \in StatusPipe /\ status'.bytes = <<>>
  <2>1. <<>> \in Seq({"R", "E"})
    OBVIOUS
  <2> QED BY <1>1, <2>1 DEF StatusPipe
<1>9. /\ GateKeeps /\ gate'.state # "GRANT_PROTOCOL_COMPLETED"
      /\ \/ gate' = gate
         \/ gate'.state = "UNKNOWN" /\ gate'.pc = "idle" /\ gate.pc = "grant" /\ ctl'.state = "UNKNOWN"
  <2>1. CASE gate' = gate
    BY <1>3, <2>1 DEF GateKeeps, GateKnows
  <2>2. CASE gate' = Unwinds(gate) /\ ctl.state = "VALIDATING_GRANT" /\ ctl'.state = "UNKNOWN"
    BY <2>2, GateFalls DEF GrantOnce
  <2> QED BY <1>2, <2>1, <2>2
<1>10. JournalExact' /\ SessionFollows'
  BY <1>1, <1>9, QuietJournal
<1>11. GateKnows'
  BY <1>1, <1>9, GateKept
<1>12. GrantOnce'
  BY <1>1, <1>3, <1>5, <1>7, <1>9 DEF GrantOnce
<1>13. StatusShort'
  <2>1. c.status \in Seq({"R", "E"})
    BY <1>5 DEF Channels
  <2>2. Len(c.status) \in Nat /\ Len(status'.bytes) = 0
    BY <1>8, <2>1
  <2>3. Len(ctl'.status) + Len(status'.bytes) <= Reported(child.at)
    <3>1. Reported(child.at) \in Nat /\ Len(ctl.status) + Len(status.bytes) <= Reported(child.at)
      BY DEF StatusShort, Reported
    <3>2. Len(c.status) <= Reported(child.at)
      BY <1>4, <1>5, <2>2, <3>1, SumCovers, Zenon
    <3>3. Len(ctl'.status) = Len(c.status)
      BY <1>7
    <3> QED BY <2>2, <3>1, <3>2, <3>3
  <2> QED BY <1>1, <1>8, <2>3 DEF StatusShort
<1> QED BY <1>10, <1>11, <1>12, <1>13

LEMMA ChannelsOutOfPhaseKeeps == ASSUME GrantInv, ChannelsOutOfPhase PROVE GrantInv'
<1> USE DEF GrantInv
<1>1. /\ UNCHANGED <<worldVars, journalVars, contract, journal, channel, child, grant, status>> /\ Failing
      /\ ctl \in Channels /\ ctl' = PoisonedChannels(ctl)
      /\ gate' = IF gate.pc = "grant" THEN Unwinds(gate) ELSE gate
  BY DEF ChannelsOutOfPhase, CtlUnchanged, GrantOnce
<1>2. /\ ctl' \in Channels /\ ctl'.state = "UNKNOWN" /\ ctl'.status = ctl.status
      /\ ctl'.attempted = ctl.attempted /\ ctl'.written = ctl.written /\ ctl'.closed = ctl.closed
      /\ ctl'.readiness = ctl.readiness
  BY <1>1 DEF Channels, CtlState, PoisonedChannels
<1>3. /\ GateKeeps
      /\ gate' = gate \/ (gate'.state = "UNKNOWN" /\ gate'.pc = "idle" /\ gate.pc = "grant")
  <2>1. CASE gate' = gate
    BY <2>1 DEF GateKeeps, GateKnows
  <2>2. CASE gate' = Unwinds(gate) /\ gate.pc = "grant"
    BY <2>2, GateFalls
  <2> QED BY <1>1, <2>1, <2>2
<1>4. JournalExact' /\ SessionFollows'
  BY <1>1, <1>3, QuietJournal
<1>5. gate'.state = "GRANT_PROTOCOL_COMPLETED" => gate'.pc = "idle"
  BY <1>3 DEF GateKnows
<1>6. GateKnows'
  BY <1>1, <1>3, <1>5, GateKept
<1>7. GrantOnce'
  BY <1>1, <1>2, <1>3 DEF GrantOnce, GateKeeps
<1>8. StatusShort'
  BY <1>1, <1>2 DEF StatusShort
<1> QED BY <1>4, <1>6, <1>7, <1>8

-----------------------------------------------------------------------------
(* The grant                                                               *)

LEMMA SealsKeeps == ASSUME GrantInv, SealsForGrant PROVE GrantInv'
<1> USE DEF GrantInv
<1>1. /\ UNCHANGED <<worldVars, journalVars, contract, child, grant, status>> /\ Working
      /\ gate.pc = "recheck" /\ gate \in Gate /\ gate.state # "GRANT_PROTOCOL_COMPLETED"
      /\ ctl \in Channels /\ channel \in Phase
      /\ ctl.state \notin {"VALIDATING_GRANT", "GRANT_ATTEMPTED"}
  BY DEF SealsForGrant, kidVars, GateKnows, GrantOnce
<1>2. CASE gate' = Unwinds(gate) /\ UNCHANGED <<journal, channel, ctl>>
  BY <1>1, <1>2, UnwindKeeps DEF kidVars
<1>3. CASE ~(gate' = Unwinds(gate) /\ UNCHANGED <<journal, channel, ctl>>)
  <2> DEFINE used == OneShotGrantPermit(gate)
  <2>1. /\ seal_active /\ channel' = "ATTEMPTED" /\ channel = "WRITER_OPEN"
        /\ gate' = IF GrantAvailable THEN used ELSE Unwinds(used)
        /\ ctl' = IF GrantAvailable
                  THEN [ctl EXCEPT !.state = "VALIDATING_GRANT", !.reads = 0, !.drain = "reading"]
                  ELSE IF ctl.state = "NONE" THEN ctl ELSE PoisonedChannels(ctl)
    BY <1>3 DEF SealsForGrant, begin_attempt
  <2>2. /\ used \in Gate /\ used.state = "GRANT_ATTEMPTED" /\ used.pc = "grant"
        /\ used.child_may_exist = gate.child_may_exist /\ used.evidence = gate.evidence
        /\ used.settlement_required = gate.settlement_required /\ used.consumed
    BY <1>1 DEF OneShotGrantPermit, Gate, GateStates
  <2> HIDE DEF used
  <2>3. /\ GateKeeps /\ gate'.consumed
        /\ \/ GrantAvailable /\ gate'.state = "GRANT_ATTEMPTED" /\ gate'.pc = "grant"
           \/ ~GrantAvailable /\ gate'.state = "UNKNOWN" /\ gate'.pc = "idle"
    <3>1. CASE GrantAvailable
      BY <1>1, <2>1, <2>2, <3>1 DEF GateKeeps
    <3>2. CASE ~GrantAvailable
      BY <1>1, <2>1, <2>2, <3>2, UnwindFacts DEF GateKeeps, GateKnows
    <3> QED BY <3>1, <3>2
  <2>4. 0 \in 0..MAX_READS_PER_TURN
    BY ReadsAssumption
  <2>5. /\ ctl' \in Channels /\ ctl'.status = ctl.status /\ ctl'.attempted = ctl.attempted
        /\ ctl'.written = ctl.written /\ ctl'.closed = ctl.closed /\ ctl'.readiness = ctl.readiness
        /\ \/ GrantAvailable /\ ctl'.state = "VALIDATING_GRANT" /\ ~ctl.attempted
           \/ ~GrantAvailable /\ ctl'.state = "UNKNOWN"
           \/ ~GrantAvailable /\ ctl'.state = "NONE" /\ ctl.state = "NONE"
    <3>1. CASE GrantAvailable
      BY <1>1, <2>1, <2>4, <3>1 DEF Channels, CtlState, GrantAvailable
    <3>2. CASE ~GrantAvailable /\ ctl.state = "NONE"
      BY <1>1, <2>1, <3>2
    <3>3. CASE ~GrantAvailable /\ ctl.state # "NONE"
      BY <1>1, <2>1, <3>3 DEF Channels, CtlState, PoisonedChannels
    <3> QED BY <3>1, <3>2, <3>3
  <2>6. journal.state = "READY" /\ journal.sequence = 3 /\ journal' = [journal EXCEPT !.state = "SEALED_ACTIVE"]
    BY <2>1 DEF seal_active
  <2>7. UNCHANGED <<clock, faults, alive, disk, backend, adapter, verdict>> /\ clock' \in Nat
        /\ faults' \in 0..MaxFaults
    BY <1>1 DEF worldVars, journalVars, Working, JournalExact
  <2>8. JournalExact'
    BY <2>7, JournalKept
  <2>9. SessionFollows' /\ journal'.sequence = 3
    BY <2>3, <2>6, <2>7, SessionEnds
  <2>10. GateKnows'
    BY <1>1, <2>3, <2>9, GateKept
  <2>11. GrantOnce'
    <3>1. channel' \in Phase /\ channel' # "WRITER_OPEN" /\ ~ctl.attempted
      BY <2>1 DEF Phase, GrantOnce
    <3> QED BY <1>1, <2>3, <2>5, <2>9, <3>1 DEF GrantOnce
  <2>12. StatusShort'
    BY <1>1, <2>5 DEF StatusShort
  <2> QED BY <2>8, <2>9, <2>10, <2>11, <2>12
<1> QED BY <1>2, <1>3

\* The channels give up inside the grant, and so does the controller.
LEMMA GrantFallsKeeps ==
    ASSUME GrantInv, UNCHANGED <<worldVars, journalVars, contract, journal, channel, child, status>>,
           Working \/ Failing, gate.pc = "grant", gate' = Unwinds(gate),
           ctl' = PoisonedChannels(ctl)
                \/ ctl' = [PoisonedChannels(ctl) EXCEPT !.owned = FALSE],
           grant' \in GrantPipe, Len(grant'.bytes) <= grant'.sent,
           grant'.sent = 1 => ctl.attempted, grant.sent = 1 => grant'.sent = 1,
           grant'.writers \subseteq grant.writers
    PROVE  GrantInv'
<1> USE DEF GrantInv
<1>1. GateKeeps /\ gate'.state = "UNKNOWN" /\ gate'.pc = "idle"
  BY GateFalls
<1>2. /\ ctl' \in Channels /\ ctl'.state = "UNKNOWN" /\ ctl'.status = ctl.status
      /\ ctl'.attempted = ctl.attempted /\ ctl'.written = ctl.written /\ ctl'.closed = ctl.closed
      /\ ctl'.readiness = ctl.readiness
  BY DEF GrantOnce, Channels, CtlState, PoisonedChannels
<1>3. JournalExact' /\ SessionFollows'
  BY <1>1, QuietJournal
<1>4. GateKnows'
  BY <1>1, GateKept
<1>5. GrantOnce'
  BY <1>1, <1>2 DEF GrantOnce, GateKeeps
<1>6. StatusShort'
  BY <1>2 DEF StatusShort
<1> QED BY <1>3, <1>4, <1>5, <1>6

LEMMA LatchesKeeps == ASSUME GrantInv, LatchesAttempt PROVE GrantInv'
<1> USE DEF GrantInv
<1>1. /\ UNCHANGED <<worldVars, journalVars, contract, journal, channel, child, grant, status>> /\ Working
      /\ gate.pc = "grant" /\ ctl.state = "VALIDATING_GRANT" /\ ctl \in Channels /\ ~ctl.attempted
      /\ grant \in GrantPipe /\ Len(grant.bytes) <= grant.sent /\ grant.sent # 1
  BY DEF LatchesAttempt, CtlUnchanged, GrantOnce
<1>2. CASE ctl' = PoisonedChannels(ctl) /\ gate' = Unwinds(gate)
  BY <1>1, <1>2, GrantFallsKeeps
<1>3. CASE /\ ctl' = [ctl EXCEPT !.state = "GRANT_ATTEMPTED", !.attempted = TRUE] /\ gate' = gate
           /\ _validate_grant_authority(ctl)
  <2>1. /\ ctl' \in Channels /\ ctl'.state = "GRANT_ATTEMPTED" /\ ctl'.attempted
        /\ ctl'.written = ctl.written /\ ctl'.closed = ctl.closed
        /\ ctl'.readiness = "taken" /\ ctl'.status = <<"R">> /\ ctl'.status = ctl.status
    BY <1>1, <1>3 DEF Channels, CtlState, _validate_grant_authority
  <2>2. journal.sequence = 3 /\ gate.consumed /\ channel # "WRITER_OPEN"
    BY <1>3 DEF _validate_grant_authority, _validate_permit, _validate_chain
  <2>3. JournalExact' /\ SessionFollows'
    BY <1>1, <1>3, QuietJournal
  <2>4. GateKnows' /\ StatusShort'
    BY <1>1, <1>3, <2>1 DEF GateKnows, StatusShort
  <2>5. grant.sent = 0 /\ ~ctl.written /\ ~ctl.closed /\ gate.state # "GRANT_PROTOCOL_COMPLETED"
    BY <1>1, Unattempted
  <2>6. GrantOnce'
    BY <1>1, <1>3, <2>1, <2>2, <2>5 DEF GrantOnce
  <2> QED BY <2>3, <2>4, <2>6
<1> QED BY <1>2, <1>3 DEF LatchesAttempt

\* The one byte goes into an empty pipe.
LEMMA GWritten ==
    ASSUME GrantOnce, grant.sent = 0, WriteG
    PROVE  /\ grant' \in GrantPipe /\ grant'.sent = 1 /\ Len(grant'.bytes) <= 1
           /\ grant'.writers = grant.writers
<1>1. grant \in GrantPipe /\ grant.bytes \in Seq({"G"}) /\ Len(grant.bytes) <= 0
  BY DEF GrantOnce, GrantPipe
<1> DEFINE b == Append(grant.bytes, "G")
<1>2. b \in Seq({"G"}) /\ Len(b) = Len(grant.bytes) + 1 /\ Len(grant.bytes) = 0
  BY <1>1
<1>3. grant' = [grant EXCEPT !.bytes = b, !.sent = 1]
  BY DEF WriteG
<1> HIDE DEF b
<1>4. grant' \in GrantPipe /\ grant'.sent = 1 /\ grant'.bytes = b /\ grant'.writers = grant.writers
  <2>1. b \in Seq({"G"}) /\ 1 \in 0..1
    BY <1>2
  <2> QED BY <1>1, <1>3, <2>1 DEF GrantPipe
<1>5. Len(b) <= 1
  BY <1>2
<1> QED BY <1>4, <1>5

LEMMA WriteGrantKeeps == ASSUME GrantInv, write_grant PROVE GrantInv'
<1> USE DEF GrantInv
<1>1. /\ UNCHANGED <<worldVars, journalVars, contract, journal, channel, child, status>> /\ Working
      /\ gate.pc = "grant" /\ ctl.state = "GRANT_ATTEMPTED" /\ ctl \in Channels /\ ctl.attempted
      /\ grant \in GrantPipe /\ Len(grant.bytes) <= grant.sent /\ grant.sent = 0 /\ ~ctl.written
  BY DEF write_grant, Granting, GrantOnce
<1>2. CASE GrantFails /\ grant' = grant
  BY <1>1, <1>2, GrantFallsKeeps DEF GrantFails
<1>3. CASE WriteG /\ ctl' = [ctl EXCEPT !.written = TRUE] /\ gate' = gate
  <2>1. /\ ctl' \in Channels /\ ctl'.state = ctl.state /\ ctl'.attempted = ctl.attempted
        /\ ctl'.written /\ ctl'.closed = ctl.closed
        /\ ctl'.readiness = ctl.readiness /\ ctl'.status = ctl.status
    BY <1>1, <1>3 DEF Channels
  <2>2. /\ grant' \in GrantPipe /\ grant'.sent = 1 /\ Len(grant'.bytes) <= 1
        /\ grant'.writers = grant.writers
    BY <1>1, <1>3, GWritten
  <2>3. JournalExact' /\ SessionFollows'
    BY <1>1, <1>3, QuietJournal
  <2>4. GateKnows' /\ StatusShort'
    BY <1>1, <1>3, <2>1 DEF GateKnows, StatusShort
  <2>5. GrantOnce'
    BY <1>1, <1>3, <2>1, <2>2 DEF GrantOnce
  <2> QED BY <2>3, <2>4, <2>5
<1> QED BY <1>2, <1>3 DEF write_grant

LEMMA WriteFailsKeeps == ASSUME GrantInv, GrantWriteFails PROVE GrantInv'
<1> USE DEF GrantInv
<1>1. /\ UNCHANGED <<worldVars, journalVars, contract, journal, channel, child, status>> /\ Failing
      /\ gate.pc = "grant" /\ ctl.attempted /\ GrantFails
      /\ grant \in GrantPipe /\ Len(grant.bytes) <= grant.sent /\ grant.sent = 0
  BY DEF GrantWriteFails, Granting, GrantOnce
<1>2. CASE grant' = grant
  BY <1>1, <1>2, GrantFallsKeeps DEF GrantFails
<1>3. CASE WriteG
  BY <1>1, <1>3, GWritten, GrantFallsKeeps DEF GrantFails
<1> QED BY <1>2, <1>3 DEF GrantWriteFails

\* The supervisor's end of the grant pipe is closed.
LEMMA WriterGone ==
    ASSUME GrantOnce, NEW w, grant' = [grant EXCEPT !.writers = @ \ {w}]
    PROVE  /\ grant' \in GrantPipe /\ grant'.sent = grant.sent /\ grant'.bytes = grant.bytes
           /\ grant'.writers = grant.writers \ {w} /\ Len(grant'.bytes) <= grant'.sent
<1>1. /\ grant' \in GrantPipe /\ grant'.sent = grant.sent /\ grant'.bytes = grant.bytes
      /\ grant'.writers = grant.writers \ {w}
  BY DEF GrantOnce, GrantPipe
<1> QED BY <1>1 DEF GrantOnce

LEMMA CloseGrantKeeps == ASSUME GrantInv, close_grant PROVE GrantInv'
<1> USE DEF GrantInv
<1>1. /\ UNCHANGED <<worldVars, journalVars, contract, journal, channel, child, status>> /\ Working
      /\ gate.pc = "grant" /\ ctl.state = "GRANT_ATTEMPTED" /\ ctl \in Channels /\ ctl.attempted
      /\ grant \in GrantPipe /\ Len(grant.bytes) <= grant.sent /\ grant.sent = 1 /\ ctl.written
      /\ gate.state # "GRANT_PROTOCOL_COMPLETED"
  BY DEF close_grant, Granting, GrantOnce, GateKnows
<1>2. CASE GrantFails /\ grant' = grant
  BY <1>1, <1>2, GrantFallsKeeps DEF GrantFails
<1>3. CASE /\ grant' = [grant EXCEPT !.writers = @ \ {"supervisor"}] /\ gate' = gate
           /\ ctl' = [ctl EXCEPT !.owned = FALSE, !.closed = TRUE, !.state = "WRITER_CLOSE_CONFIRMED"]
  <2>1. /\ ctl' \in Channels /\ ctl'.state = "WRITER_CLOSE_CONFIRMED" /\ ctl'.attempted = ctl.attempted
        /\ ctl'.written = ctl.written /\ ctl'.closed
        /\ ctl'.readiness = ctl.readiness /\ ctl'.status = ctl.status
    BY <1>1, <1>3 DEF Channels, CtlState
  <2>2. /\ grant' \in GrantPipe /\ grant'.sent = grant.sent /\ grant'.bytes = grant.bytes
        /\ grant'.writers = grant.writers \ {"supervisor"}
    BY <1>3, WriterGone
  <2>3. JournalExact' /\ SessionFollows'
    BY <1>1, <1>3, QuietJournal
  <2>4. GateKnows' /\ StatusShort'
    BY <1>1, <1>3, <2>1 DEF GateKnows, StatusShort
  <2>5. GrantOnce'
    BY <1>1, <1>3, <2>1, <2>2 DEF GrantOnce
  <2> QED BY <2>3, <2>4, <2>5
<1> QED BY <1>2, <1>3 DEF close_grant

LEMMA CloseFailsKeeps == ASSUME GrantInv, GrantCloseFails PROVE GrantInv'
<1> USE DEF GrantInv
<1>1. /\ UNCHANGED <<worldVars, journalVars, contract, journal, channel, child, status>> /\ Failing
      /\ gate.pc = "grant" /\ ctl.attempted /\ gate' = Unwinds(gate)
      /\ ctl' = [PoisonedChannels(ctl) EXCEPT !.owned = FALSE]
      /\ grant \in GrantPipe /\ Len(grant.bytes) <= grant.sent
  BY DEF GrantCloseFails, Granting, GrantOnce
<1>2. CASE grant' = grant
  BY <1>1, <1>2, GrantFallsKeeps
<1>3. CASE grant' = [grant EXCEPT !.writers = @ \ {"supervisor"}]
  BY <1>1, <1>3, WriterGone, GrantFallsKeeps
<1> QED BY <1>2, <1>3 DEF GrantCloseFails

LEMMA CompletesKeeps == ASSUME GrantInv, GrantCompletes PROVE GrantInv'
<1> USE DEF GrantInv
<1>1. /\ UNCHANGED <<worldVars, journalVars, contract, journal, ctl, child, grant, status>> /\ Working
      /\ UNCHANGED <<contract, journal, ctl, kidVars>>
      /\ gate.pc = "grant" /\ ctl.state = "WRITER_CLOSE_CONFIRMED" /\ gate \in Gate /\ ctl.closed
      /\ ctl.attempted /\ channel \in Phase
  BY DEF GrantCompletes, kidVars, GrantOnce, GateKnows
<1>2. CASE gate' = Unwinds(gate) /\ channel' = channel
  BY <1>1, <1>2, UnwindKeeps
<1>3. CASE /\ channel' = "EOF_CONFIRMED" /\ journal.state = "SEALED_ACTIVE"
           /\ gate' = [gate EXCEPT !.state = "GRANT_PROTOCOL_COMPLETED", !.pc = "idle"]
  <2>1. GateKeeps /\ gate'.state = "GRANT_PROTOCOL_COMPLETED" /\ gate'.pc = "idle"
    BY <1>1, <1>3 DEF GateKeeps, Gate, GateStates
  <2>2. JournalExact' /\ SessionFollows'
    BY <1>1, <2>1, QuietJournal
  <2>3. GateKnows' /\ StatusShort'
    BY <1>1, <2>1, GateKept, StatusKept
  <2>4. GrantOnce'
    BY <1>1, <1>3, <2>1 DEF GrantOnce, GateKeeps, Phase
  <2> QED BY <2>2, <2>3, <2>4
<1> QED BY <1>2, <1>3 DEF GrantCompletes, confirm_eof

LEMMA CalledOutOfPhaseKeeps == ASSUME GrantInv, CalledOutOfPhase PROVE GrantInv'
<1> USE DEF GrantInv
<1>1. GateKeeps /\ gate'.state = "UNKNOWN" /\ gate'.pc = gate.pc
  BY PoisonFacts DEF CalledOutOfPhase, GateKeeps, GateKnows
<1>2. ctl.state \in {"VALIDATING_GRANT", "GRANT_ATTEMPTED"} => gate'.pc = "grant"
  BY <1>1 DEF GrantOnce
<1> QED BY <1>1, <1>2, GateStepKeeps DEF CalledOutOfPhase

-----------------------------------------------------------------------------
(* The child, the clock and the end of the supervisor                      *)

LEMMA SupervisorDiesKeeps == ASSUME GrantInv, SupervisorDies PROVE GrantInv'
<1> USE DEF GrantInv
<1>1. /\ UNCHANGED <<clock, disk, backend, adapter, verdict, contract, gate, journal, channel, ctl, child>>
      /\ alive' \in BOOLEAN /\ faults' \in 0..MaxFaults /\ status \in StatusPipe
      /\ status' = [status EXCEPT !.writers = @ \ {"supervisor"}]
  BY FaultsBounded DEF SupervisorDies, journalVars, gateVars, StatusShort
<1>2. /\ grant' \in GrantPipe /\ grant'.sent = grant.sent /\ grant'.bytes = grant.bytes
      /\ grant'.writers = grant.writers \ {"supervisor"} /\ Len(grant'.bytes) <= grant'.sent
  BY WriterGone DEF SupervisorDies
<1>3. status' \in StatusPipe /\ status'.bytes = status.bytes
  BY <1>1 DEF StatusPipe
<1>4. JournalExact'
  BY <1>1 DEF JournalExact, Writing
<1>5. SessionFollows' /\ GateKnows'
  BY <1>1 DEF SessionFollows, GateKnows
<1>6. GrantOnce'
  BY <1>1, <1>2 DEF GrantOnce
<1>7. StatusShort'
  BY <1>1, <1>3 DEF StatusShort
<1> QED BY <1>4, <1>5, <1>6, <1>7

\* What the supervisor keeps of a step of the child.
LEMMA ChildSteps ==
    ASSUME GrantInv, UNCHANGED ChildUnchanged, Working \/ Failing,
           child' \in Launched, child'.bound = child.bound, child.at # "unborn"
    PROVE  /\ JournalExact' /\ SessionFollows' /\ GateKnows'
           /\ UNCHANGED <<alive, ctl, gate, journal, channel>>
<1> USE DEF GrantInv
<1>1. UNCHANGED <<worldVars, alive, journalVars, contract, gate, journal, channel, ctl>>
  BY DEF ChildUnchanged, gateVars, worldVars
<1>2. JournalExact' /\ SessionFollows'
  BY <1>1, QuietJournal
<1>3. GateKnows'
  BY <1>1 DEF GateKnows
<1> QED BY <1>1, <1>2, <1>3

LEMMA Joined ==
    ASSUME NEW S, NEW a \in Seq(S), NEW b \in Seq(S)
    PROVE  a \o b \in Seq(S) /\ Len(a \o b) = Len(a) + Len(b) /\ Len(a) \in Nat
OBVIOUS

LEMMA EndsKeeps ==
    ASSUME GrantInv, UNCHANGED ChildUnchanged, Working \/ Failing, CanRead, NEW at, NEW bytes,
           Ends(at, bytes), at = "payload" => child.at = "armed",
           \/ at = "exited" /\ bytes = <<"E">>
           \/ at \in {"payload", "dead"} /\ bytes = <<>>
    PROVE  GrantInv'
<1> USE DEF GrantInv
<1>1. /\ child \in Launched /\ child' = [child EXCEPT !.at = at]
      /\ at \in {"exited", "payload", "dead"} /\ child.at \in {"forked", "ready", "gotG", "armed"}
      /\ grant' = [grant EXCEPT !.writers = @ \ {"child"}] /\ status \in StatusPipe
  BY DEF Ends, CanRead, GateKnows, StatusShort
<1>2. child' \in Launched /\ child'.bound = child.bound /\ child'.at = at
  BY <1>1 DEF Launched
<1>3. /\ JournalExact' /\ SessionFollows' /\ GateKnows'
      /\ UNCHANGED <<alive, ctl, gate, journal, channel>>
  BY <1>1, <1>2, ChildSteps
<1>4. /\ grant' \in GrantPipe /\ grant'.sent = grant.sent /\ grant'.bytes = grant.bytes
      /\ grant'.writers = grant.writers \ {"child"} /\ Len(grant'.bytes) <= grant'.sent
  BY <1>1, WriterGone
<1>5. GrantOnce'
  BY <1>1, <1>2, <1>3, <1>4 DEF GrantOnce
<1>6. StatusShort'
  <2> DEFINE more == IF alive THEN status.bytes \o bytes ELSE status.bytes
  <2>1. /\ status.bytes \in Seq({"R", "E"}) /\ bytes \in Seq({"R", "E"})
        /\ Len(bytes) = IF at = "exited" THEN 1 ELSE 0
    <3>1. <<"E">> \in Seq({"R", "E"}) /\ Len(<<"E">>) = 1
      OBVIOUS
    <3>2. <<>> \in Seq({"R", "E"}) /\ Len(<<>>) = 0
      OBVIOUS
    <3>3. status.bytes \in Seq({"R", "E"})
      BY <1>1 DEF StatusPipe
    <3>4. CASE at = "exited"
      BY <3>1, <3>3, <3>4
    <3>5. CASE at # "exited"
      <4>1. bytes = <<>>
        BY <3>5, Zenon
      <4>2. Len(bytes) = 0
        BY <3>2, <4>1
      <4>3. bytes \in Seq({"R", "E"})
        BY <4>1
      <4> QED BY <3>3, <3>5, <4>2, <4>3
    <3> QED BY <3>4, <3>5
  <2>2. /\ more \in Seq({"R", "E"}) /\ Len(status.bytes) \in Nat
        /\ Len(more) \in {Len(status.bytes), Len(status.bytes) + Len(bytes)}
    <3>1. /\ status.bytes \o bytes \in Seq({"R", "E"}) /\ Len(status.bytes) \in Nat
          /\ Len(status.bytes \o bytes) = Len(status.bytes) + Len(bytes)
      BY <2>1, Joined, Zenon
    <3> QED BY <2>1, <3>1, Zenon
  <2>3. status' = [bytes |-> more, writers |-> status.writers \ {"child"}]
    BY DEF Ends
  <2> HIDE DEF more
  <2>4. status' \in StatusPipe /\ status'.bytes = more
    BY <1>1, <2>2, <2>3 DEF StatusPipe
  <2>5. PICK a \in Nat : a = Len(ctl.status)
    BY DEF GrantOnce, Channels
  <2>6. PICK b \in Nat : b = Len(status.bytes)
    BY <2>2
  <2>7. a + b <= IF child.at = "forked" THEN 0 ELSE 1
    BY <1>1, <2>5, <2>6 DEF StatusShort, Reported
  <2>8. Len(more) \in {b, b + (IF at = "exited" THEN 1 ELSE 0)}
    BY <2>1, <2>2, <2>6
  <2>9. a + Len(more) <= IF at = "exited" THEN 2 ELSE 1
    BY <2>7, <2>8
  <2> QED BY <1>1, <1>2, <1>3, <2>4, <2>5, <2>9 DEF StatusShort, Reported
<1> QED BY <1>3, <1>5, <1>6

LEMMA ChildReadyKeeps == ASSUME GrantInv, ChildReady PROVE GrantInv'
<1> USE DEF GrantInv
<1>1. CASE ~alive
  BY <1>1, EndsKeeps DEF ChildReady, _child_fail, CanRead
<1>2. CASE alive
  <2>1. /\ child \in Launched /\ child.at = "forked" /\ Working /\ UNCHANGED ChildUnchanged
        /\ child' = [child EXCEPT !.at = "ready", !.deadline = clock + Deadline]
        /\ grant' = [grant EXCEPT !.writers = @ \ {"child"}]
        /\ status \in StatusPipe /\ status' = [status EXCEPT !.bytes = Append(@, "R")]
    BY <1>2 DEF ChildReady, GateKnows, StatusShort
  <2>2. clock + Deadline \in Nat
    BY JournalAssumption DEF JournalExact
  <2>3. child' \in Launched /\ child'.bound = child.bound /\ child'.at = "ready"
    BY <2>1, <2>2 DEF Launched
  <2>4. /\ JournalExact' /\ SessionFollows' /\ GateKnows'
        /\ UNCHANGED <<alive, ctl, gate, journal, channel>>
    BY <2>1, <2>3, ChildSteps
  <2>5. /\ grant' \in GrantPipe /\ grant'.sent = grant.sent /\ grant'.bytes = grant.bytes
        /\ grant'.writers = grant.writers \ {"child"} /\ Len(grant'.bytes) <= grant'.sent
    BY <2>1, WriterGone
  <2>6. GrantOnce'
    BY <2>1, <2>3, <2>4, <2>5 DEF GrantOnce
  <2>7. StatusShort'
    <3> DEFINE more == Append(status.bytes, "R")
    <3>1. status.bytes \in Seq({"R", "E"})
      BY <2>1 DEF StatusPipe
    <3>2. more \in Seq({"R", "E"}) /\ Len(more) = Len(status.bytes) + 1 /\ Len(status.bytes) \in Nat
      BY <3>1
    <3>3. status' = [status EXCEPT !.bytes = more]
      BY <2>1
    <3> HIDE DEF more
    <3>4. status' \in StatusPipe /\ status'.bytes = more
      BY <2>1, <3>2, <3>3 DEF StatusPipe
    <3>5. PICK a \in Nat : a = Len(ctl.status)
      BY DEF GrantOnce, Channels
    <3>6. PICK b \in Nat : b = Len(status.bytes)
      BY <3>2
    <3>7. a + b <= 0
      BY <2>1, <3>5, <3>6 DEF StatusShort, Reported
    <3>8. a + Len(more) <= 1
      BY <3>2, <3>6, <3>7
    <3> QED BY <2>3, <2>4, <3>4, <3>5, <3>8 DEF StatusShort, Reported
  <2> QED BY <2>4, <2>6, <2>7
<1> QED BY <1>1, <1>2

LEMMA ChildReadsKeeps == ASSUME GrantInv, ChildReads PROVE GrantInv'
<1> USE DEF GrantInv
<1>1. /\ child \in Launched /\ child.at \in {"ready", "gotG"} /\ Working /\ UNCHANGED ChildUnchanged
      /\ grant \in GrantPipe /\ CanRead
  BY DEF ChildReads, GateKnows, GrantOnce, CanRead
<1>2. CASE _child_fail
  BY <1>1, <1>2, EndsKeeps DEF _child_fail
<1>3. CASE /\ child' = [child EXCEPT !.at = "gotG"] /\ grant' = [grant EXCEPT !.bytes = <<>>]
           /\ status' = status /\ child.at = "ready" /\ Len(grant.bytes) = 1
  <2>1. child' \in Launched /\ child'.bound = child.bound /\ child'.at = "gotG"
    BY <1>1, <1>3 DEF Launched
  <2>2. /\ JournalExact' /\ SessionFollows' /\ GateKnows'
        /\ UNCHANGED <<alive, ctl, gate, journal, channel>>
    BY <1>1, <2>1, ChildSteps
  <2>3. <<>> \in Seq({"G"}) /\ Len(<<>>) = 0
    OBVIOUS
  <2>4. grant' \in GrantPipe /\ grant'.sent = grant.sent /\ grant'.bytes = <<>> /\ grant'.writers = grant.writers
    BY <1>1, <1>3, <2>3 DEF GrantPipe
  <2>5. grant.sent = 1
    BY <1>1, <1>3 DEF GrantOnce, GrantPipe
  <2>6. Len(grant'.bytes) <= grant'.sent
    BY <2>3, <2>4, <2>5
  <2>7. GrantOnce'
    BY <1>3, <2>1, <2>2, <2>4, <2>5, <2>6 DEF GrantOnce
  <2>8. StatusShort'
    BY <1>3, <2>1, <2>2 DEF StatusShort, Reported
  <2> QED BY <2>2, <2>7, <2>8
<1>4. CASE child' = [child EXCEPT !.at = "armed"] /\ UNCHANGED <<grant, status>> /\ child.at = "gotG"
  <2>1. child' \in Launched /\ child'.bound = child.bound /\ child'.at = "armed"
    BY <1>1, <1>4 DEF Launched
  <2>2. /\ JournalExact' /\ SessionFollows' /\ GateKnows'
        /\ UNCHANGED <<alive, ctl, gate, journal, channel>>
    BY <1>1, <2>1, ChildSteps
  <2>3. GrantOnce'
    BY <1>4, <2>1, <2>2 DEF GrantOnce
  <2>4. StatusShort'
    BY <1>4, <2>1, <2>2 DEF StatusShort, Reported
  <2> QED BY <2>2, <2>3, <2>4
<1> QED BY <1>1, <1>2, <1>3, <1>4 DEF ChildReads

LEMMA ChildKeeps == ASSUME GrantInv, Child \/ ChildFails PROVE GrantInv'
<1>1. CASE ChildTimesOut
  BY <1>1, EndsKeeps DEF ChildTimesOut, _child_fail, CanRead
<1>2. CASE ChildExecs
  BY <1>2, EndsKeeps DEF ChildExecs, CanRead
<1>3. CASE ChildFails
  BY <1>3, EndsKeeps DEF ChildFails, _child_fail
<1> QED BY <1>1, <1>2, <1>3, ChildReadyKeeps, ChildReadsKeeps DEF Child

\* Nothing but the clock or the journal moves.
LEMMA RunKept ==
    ASSUME GrantInv, UNCHANGED runVars, JournalExact', adapter'.sequence >= adapter.sequence,
           journal.state = "PERSISTING" =>
                /\ adapter'.state = "READY" => adapter'.sequence = journal.sequence + 1
                /\ adapter'.state = "PERSISTING" => adapter'.sequence = journal.sequence
    PROVE  GrantInv'
<1> USE DEF GrantInv
<1>1. UNCHANGED <<contract, gate, journal, channel, ctl, child, grant, status>>
  BY DEF runVars
<1>2. SessionFollows'
  BY <1>1 DEF SessionFollows, Session, JournalExact, Adapter
<1>3. GateKnows' /\ GrantOnce' /\ StatusShort'
  BY <1>1 DEF GateKnows, GrantOnce, StatusShort
<1> QED BY <1>2, <1>3

LEMMA TickKeeps == ASSUME GrantInv, Tick PROVE GrantInv'
<1> USE DEF GrantInv
<1>1. UNCHANGED <<faults, alive, disk, backend, adapter, verdict, runVars>> /\ clock' = clock + 1
  BY DEF Tick, journalVars
<1>2. JournalExact'
  BY <1>1, JournalKept DEF JournalExact
<1>3. adapter'.sequence >= adapter.sequence
  BY <1>1 DEF JournalExact, Adapter
<1> QED BY <1>1, <1>2, <1>3, RunKept DEF SessionFollows

LEMMA JournalStepKeeps == ASSUME GrantInv, JournalNext, UNCHANGED runVars PROVE GrantInv'
<1> USE DEF GrantInv
<1>1. JournalExact'
  BY JournalNextKeeps
<1>2. \/ adapter' = adapter
      \/ adapter.state = "READY" /\ adapter' = [adapter EXCEPT !.state = "SEALED"]
      \/ adapter' = [adapter EXCEPT !.state = "UNKNOWN"]
      \/ /\ adapter.state = "PERSISTING"
         /\ adapter' = [state |-> "READY", sequence |-> adapter.sequence + 1]
  BY DEF JournalNext, CreateRecord, _write_all, persist_exact_file, PersistFails, AppendRefused,
         RefuseAppend, seal_pregrant, release_descriptors_preserving_state, Replaced, _independent_verify
<1>3. adapter \in Adapter /\ adapter' \in Adapter
  BY <1>1 DEF JournalExact
<1>4. adapter'.sequence >= adapter.sequence
  BY <1>2, <1>3 DEF Adapter
<1>5. journal.state = "PERSISTING" =>
        /\ adapter'.state = "READY" => adapter'.sequence = journal.sequence + 1
        /\ adapter'.state = "PERSISTING" => adapter'.sequence = journal.sequence
  BY <1>2, <1>3 DEF Adapter, SessionFollows
<1> QED BY <1>1, <1>4, <1>5, RunKept

\* Every step of the supervised run.
LEMMA GrantNext == ASSUME GrantInv, PreGrantNext PROVE GrantInv'
<1>1. CASE persist_intent
  BY <1>1, EnterKeeps DEF persist_intent, Enters
<1>2. CASE IntentPersisted
  BY <1>2, LeavesKeeps DEF IntentPersisted, GateStates
<1>3. CASE ChildBoundPersisted
  BY <1>3, LeavesKeeps DEF ChildBoundPersisted, GateStates
<1>4. CASE issue_grant_once
  BY <1>4, EnterKeeps DEF issue_grant_once, Enters
<1>5. CASE ExecIssuedPersisted
  BY <1>5, LeavesKeeps DEF ExecIssuedPersisted, GateStates
<1>6. CASE Supervisor
  <2>1. CASE (CreateRecord \/ _write_all \/ persist_exact_file) /\ UNCHANGED runVars
    BY <2>1, JournalStepKeeps DEF JournalNext
  <2> QED BY <1>1, <1>2, <1>3, <1>4, <1>5, <1>6, <2>1, PersistReturnsKeeps, PrepareKeeps, SpawnKeeps,
             BindsKeeps, CaptureKeeps, ChildBoundKeeps, BindControlKeeps, AttachKeeps, StatusTurnKeeps, DrainKeeps,
             TurnEndsKeeps, TakeReadinessKeeps, SealsKeeps, LatchesKeeps, WriteGrantKeeps,
             CloseGrantKeeps, CompletesKeeps DEF Supervisor
<1> QED BY <1>6, ChildKeeps, TickKeeps, JournalStepKeeps, SpawnFailsKeeps, WriteFailsKeeps,
           CloseFailsKeeps, CalledOutOfPhaseKeeps, ChannelsOutOfPhaseKeeps, SupervisorDiesKeeps
        DEF PreGrantNext

-----------------------------------------------------------------------------
(* The V2 chain                                                            *)

\* Under V2 no step of the controller, its child or its channels is enabled.
LEMMA V2Idle ==
    ASSUME OneContract, contract = "V2", PreGrantNext
    PROVE  UNCHANGED <<contract, gate, child, ctl, grant>>
<1>1. /\ gate.state = "NEW" /\ gate.pc = "idle" /\ child.at = "unborn" /\ ~child.bound
      /\ ctl.state = "NONE" /\ contract # "V1"
  BY DEF OneContract, FreshGate, Unforked, Unbound
<1>2. CASE Supervisor
  <2>1. ~persist_intent /\ ~prepare_and_bind_unarmed /\ ~issue_grant_once
    BY <1>1 DEF persist_intent, prepare_and_bind_unarmed, issue_grant_once, Enters
  <2>2. ~IntentPersisted /\ ~ChildBoundPersisted /\ ~ExecIssuedPersisted /\ ~PersistReturns
    BY <1>1 DEF IntentPersisted, ChildBoundPersisted, ExecIssuedPersisted, Leaves, PersistReturns
  <2>3. ~spawn_unarmed /\ ~BindsPidfd /\ ~_capture_owned_evidence /\ ~PersistsChildBound
    BY <1>1 DEF spawn_unarmed, BindsPidfd, _capture_owned_evidence, PersistsChildBound
  <2>4. ~bind_parent_control /\ ~attach_pregrant_controller /\ ~read_status_turn /\ ~_drain /\ ~TurnEnds
    BY <1>1 DEF bind_parent_control, attach_pregrant_controller, read_status_turn, _drain, Draining, TurnEnds
  <2>5. ~take_readiness_once /\ ~SealsForGrant /\ ~LatchesAttempt /\ ~write_grant /\ ~close_grant
    BY <1>1 DEF take_readiness_once, SealsForGrant, LatchesAttempt, write_grant, close_grant, Granting
  <2>6. ~GrantCompletes
    BY <1>1 DEF GrantCompletes
  <2> QED BY <1>2, <2>1, <2>2, <2>3, <2>4, <2>5, <2>6 DEF Supervisor, runVars
<1>3. ~Child /\ ~ChildFails
  BY <1>1 DEF Child, ChildReady, ChildReads, ChildTimesOut, ChildExecs, ChildFails, CanRead
<1>4. ~SpawnFails /\ ~GrantWriteFails /\ ~GrantCloseFails
  BY <1>1 DEF SpawnFails, GrantWriteFails, GrantCloseFails, Granting
<1>5. ~CalledOutOfPhase /\ ~ChannelsOutOfPhase /\ ~SupervisorDies
  BY <1>1 DEF CalledOutOfPhase, ChannelsOutOfPhase, SupervisorDies
<1> QED BY <1>2, <1>3, <1>4, <1>5 DEF PreGrantNext, Tick, runVars

LEMMA ContractKept == ASSUME PreGrantNext PROVE contract' = contract
<1>1. CASE Supervisor
  <2>1. CASE persist_intent \/ issue_grant_once \/ PersistsChildBound
    BY <2>1 DEF persist_intent, issue_grant_once, PersistsChildBound
  <2>2. CASE IntentPersisted \/ ChildBoundPersisted \/ ExecIssuedPersisted \/ PersistReturns
    BY <2>2 DEF IntentPersisted, ChildBoundPersisted, ExecIssuedPersisted, Leaves, PersistReturns
  <2>3. CASE \/ prepare_and_bind_unarmed \/ spawn_unarmed \/ BindsPidfd \/ _capture_owned_evidence
             \/ SealsForGrant \/ GrantCompletes
    BY <2>3 DEF prepare_and_bind_unarmed, spawn_unarmed, BindsPidfd, _capture_owned_evidence,
                SealsForGrant, GrantCompletes
  <2>4. CASE bind_parent_control \/ attach_pregrant_controller \/ read_status_turn \/ _drain \/ TurnEnds
    BY <2>4 DEF bind_parent_control, attach_pregrant_controller, read_status_turn, _drain, TurnEnds,
                CtlUnchanged
  <2>5. CASE take_readiness_once \/ LatchesAttempt \/ write_grant \/ close_grant
    BY <2>5 DEF take_readiness_once, LatchesAttempt, write_grant, close_grant, CtlUnchanged
  <2> QED BY <1>1, <2>1, <2>2, <2>3, <2>4, <2>5 DEF Supervisor, runVars
<1>2. CASE Child \/ ChildFails
  BY <1>2 DEF Child, ChildReady, ChildReads, ChildTimesOut, ChildExecs, ChildFails, ChildUnchanged
<1>3. CASE SpawnFails \/ GrantWriteFails \/ GrantCloseFails
  BY <1>3 DEF SpawnFails, GrantWriteFails, GrantCloseFails
<1>4. CASE CalledOutOfPhase \/ ChannelsOutOfPhase \/ SupervisorDies
  BY <1>4 DEF CalledOutOfPhase, ChannelsOutOfPhase, SupervisorDies, CtlUnchanged
<1> QED BY <1>1, <1>2, <1>3, <1>4 DEF PreGrantNext, Tick, runVars

LEMMA V1NextKeeps == ASSUME RunInv, V1Next PROVE RunInv'
<1> USE DEF RunInv
<1>1. PreGrantNext /\ UNCHANGED <<binding, handle, chain, v2disk, launcher, seen>>
  BY DEF V1Next, v2Vars
<1>2. GrantInv'
  BY <1>1, GrantNext
<1>3. ChainExact' /\ IdentityBound' /\ ChainBegun'
  BY <1>1 DEF ChainExact, IdentityBound, ChainBegun
<1>4. OneContract'
  BY <1>1, ContractKept, V2Idle DEF OneContract
<1> QED BY <1>2, <1>3, <1>4

-----------------------------------------------------------------------------
\* A step of the chain leaves the supervised run as it was.
LEMMA RunUntouched ==
    ASSUME RunInv, UNCHANGED V1Unchanged, Working \/ Failing, contract = "V2" \/ chain' = chain
    PROVE  GrantInv' /\ OneContract'
<1> USE DEF RunInv
<1>1. /\ UNCHANGED <<clock, alive, disk, backend, adapter, verdict, runVars>>
      /\ UNCHANGED <<contract, gate, child, ctl, grant, journal>>
  BY DEF V1Unchanged, worldVars, journalVars, runVars
<1>2. JournalExact'
  BY <1>1, JournalKept, FaultsBounded DEF GrantInv, JournalExact
<1>3. adapter'.sequence >= adapter.sequence
  BY <1>1 DEF GrantInv, JournalExact, Adapter
<1>4. GrantInv'
  BY <1>1, <1>2, <1>3, RunKept DEF GrantInv, SessionFollows
<1>5. OneContract'
  BY <1>1 DEF OneContract
<1> QED BY <1>4, <1>5

\* A chain that is poisoned admits the event it may have left behind.
LEMMA PoisonedFacts ==
    ASSUME ChainExact, NEW c, c = PoisonedChain(chain) \/ c = [PoisonedChain(chain) EXCEPT !.busy = FALSE]
    PROVE  /\ c \in Chain /\ c.state = "UNKNOWN" /\ c.sequence = chain.sequence
           /\ c.at = chain.at /\ c.consumed = chain.consumed
           /\ chain.write_may_exist => c.write_may_exist
           /\ c.busy => chain.busy
<1>1. chain \in Chain
  BY DEF ChainExact
<1> DEFINE p == PoisonedChain(chain)
<1>2. /\ p \in Chain /\ p.state = "UNKNOWN" /\ p.sequence = chain.sequence
      /\ p.at = chain.at /\ p.consumed = chain.consumed
      /\ chain.write_may_exist => p.write_may_exist
      /\ p.busy = chain.busy
  BY <1>1 DEF PoisonedChain, Chain, ChainState
<1> HIDE DEF p
<1>3. CASE c = p
  BY <1>2, <1>3
<1>4. CASE c = [p EXCEPT !.busy = FALSE]
  BY <1>2, <1>4 DEF Chain
<1> QED BY <1>3, <1>4 DEF p

LEMMA PoisonKeeps ==
    ASSUME ChainExact, UNCHANGED v2disk,
           chain' = PoisonedChain(chain) \/ chain' = [PoisonedChain(chain) EXCEPT !.busy = FALSE]
    PROVE  ChainExact' /\ chain'.consumed = chain.consumed /\ chain'.state = "UNKNOWN"
           /\ chain'.sequence = chain.sequence /\ chain'.at = chain.at
<1>1. /\ chain' \in Chain /\ chain'.state = "UNKNOWN" /\ chain'.sequence = chain.sequence
      /\ chain'.at = chain.at /\ chain'.consumed = chain.consumed
      /\ chain.write_may_exist => chain'.write_may_exist
      /\ chain'.busy => chain.busy
  BY PoisonedFacts
<1>2. ChainExact'
  BY <1>1 DEF ChainExact, StateCounts
<1> QED BY <1>1, <1>2

\* An append begins in a state that says which event is next.
LEMMA AppendBegins ==
    ASSUME ChainExact, UNCHANGED v2disk, _append,
           chain.state \in {"READY_INTENT", "READY_CHILD_BOUND", "READY_EXEC_ISSUED"}, chain.consumed = 0
    PROVE  ChainExact' /\ chain'.consumed = 0
<1>1. /\ chain' \in Chain /\ chain'.state = "APPENDING" /\ chain'.busy /\ chain'.write_may_exist
      /\ chain'.sequence = chain.sequence /\ chain'.consumed = chain.consumed
  BY DEF _append, ChainExact, Chain, ChainState
<1>2. chain.sequence < 3
  BY DEF ChainExact, StateCounts
<1>3. ChainExact'
  BY <1>1, <1>2 DEF ChainExact, StateCounts
<1> QED BY <1>1, <1>3

LEMMA ConsumedZero ==
    ASSUME ChainExact, IdentityBound,
           chain.state \notin {"PREEXEC_AUTHORITY_CONSUMED", "UNKNOWN"}
    PROVE  chain.consumed = 0
BY DEF ChainExact, IdentityBound, Chain

\* The identity stands while nothing is bound, observed or consumed.
LEMMA IdentityKept ==
    ASSUME IdentityBound, UNCHANGED <<handle, launcher, seen>>,
           chain'.consumed = 0 \/ (/\ chain'.consumed = chain.consumed /\ chain'.sequence = chain.sequence
                                   /\ chain'.at = chain.at /\ chain'.state \in {chain.state, "UNKNOWN"})
    PROVE  IdentityBound'
BY DEF IdentityBound

LEMMA BegunKept ==
    ASSUME ChainBegun, binding' = [binding EXCEPT !.state = "UNKNOWN_V2_EVENT_CHAIN"]
                       \/ (UNCHANGED binding /\ binding.state # "ENROLLED_V2")
    PROVE  ChainBegun'
BY DEF ChainBegun, Binding

\* A chain that is validated has begun, and is the V2 contract's.
LEMMA ValidatedChain ==
    ASSUME NEW s, NEW i, _validate(s, i)
    PROVE  contract = "V2" /\ chain.state = s /\ handle.state = i /\ binding.state # "ENROLLED_V2"
BY DEF _validate, _validate_controller_claim, _validate_binding_phase

LEMMA Claims == ASSUME RunInv, construct_and_claim_v2_controller PROVE RunInv'
<1> USE DEF RunInv
<1>1. /\ UNCHANGED <<V1Unchanged, chain, v2disk, handle, launcher, seen>> /\ Working
      /\ binding' = [binding EXCEPT !.claim = "fresh"]
  BY DEF construct_and_claim_v2_controller
<1>2. ChainExact' /\ IdentityBound'
  BY <1>1 DEF ChainExact, IdentityBound
<1>3. ChainBegun'
  BY <1>1 DEF ChainBegun, Binding
<1> QED BY <1>1, <1>2, <1>3, RunUntouched

LEMMA Starts == ASSUME RunInv, start_v2_event_chain PROVE RunInv'
<1> USE DEF RunInv
<1>1. /\ UNCHANGED <<V1Unchanged, v2disk, handle, launcher, seen>> /\ Working /\ contract = "V2"
      /\ chain' = [chain EXCEPT !.state = "READY_INTENT"] /\ chain.state = "NONE"
      /\ binding' = [state |-> "V2_EVENT_CHAIN_ACTIVE", claim |-> "used"]
  BY DEF start_v2_event_chain, _validate_controller_claim, _validate_binding_phase, ChainBegun
<1>2. chain.consumed = 0
  BY <1>1, ConsumedZero
<1>3. /\ chain' \in Chain /\ chain'.state = "READY_INTENT" /\ chain'.sequence = chain.sequence
      /\ chain'.busy = chain.busy /\ chain'.consumed = 0 /\ chain'.write_may_exist = chain.write_may_exist
  BY <1>1, <1>2 DEF ChainExact, Chain, ChainState
<1>4. ChainExact'
  BY <1>1, <1>3 DEF ChainExact, StateCounts
<1>5. IdentityBound'
  BY <1>1, <1>3, IdentityKept
<1>6. ChainBegun'
  BY <1>1 DEF ChainBegun, Binding
<1> QED BY <1>1, <1>4, <1>5, <1>6, RunUntouched

LEMMA Appends == ASSUME RunInv, v2_persist_intent \/ persist_exec_issued PROVE RunInv'
<1> USE DEF RunInv
<1>1. /\ UNCHANGED <<V1Unchanged, v2disk, handle, launcher, seen>> /\ Working /\ contract = "V2"
      /\ chain.state \in {"READY_INTENT", "READY_EXEC_ISSUED"} /\ _append
      /\ binding.state # "ENROLLED_V2"
  BY ValidatedChain DEF v2_persist_intent, persist_exec_issued
<1>2. ChainExact' /\ chain'.consumed = 0
  BY <1>1, ConsumedZero, AppendBegins
<1>3. IdentityBound'
  BY <1>1, <1>2, IdentityKept
<1>4. ChainBegun'
  BY <1>1, BegunKept DEF _append
<1> QED BY <1>1, <1>2, <1>3, <1>4, RunUntouched

\* The chain is poisoned outside any change of the identity.
LEMMA PoisonChainKeeps ==
    ASSUME RunInv, UNCHANGED <<V1Unchanged, v2disk, handle, launcher, seen>>, Working \/ Failing, PoisonChain,
           chain.state # "NONE"
    PROVE  RunInv'
<1> USE DEF RunInv
<1>1. /\ ChainExact' /\ chain'.consumed = chain.consumed /\ chain'.state = "UNKNOWN"
      /\ chain'.sequence = chain.sequence /\ chain'.at = chain.at
  BY PoisonKeeps DEF PoisonChain
<1>2. IdentityBound'
  BY <1>1, IdentityKept
<1>3. ChainBegun'
  BY BegunKept DEF PoisonChain
<1>4. contract = "V2"
  BY DEF OneContract, GrantInv, GateKnows, FreshChain
<1> QED BY <1>1, <1>2, <1>3, <1>4, RunUntouched

LEMMA BindsUnarmed == ASSUME RunInv, persist_child_bound_fixture PROVE RunInv'
<1> USE DEF RunInv
<1>1. /\ UNCHANGED <<V1Unchanged, v2disk, launcher, seen>> /\ Working /\ contract = "V2"
      /\ chain.state = "READY_CHILD_BOUND" /\ handle.state = "ENROLLED" /\ binding.state # "ENROLLED_V2"
  BY ValidatedChain DEF persist_child_bound_fixture
<1>2. chain.consumed = 0
  BY <1>1, ConsumedZero
<1>3. CASE PoisonChain /\ UNCHANGED handle
  BY <1>1, <1>3, PoisonChainKeeps
<1>4. CASE bind_unarmed_model /\ (IF handle'.state = "UNARMED_BOUND" THEN _append ELSE PoisonChain)
  <2>1. /\ ChainExact' /\ chain'.consumed = 0
    <3>1. CASE _append
      BY <1>1, <1>2, <3>1, AppendBegins
    <3>2. CASE PoisonChain
      BY <1>1, <1>2, <3>2, PoisonKeeps DEF PoisonChain
    <3> QED BY <1>4, <3>1, <3>2
  <2>2. ChainBegun'
    BY <1>1, <1>4, BegunKept DEF PoisonChain, _append
  <2>3. /\ seen["first"] \in {"A", "B"} /\ seen["second"] \in {"A", "B"}
        /\ \/ /\ seen["first"] = seen["second"]
              /\ handle' = [handle EXCEPT !.state = "UNARMED_BOUND", !.unarmed = seen["first"]]
           \/ handle' = [handle EXCEPT !.state = "UNKNOWN"]
    BY <1>4 DEF bind_unarmed_model, _unarmed_observation
  <2>4. \/ /\ handle' \in Identity /\ handle'.state = "UNARMED_BOUND"
           /\ handle'.unarmed = seen["first"] /\ seen["first"] = seen["second"]
        \/ handle' \in Identity /\ handle'.state = "UNKNOWN"
    BY <2>3 DEF IdentityBound, Identity, Observation
  <2>5. IdentityBound'
    BY <1>1, <2>1, <2>3, <2>4 DEF IdentityBound
  <2> QED BY <1>1, <2>1, <2>2, <2>5, RunUntouched
<1> QED BY <1>3, <1>4 DEF persist_child_bound_fixture

LEMMA Stores == ASSUME RunInv, BackendStores PROVE RunInv'
<1> USE DEF RunInv
<1> DEFINE e == EVENT_ORDER[chain.sequence + 1]
<1>1. /\ UNCHANGED <<V1Unchanged, binding, handle, chain, launcher, seen>> /\ Working
      /\ chain.busy /\ Len(v2disk) = chain.sequence /\ v2disk' = Append(v2disk, e)
      /\ chain.sequence \in 0..2 /\ v2disk \in Seq(Kind)
  BY DEF BackendStores, ChainExact, Chain
<1>2. e \in Kind
  BY <1>1, EventOrder
<1>3. e = EVENT_ORDER[chain.sequence + 1]
  OBVIOUS
<1> HIDE DEF e
<1>4. /\ v2disk' \in Seq(Kind) /\ Len(v2disk') = chain.sequence + 1 /\ v2disk'[chain.sequence + 1] = e
      /\ \A i \in 1..chain.sequence : v2disk'[i] = v2disk[i]
  BY <1>1, <1>2
<1>5. \A i \in 1..Len(v2disk') : v2disk'[i] = EVENT_ORDER[i]
  BY <1>1, <1>3, <1>4 DEF ChainExact
<1>6. ChainExact'
  BY <1>1, <1>4, <1>5 DEF ChainExact, StateCounts
<1>7. IdentityBound' /\ ChainBegun'
  BY <1>1 DEF IdentityBound, ChainBegun
<1> QED BY <1>1, <1>6, <1>7, RunUntouched

LEMMA Returns == ASSUME RunInv, AppendReturns PROVE RunInv'
<1> USE DEF RunInv
<1>1. /\ UNCHANGED <<V1Unchanged, v2disk, handle, launcher, seen>> /\ Working /\ chain.busy
      /\ Len(v2disk) = chain.sequence + 1 /\ chain.state # "NONE" /\ chain.sequence \in 0..2
      /\ chain \in Chain /\ chain.consumed = 0
  BY DEF AppendReturns, ChainExact, Chain
<1>2. CASE PoisonChain
  BY <1>1, <1>2, PoisonChainKeeps
<1>3. CASE chain' = Acknowledged /\ UNCHANGED binding /\ chain.state = "APPENDING"
  <2> DEFINE s == ReadyStates[chain.sequence + 2]
  <2>1. /\ chain.sequence = 0 => s = "READY_CHILD_BOUND"
        /\ chain.sequence = 1 => s = "READY_EXEC_ISSUED"
        /\ chain.sequence = 2 => s = "SEALED_MODEL_ONLY"
    BY DEF ReadyStates
  <2>2. s \in ChainState /\ chain.sequence + 1 \in 0..3
    BY <1>1, <2>1 DEF ChainState
  <2>3. chain' = [chain EXCEPT !.state = s, !.busy = FALSE, !.inflight = FALSE,
                               !.write_may_exist = FALSE, !.sequence = @ + 1]
    BY <1>3 DEF Acknowledged
  <2> HIDE DEF s
  <2>4. /\ chain' \in Chain /\ chain'.state = s /\ ~chain'.busy /\ chain'.consumed = 0
        /\ chain'.sequence = chain.sequence + 1
    BY <1>1, <2>2, <2>3 DEF Chain
  <2>5. StateCounts(chain')
    BY <1>1, <2>1, <2>4 DEF StateCounts
  <2>6. s \notin {"APPENDING", "UNKNOWN"}
    BY <1>1, <2>1
  <2>7. ChainExact'
    <3>1. StateCounts(chain)'
      BY <2>5 DEF StateCounts
    <3> QED BY <1>1, <2>4, <2>6, <3>1 DEF ChainExact
  <2>8. IdentityBound'
    BY <1>1, <2>4, IdentityKept
  <2>9. ChainBegun' /\ contract = "V2"
    BY <1>1, <1>3 DEF ChainBegun, OneContract, FreshChain, GrantInv, GateKnows
  <2> QED BY <1>1, <2>7, <2>8, <2>9, RunUntouched
<1> QED BY <1>2, <1>3 DEF AppendReturns

LEMMA Fails == ASSUME RunInv, AppendFails \/ ChainRefused PROVE RunInv'
<1>1. chain.state # "NONE"
  BY DEF AppendFails, ChainRefused, RunInv, ChainExact
<1> QED BY <1>1, PoisonChainKeeps DEF AppendFails, ChainRefused

LEMMA Reentered == ASSUME RunInv, ChainReentered PROVE RunInv'
<1> USE DEF RunInv
<1>1. /\ UNCHANGED <<V1Unchanged, v2disk, handle, launcher, seen>> /\ Failing
      /\ chain.state \notin {"NONE", "UNKNOWN"} /\ contract = "V2"
  BY DEF ChainReentered, OneContract, FreshChain, GrantInv, GateKnows
<1>2. CASE chain' = PoisonedChain(chain) /\ binding' = [binding EXCEPT !.state = "UNKNOWN_V2_EVENT_CHAIN"]
  <2>1. /\ ChainExact' /\ chain'.consumed = chain.consumed /\ chain'.state = "UNKNOWN"
        /\ chain'.sequence = chain.sequence /\ chain'.at = chain.at
    BY <1>1, <1>2, PoisonKeeps
  <2>2. IdentityBound' /\ ChainBegun'
    BY <1>1, <1>2, <2>1, IdentityKept, BegunKept
  <2> QED BY <1>1, <2>1, <2>2, RunUntouched
<1>3. CASE UNCHANGED <<chain, binding>>
  BY <1>1, <1>3, RunUntouched DEF ChainExact, IdentityBound, ChainBegun
<1> QED BY <1>2, <1>3 DEF ChainReentered

LEMMA Mints == ASSUME RunInv, mint_v2_preexec_authority PROVE RunInv'
<1> USE DEF RunInv
<1>1. /\ UNCHANGED <<V1Unchanged, v2disk, launcher, seen>> /\ Working /\ contract = "V2"
      /\ chain.state = "SEALED_MODEL_ONLY" /\ handle.state = "UNARMED_BOUND"
      /\ binding.state # "ENROLLED_V2" /\ chain \in Chain /\ clock \in Nat
  BY ValidatedChain DEF mint_v2_preexec_authority, ChainExact, GrantInv, JournalExact
<1>2. chain.consumed = 0
  BY <1>1, ConsumedZero
<1>3. CASE PoisonChain /\ UNCHANGED handle
  BY <1>1, <1>3, PoisonChainKeeps
<1>4. CASE PoisonChain /\ handle' = [handle EXCEPT !.state = "UNKNOWN"]
  <2>1. ChainExact' /\ chain'.consumed = 0
    BY <1>1, <1>2, <1>4, PoisonKeeps DEF PoisonChain
  <2>2. handle' \in Identity /\ handle'.state = "UNKNOWN"
    BY <1>4 DEF IdentityBound, Identity
  <2>3. IdentityBound' /\ ChainBegun'
    BY <1>1, <1>4, <2>1, <2>2, BegunKept DEF IdentityBound, PoisonChain
  <2> QED BY <1>1, <2>1, <2>3, RunUntouched
<1>5. CASE /\ validate_preexec_model(seen["fresh"]) /\ UNCHANGED binding
           /\ handle' = [handle EXCEPT !.state = "MODEL_PREEXEC_VALIDATED"]
           /\ chain' = [chain EXCEPT !.state = "PREEXEC_READY", !.at = clock]
  <2>1. /\ chain' \in Chain /\ chain'.state = "PREEXEC_READY" /\ chain'.consumed = 0
        /\ chain'.sequence = chain.sequence /\ chain'.busy = chain.busy
        /\ chain'.write_may_exist = chain.write_may_exist
    BY <1>1, <1>2, <1>5 DEF Chain, ChainState
  <2>2. ChainExact'
    BY <1>1, <2>1 DEF ChainExact, StateCounts
  <2>3. handle' \in Identity /\ handle'.state = "MODEL_PREEXEC_VALIDATED" /\ handle'.unarmed = handle.unarmed
    BY <1>5 DEF IdentityBound, Identity
  <2>4. seen["fresh"] = handle.unarmed
    BY <1>5 DEF validate_preexec_model
  <2>5. IdentityBound'
    BY <1>1, <2>1, <2>3, <2>4 DEF IdentityBound
  <2>6. ChainBegun'
    BY <1>1, <1>5, BegunKept
  <2> QED BY <1>1, <2>2, <2>5, <2>6, RunUntouched
<1> QED BY <1>3, <1>4, <1>5 DEF mint_v2_preexec_authority

LEMMA Consumes == ASSUME RunInv, consume_v2_preexec_authority PROVE RunInv'
<1> USE DEF RunInv
<1>1. /\ UNCHANGED <<V1Unchanged, v2disk, handle, launcher, seen>> /\ Working /\ contract = "V2"
      /\ chain.state = "PREEXEC_READY" /\ handle.state = "MODEL_PREEXEC_VALIDATED"
      /\ binding.state # "ENROLLED_V2" /\ chain \in Chain /\ clock \in Nat
  BY ValidatedChain DEF consume_v2_preexec_authority, ChainExact, GrantInv, JournalExact
<1>2. chain.consumed = 0
  BY <1>1, ConsumedZero
<1>3. CASE PoisonChain
  BY <1>1, <1>3, PoisonChainKeeps
<1>4. CASE /\ InTime /\ UNCHANGED binding
           /\ chain' = [chain EXCEPT !.state = "PREEXEC_AUTHORITY_CONSUMED", !.consumed = @ + 1, !.at = clock]
  <2>1. chain' = [chain EXCEPT !.state = "PREEXEC_AUTHORITY_CONSUMED", !.consumed = 1, !.at = clock]
    BY <1>2, <1>4
  <2>2. /\ chain' \in Chain /\ chain'.state = "PREEXEC_AUTHORITY_CONSUMED" /\ chain'.consumed = 1
        /\ chain'.sequence = chain.sequence /\ chain'.busy = chain.busy /\ chain'.at = clock
        /\ chain'.write_may_exist = chain.write_may_exist
    <3>1. 1 \in 0..1 /\ "PREEXEC_AUTHORITY_CONSUMED" \in ChainState
      BY DEF ChainState
    <3> QED BY <1>1, <2>1, <3>1 DEF Chain
  <2>3. chain.sequence = 3 /\ ~chain.busy
    BY <1>1 DEF ChainExact, StateCounts
  <2>4. ChainExact'
    BY <1>1, <2>2, <2>3 DEF ChainExact, StateCounts
  <2>5. IdentityBound'
    BY <1>1, <1>4, <2>2, <2>3 DEF IdentityBound, InTime
  <2>6. ChainBegun'
    BY <1>1, <1>4, BegunKept
  <2> QED BY <1>1, <2>4, <2>5, <2>6, RunUntouched
<1> QED BY <1>3, <1>4 DEF consume_v2_preexec_authority

\* What a bound identity was bound with is not observed again.
LEMMA Observes ==
    ASSUME RunInv, NEW slot \in {"first", "second", "fresh"}, Observe(slot) \/ LauncherChanges
    PROVE  RunInv'
<1> USE DEF RunInv
<1>1. /\ UNCHANGED <<V1Unchanged, binding, handle, chain, v2disk>> /\ (Working \/ Failing)
  BY DEF Observe, LauncherChanges
<1>2. ChainExact' /\ ChainBegun'
  BY <1>1 DEF ChainExact, ChainBegun
<1>3. CASE LauncherChanges
  BY <1>1, <1>2, <1>3, RunUntouched DEF LauncherChanges, IdentityBound, Observation
<1>4. CASE Observe(slot)
  <2>1. seen' = [seen EXCEPT ![slot] = launcher] /\ UNCHANGED launcher /\ seen[slot] = "none"
        /\ (slot = "fresh" => handle.state = "UNARMED_BOUND")
    BY <1>4 DEF Observe
  <2>2. seen' \in [{"first", "second", "fresh"} -> Observation]
    BY <2>1 DEF IdentityBound
  <2>3. IdentityBound'
    BY <1>1, <2>1, <2>2 DEF IdentityBound
  <2> QED BY <1>1, <1>2, <2>3, RunUntouched
<1> QED BY <1>3, <1>4

LEMMA V2NextKeeps == ASSUME RunInv, V2Next PROVE RunInv'
BY Claims, Starts, Appends, BindsUnarmed, Stores, Returns, Fails, Reentered, Mints, Consumes, Observes
   DEF V2Next

-----------------------------------------------------------------------------
(* The theorems                                                            *)

LEMMA RunInit == ASSUME Init PROVE RunInv
<1>1. /\ clock = 0 /\ faults = 0 /\ alive = TRUE /\ disk = <<>> /\ backend = NewBackend
      /\ adapter = NewSession /\ verdict = "none" /\ gate = FreshGate /\ journal = NewJournal
      /\ channel = "WRITER_OPEN" /\ ctl = Unbound /\ child = Unforked /\ create_fd_bundle
      /\ contract \in {"V1", "V2"} /\ V2Init
  BY DEF Init, PreGrantInit, JournalInit
<1>2. \A S : <<>> \in Seq(S) /\ Len(<<>>) = 0
  OBVIOUS
<1>3. 0 \in 0..MaxFaults /\ 0 \in 0..3 /\ 0 \in 0..MAX_READS_PER_TURN /\ 0 \in Nat
  BY JournalAssumption, ReadsAssumption
<1>4. JournalExact
  <2>1. backend \in Backend /\ backend.records = 0 /\ ~Writing
    BY <1>1, <1>3 DEF NewBackend, Backend, Writing
  <2>2. adapter \in Adapter /\ adapter.sequence = 0 /\ adapter.state = "READY"
    BY <1>1, <1>3 DEF NewSession, Adapter
  <2>3. disk \in Seq(Record) /\ Len(disk) = 0
    BY <1>1, <1>2
  <2> QED BY <1>1, <1>3, <2>1, <2>2, <2>3 DEF JournalExact
<1>5. SessionFollows
  <2>1. journal \in Session /\ journal.sequence = 0 /\ journal.state = "READY" /\ gate.pc = "idle"
    BY <1>1, <1>3 DEF NewJournal, Session, FreshGate
  <2> QED BY <1>1, <2>1 DEF SessionFollows, NewSession
<1>6. GateKnows
  <2>1. gate \in Gate /\ gate.state = "NEW" /\ gate.pc = "idle"
    BY <1>1 DEF FreshGate, Gate, GateStates
  <2>2. child \in Launched /\ child.at = "unborn" /\ ~child.bound
    BY <1>1, <1>3 DEF Unforked, Launched
  <2> QED BY <1>1, <2>1, <2>2 DEF GateKnows
<1>7. /\ ctl \in Channels /\ ctl.state = "NONE" /\ ~ctl.attempted /\ ~ctl.written /\ ~ctl.closed
      /\ ctl.status = <<>>
  BY <1>1, <1>2, <1>3 DEF Unbound, Channels, CtlState
<1>8. grant \in GrantPipe /\ grant.sent = 0 /\ grant.bytes = <<>>
  BY <1>1, <1>2 DEF create_fd_bundle, GrantPipe
<1>9. GrantOnce
  <2>1. Len(grant.bytes) <= grant.sent
    BY <1>2, <1>8
  <2> QED BY <1>1, <1>7, <1>8, <2>1 DEF GrantOnce, Phase, Unforked, FreshGate
<1>10. StatusShort
  <2>1. status \in StatusPipe /\ status.bytes = <<>>
    BY <1>1, <1>2 DEF create_fd_bundle, StatusPipe
  <2>2. Len(ctl.status) = 0 /\ Len(status.bytes) = 0
    BY <1>2, <1>7, <2>1
  <2> QED BY <1>1, <2>1, <2>2 DEF StatusShort, Reported, Unforked
<1>11. /\ chain \in Chain /\ chain.state = "NONE" /\ chain.sequence = 0 /\ ~chain.busy
       /\ chain.consumed = 0 /\ chain = FreshChain
  BY <1>1, <1>3 DEF V2Init, FreshChain, Chain, ChainState
<1>12. ChainExact
  <2>1. v2disk \in Seq(Kind) /\ Len(v2disk) = 0
    BY <1>1, <1>2 DEF V2Init
  <2> QED BY <1>11, <2>1 DEF ChainExact, StateCounts
<1>13. IdentityBound
  BY <1>1, <1>11 DEF V2Init, IdentityBound, NewIdentity, Identity, Observation
<1>14. ChainBegun
  BY <1>1, <1>11 DEF V2Init, ChainBegun, Enrolled, Binding
<1>15. OneContract
  BY <1>1, <1>8, <1>11 DEF OneContract
<1> QED BY <1>4, <1>5, <1>6, <1>9, <1>10, <1>12, <1>13, <1>14, <1>15 DEF RunInv, GrantInv

LEMMA RunStutters == ASSUME RunInv, UNCHANGED vars PROVE RunInv'
<1> USE DEF RunInv
<1>1. /\ UNCHANGED <<worldVars, journalVars, runVars, chain>> /\ Working
      /\ UNCHANGED <<binding, handle, v2disk, launcher, seen>>
  BY DEF vars, worldVars, v2Vars, Working
<1>2. ChainExact' /\ IdentityBound' /\ ChainBegun'
  BY <1>1 DEF ChainExact, IdentityBound, ChainBegun
<1> QED BY <1>1, <1>2, RunUntouched DEF V1Unchanged

\* The invariant of every supervised run, under either contract, whatever
\* fails, whoever calls back and whenever the supervisor or the child dies.
THEOREM RunInvariant == Spec => []RunInv
<1>1. Init => RunInv
  BY RunInit
<1>2. RunInv /\ [Next]_vars => RunInv'
  BY RunStutters, V1NextKeeps, V2NextKeeps DEF Next
<1> QED BY <1>1, <1>2, PTL DEF Spec

\* Every event the session acknowledged is on disk, in its place, and synced.
LEMMA Acknowledgements ==
    ASSUME GrantInv, NEW i \in 1..journal.sequence
    PROVE  EventOnDisk(i)
<1>1. journal.sequence \in 0..3 /\ adapter.sequence \in 0..3 /\ journal.sequence <= adapter.sequence
  BY DEF GrantInv, SessionFollows, Session, JournalExact, Adapter
<1>2. i \in 1..adapter.sequence /\ adapter.sequence <= Len(disk) /\ Len(disk) \in Nat
  BY <1>1 DEF GrantInv, JournalExact
<1>3. disk[i].synced
  BY <1>2, Zenon DEF GrantInv, JournalExact
<1>4. i \in 1..Len(disk) /\ i <= Len(disk)
  BY <1>1, <1>2
<1>5. disk[i].kind = EVENT_ORDER[i]
  BY <1>4 DEF GrantInv, JournalExact
<1> QED BY <1>3, <1>4, <1>5 DEF EventOnDisk

\* Type correctness, and with it: at most one byte is ever written to the grant
\* pipe, at most two status bytes are read, at most one authority is consumed.
THEOREM RunTypes == Spec => []TypeOK
<1>1. RunInv => TypeOK
  <2> SUFFICES ASSUME RunInv PROVE TypeOK
    OBVIOUS
  <2> USE DEF RunInv, GrantInv
  <2>1. JournalTypeOK
    BY DEF JournalExact, JournalTypeOK, Record, Kind, Backend, Adapter
  <2>2. /\ contract \in {"V1", "V2"} /\ gate.state \in GateStates
        /\ gate.pc \in {"idle", "persist", "persisted", "spawn", "bound", "recheck", "grant"}
    BY DEF GateKnows, Gate
  <2>3. journal \in [state : {"READY", "PERSISTING", "SEALED_ACTIVE", "UNKNOWN"}, sequence : 0..3]
    BY DEF SessionFollows, Session
  <2>4. channel \in {"WRITER_OPEN", "ATTEMPTED", "EOF_CONFIRMED"} /\ ctl.reads \in 0..MAX_READS_PER_TURN
    BY DEF GrantOnce, Phase, Channels
  <2>5. Len(ctl.status) <= 2
    <3>1. PICK a \in Nat : a = Len(ctl.status)
      BY DEF GrantOnce, Channels
    <3>2. PICK b \in Nat : b = Len(status.bytes)
      BY DEF StatusShort, StatusPipe
    <3>3. a + b <= 2
      <4>1. PICK n \in 0..2 : n = Reported(child.at)
        BY DEF Reported
      <4>2. a + b <= n
        BY <3>1, <3>2, <4>1 DEF StatusShort
      <4> QED BY <4>2
    <3> QED BY <3>1, <3>3
  <2>6. grant.sent \in 0..1 /\ Len(grant.bytes) <= grant.sent
    BY DEF GrantOnce, GrantPipe
  <2>7. chain.sequence \in 0..3 /\ chain.consumed \in 0..1
    BY DEF ChainExact, Chain
  <2>8. Len(v2disk) \in chain.sequence .. chain.sequence + 1
    BY <2>7 DEF ChainExact
  <2> QED BY <2>1, <2>2, <2>3, <2>4, <2>5, <2>6, <2>7, <2>8 DEF TypeOK
<1> QED BY <1>1, RunInvariant, PTL

\* ExecWasIssued: the payload of prelive-supervisor-fixture runs only behind
\* the whole protocol of PreGrantController and ControlChannels.
THEOREM RunExecIssued == Spec => []ExecWasIssued
<1>1. RunInv => ExecWasIssued
  <2> SUFFICES ASSUME RunInv, child.at = "payload" PROVE ExecWasIssued
    BY DEF ExecWasIssued
  <2>1. /\ grant.sent = 1 /\ ctl.readiness = "taken" /\ ctl.status = <<"R">>
        /\ gate.consumed /\ channel # "WRITER_OPEN" /\ journal.sequence = 3
    BY DEF RunInv, GrantInv, GrantOnce
  <2>2. \A i \in 1..3 : EventOnDisk(i)
    BY <2>1, Acknowledgements DEF RunInv
  <2> QED BY <2>1, <2>2 DEF ExecWasIssued
<1> QED BY <1>1, RunInvariant, PTL

\* CompletedIsTrue: GRANT_PROTOCOL_COMPLETED says that the byte was written,
\* that no one can write another, and that the events are durable.
THEOREM RunCompleted == Spec => []CompletedIsTrue
<1>1. RunInv => CompletedIsTrue
  <2> SUFFICES ASSUME RunInv, gate.state = "GRANT_PROTOCOL_COMPLETED" PROVE CompletedIsTrue
    BY DEF CompletedIsTrue
  <2>1. /\ grant.sent = 1 /\ "supervisor" \notin grant.writers /\ journal.sequence = 3
        /\ journal.state = "SEALED_ACTIVE" /\ channel = "EOF_CONFIRMED"
    BY DEF RunInv, GrantInv, GrantOnce
  <2>2. child.at \in {"ready", "gotG", "armed"} => grant.writers = {}
    BY <2>1 DEF RunInv, GrantInv, GrantOnce, GrantPipe
  <2>3. \A i \in 1..3 : EventOnDisk(i)
    BY <2>1, Acknowledgements DEF RunInv
  <2> QED BY <2>1, <2>2, <2>3 DEF CompletedIsTrue
<1> QED BY <1>1, RunInvariant, PTL

\* ChildNeverForgotten: from the fork on the controller says that a child may
\* exist, and a poisoned one that it must be settled.
THEOREM RunRemembersChild == Spec => []ChildNeverForgotten
<1>1. RunInv => ChildNeverForgotten
  <2> SUFFICES ASSUME RunInv, child.at # "unborn" PROVE ChildNeverForgotten
    BY DEF ChildNeverForgotten
  <2>1. /\ gate.child_may_exist /\ gate.settlement_required /\ journal.sequence >= 1
        /\ gate.pc = "idle" /\ child.bound => gate.evidence
    BY DEF RunInv, GrantInv, GateKnows
  <2>2. 1 \in 1..journal.sequence
    BY <2>1 DEF RunInv, GrantInv, SessionFollows, Session
  <2>3. EventOnDisk(1)
    BY <2>2, Acknowledgements DEF RunInv
  <2> QED BY <2>1, <2>3 DEF ChildNeverForgotten
<1> QED BY <1>1, RunInvariant, PTL

\* WriteNeverForgotten: an event the V2 chain has not acknowledged is covered
\* by write_may_exist as long as it is on disk.
THEOREM RunRemembersWrite == Spec => []WriteNeverForgotten
<1>1. RunInv => WriteNeverForgotten
  BY DEF RunInv, ChainExact, WriteNeverForgotten
<1> QED BY <1>1, RunInvariant, PTL

\* AuthorityIsBound: a consumed V2 pre-exec authority was backed by the three
\* events, three equal observations and the time left, and granted nothing.
THEOREM RunAuthorityBound == Spec => []AuthorityIsBound
<1>1. RunInv => AuthorityIsBound
  <2> SUFFICES ASSUME RunInv, chain.consumed > 0 PROVE AuthorityIsBound
    BY DEF AuthorityIsBound
  <2>1. chain.consumed = 1
    BY DEF RunInv, ChainExact, Chain
  <2>2. /\ chain.state \in {"PREEXEC_AUTHORITY_CONSUMED", "UNKNOWN"} /\ chain.sequence = 3
        /\ chain.at < Deadline /\ handle.state = "MODEL_PREEXEC_VALIDATED"
    BY <2>1 DEF RunInv, IdentityBound
  <2>3. seen["fresh"] = seen["first"] /\ seen["fresh"] = seen["second"] /\ seen["fresh"] # "bad"
    BY <2>2 DEF RunInv, IdentityBound
  <2>4. contract = "V2"
    BY <2>2 DEF RunInv, OneContract, FreshChain, GrantInv, GateKnows
  <2>5. gate = FreshGate /\ grant.sent = 0
    BY <2>4 DEF RunInv, OneContract
  <2>6. v2disk = EVENT_ORDER
    <3>1. /\ v2disk \in Seq(Kind) /\ Len(v2disk) = 3 /\ \A i \in 1..3 : v2disk[i] = EVENT_ORDER[i]
      <4>1. v2disk \in Seq(Kind) /\ (Len(v2disk) = 3 \/ Len(v2disk) = 4) /\ Len(v2disk) <= 3
        BY <2>2 DEF RunInv, ChainExact
      <4>2. Len(v2disk) = 3
        <5>1. PICK n \in Nat : n = Len(v2disk)
          BY <4>1
        <5> QED BY <4>1, <5>1
      <4> QED BY <4>1, <4>2 DEF RunInv, ChainExact
    <3>2. EVENT_ORDER \in Seq(Kind) /\ Len(EVENT_ORDER) = 3
      BY DEF EVENT_ORDER, Kind
    <3> QED BY <3>1, <3>2
  <2> QED BY <2>2, <2>3, <2>5, <2>6 DEF AuthorityIsBound
<1> QED BY <1>1, RunInvariant, PTL

=============================================================================
