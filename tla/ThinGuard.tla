------------------------------ MODULE ThinGuard ------------------------------
(***************************************************************************)
(* The ThinGuard runtime guardian of one host.                             *)
(*                                                                         *)
(* Before the plugin loads a dm-thin pool in runtime-guard mode it sends   *)
(* PREPARE to a daemon that registers the owner epoch and arms a           *)
(* watchdog-mux client; after teardown it sends RELEASE.  In between the   *)
(* daemon samples the host every few seconds and refreshes the watchdog    *)
(* only while every registered epoch has its exact evidence.  Anything     *)
(* else ends in a host reset, which is what makes a takeover of the pool   *)
(* by another node safe.                                                   *)
(*                                                                         *)
(* The daemon is single-threaded and serves one request per loop; clients  *)
(* give up on it, retry once under the same request id, and may leave      *)
(* requests behind in its accept queue.  A PREPARE or RELEASE collects its *)
(* evidence first and acts on it later; an observation is one step.        *)
(*                                                                         *)
(* unarmed is a history variable: no action reads it.                      *)
(***************************************************************************)
EXTENDS Naturals, Sequences, FiniteSets

CONSTANTS
    Pool,           \* managed thin pools of the guarded storages
    Serial,         \* the pools share a VG, and its lock orders their operations
    HelperMayFail,  \* a helper or a watchdog write may fail in an observation
    Attempts,       \* connection attempts of a guardian call (2 in production)
    ReplayLimit,    \* entries of the daemon's replay journal (4096 in the code)
    MaxEpoch,       \* bound on the owner epochs minted
    MaxCall         \* bound on the guardian calls made

ASSUME GuardAssumption ==
    /\ Serial \in BOOLEAN
    /\ HelperMayFail \in BOOLEAN
    /\ Attempts \in {1, 2}
    /\ ReplayLimit \in Nat
    /\ MaxEpoch \in Nat
    /\ MaxCall \in Nat

VARIABLES
    tag,        \* tag[p]: owner epoch on p's tags, 0 or Foreign
    loaded,     \* pools whose mapper is in this kernel
    qemu,       \* pools a running QEMU of this host refers to
    quorum,     \* this host has cluster quorum
    nextEpoch,
    pc,         \* pc[p]: where the plugin's operation on p is
    own,        \* own[p]: the owner epoch that operation works with
    call,       \* call[p]: id, attempt and answer of its guardian call
    nextCall,
    inbox,      \* requests in the daemon's accept queue
    up,         \* the daemon runs
    dpc,        \* where the daemon's loop is
    job,        \* the request it works on, the evidence, the expired deadline
    replay,     \* replay[id]: recorded answer
    gstate,     \* GuardState: state; FENCING is also the uncertainty latch
    epochs,     \* epochs[p]: phase, epoch and expired deadline, per pool
    bound,      \* pools with a storage and mapper binding
    wd,         \* state of the watchdog adapter; SPENT is ARMED with a socket
                \* that is closed already
    mux,        \* the host's client in watchdog-mux
    unarmed     \* pools a SPENT adapter acknowledged a PREPARE for, since their
                \* last activation began

hostVars == <<tag, loaded, qemu, quorum>>
pluginVars == <<pc, own, call, nextCall, nextEpoch>>
guardVars == <<gstate, epochs, bound, wd, unarmed>>
vars == <<hostVars, pluginVars, inbox, up, dpc, job, replay, guardVars, mux>>

Epoch == 1..MaxEpoch
Foreign == MaxEpoch + 1     \* the tags name another node
Call == 1..MaxCall

Waiting == {"waitPrepare", "waitRelease"}
PluginSteps == Waiting \cup {"idle", "prepare", "lvchange", "dPool", "dOwner", "release"}
Answers == {"ok", "refused"}
Request == [pool : Pool, op : {"PREPARE", "RELEASE"}, epoch : 0..MaxEpoch,
            id : Call, try : {1, 2}]
NoJob == [req |-> <<>>, proof |-> FALSE, late |-> FALSE]
NoCall == [id |-> 0, try |-> 0, answer |-> "none"]
NoEpoch == [phase |-> "none", epoch |-> 0, late |-> FALSE]
CallState == [id : 0..MaxCall, try : 0..2, answer : Answers \cup {"none"}]
JobState == [req : Request \cup {<<>>}, proof : BOOLEAN, late : BOOLEAN]
EpochState == [phase : {"none", "PENDING_ATTACH", "PROTECTED"}, epoch : 0..MaxEpoch,
               late : BOOLEAN]
Registered == {p \in Pool : epochs[p].phase # "none"}

TypeOK ==
    /\ tag \in [Pool -> 0..Foreign]
    /\ loaded \subseteq Pool
    /\ qemu \subseteq Pool
    /\ quorum \in BOOLEAN
    /\ nextEpoch \in 1..(MaxEpoch + 1)
    /\ pc \in [Pool -> PluginSteps]
    /\ own \in [Pool -> 0..MaxEpoch]
    /\ call \in [Pool -> CallState]
    /\ nextCall \in 1..(MaxCall + 1)
    /\ inbox \in Seq(Request)
    /\ up \in BOOLEAN
    /\ dpc \in {"loop", "serve", "PREPARE", "RELEASE"}
    /\ job \in JobState
    /\ dpc \in {"PREPARE", "RELEASE"} => job.req \in Request
    /\ replay \in [Call -> Answers \cup {"none"}]
    /\ gstate \in {"IDLE", "ARMED_PENDING", "PROTECTED", "FENCING"}
    /\ epochs \in [Pool -> EpochState]
    /\ bound \subseteq Pool
    /\ wd \in {"DISARMED", "ARMED", "SPENT", "FENCING"}
    /\ mux \in {"none", "fresh", "stale", "dropped"}
    /\ unarmed \subseteq Pool

Init ==
    /\ tag = [p \in Pool |-> 0]
    /\ loaded = {}
    /\ qemu = {}
    /\ quorum = TRUE
    /\ nextEpoch = 1
    /\ pc = [p \in Pool |-> "idle"]
    /\ own = [p \in Pool |-> 0]
    /\ call = [p \in Pool |-> NoCall]
    /\ nextCall = 1
    /\ inbox = <<>>
    /\ up = FALSE
    /\ dpc = "loop"
    /\ job = NoJob
    /\ replay = [i \in Call |-> "none"]
    /\ gstate = "IDLE"
    /\ epochs = [p \in Pool |-> NoEpoch]
    /\ bound = {}
    /\ wd = "DISARMED"
    /\ mux = "none"
    /\ unarmed = {}

-----------------------------------------------------------------------------
(* Evidence: build_guard_inventory and GuardState                          *)

\* The inventory helper dies: a loaded pool without owner tags, owned by
\* another node, or without an attached QEMU reference.
InventoryDies ==
    \E p \in loaded : tag[p] \in {0, Foreign} \/ p \notin qemu

\* The admission evidence of PREPARE (the peer audit is a further condition).
PrepareEvidence(p, e) ==
    ~InventoryDies /\ quorum /\ tag[p] = e /\ p \notin loaded \cup qemu

\* The teardown proof of RELEASE.
ReleaseEvidence(p) == ~InventoryDies /\ p \notin qemu \cup loaded /\ tag[p] = 0

\* GuardState::observe on one registered pool: what does not fence.
Attached(p) == p \in loaded /\ p \in qemu
EpochExact(p) ==
    /\ tag[p] = epochs[p].epoch
    /\ \/ Attached(p)
       \/ epochs[p].phase = "PENDING_ATTACH" /\ ~epochs[p].late /\ p \notin qemu

\* The observation refreshes the watchdog; otherwise it fences.
SampleSafe == quorum /\ gstate # "FENCING" /\ \A p \in Registered : EpochExact(p)

-----------------------------------------------------------------------------
(* The guardian call of the plugin (GuardClient::request)                  *)

Send(p, op, id, try) ==
    inbox' = IF up THEN Append(inbox, [pool |-> p, op |-> op, epoch |-> own[p],
                                       id |-> id, try |-> try])
                   ELSE inbox

GuardCall(p, from, op, to) ==
    /\ pc[p] = from
    /\ nextCall <= MaxCall
    /\ nextCall' = nextCall + 1
    /\ call' = [call EXCEPT ![p] = [id |-> nextCall, try |-> 1, answer |-> "none"]]
    /\ Send(p, op, nextCall, 1)
    /\ pc' = [pc EXCEPT ![p] = to]
    /\ UNCHANGED <<hostVars, own, nextEpoch, up, dpc, job, replay, guardVars, mux>>

\* Mutant: the attempts are not counted against their limit.
RetryForever(p) ==
    /\ pc[p] \in Waiting
    /\ call[p].answer = "none"
    /\ call' = [call EXCEPT ![p].try = @ + 1]
    /\ UNCHANGED <<hostVars, pc, own, nextCall, nextEpoch, inbox, up, dpc, job,
                   replay, guardVars, mux>>

\* The first attempt times out or its connection fails: the same request is
\* sent again.
Retry(p) ==
    /\ pc[p] \in Waiting
    /\ call[p].answer = "none" /\ call[p].try < Attempts
    /\ call' = [call EXCEPT ![p].try = @ + 1]
    /\ Send(p, IF pc[p] = "waitPrepare" THEN "PREPARE" ELSE "RELEASE",
            call[p].id, call'[p].try)
    /\ UNCHANGED <<hostVars, pc, own, nextCall, nextEpoch, up, dpc, job, replay,
                   guardVars, mux>>

\* The call fails: refused, or the last attempt gets no answer.
CallFailed(p) ==
    call[p].answer = "refused" \/ (call[p].answer = "none" /\ call[p].try = Attempts)

\* The operation on p returns or dies.
Finish(p) ==
    /\ pc' = [pc EXCEPT ![p] = "idle"]
    /\ own' = [own EXCEPT ![p] = 0]
    /\ call' = [call EXCEPT ![p] = NoCall]
    /\ UNCHANGED <<nextCall, nextEpoch>>

Advance(p, step) ==
    /\ pc' = [pc EXCEPT ![p] = step]
    /\ UNCHANGED <<own, call, nextCall, nextEpoch>>

daemonVars == <<inbox, up, dpc, job, replay, guardVars, mux>>

-----------------------------------------------------------------------------
(* activate_volume and deactivate_volume of a pool under runtime-guard      *)

\* _with_mutation_lock.
Begin(p) ==
    /\ pc[p] = "idle"
    /\ Serial => \A q \in Pool : pc[q] = "idle"
    /\ quorum

\* The pool is claimed with a fresh epoch, or the local claim is kept.
Claim(p) ==
    /\ Begin(p)
    /\ p \notin loaded
    /\ tag[p] # Foreign
    /\ IF tag[p] = 0
       THEN /\ nextEpoch <= MaxEpoch
            /\ tag' = [tag EXCEPT ![p] = nextEpoch]
            /\ nextEpoch' = nextEpoch + 1
       ELSE UNCHANGED <<tag, nextEpoch>>
    /\ own' = [own EXCEPT ![p] = tag'[p]]
    /\ pc' = [pc EXCEPT ![p] = "prepare"]
    /\ unarmed' = unarmed \ {p}
    /\ UNCHANGED <<loaded, qemu, quorum, call, nextCall, inbox, up, dpc, job, replay,
                   gstate, epochs, bound, wd, mux>>

SendPrepare(p) == GuardCall(p, "prepare", "PREPARE", "waitPrepare")

PrepareAcked(p) ==
    /\ pc[p] = "waitPrepare"
    /\ call[p].answer = "ok"
    /\ pc' = [pc EXCEPT ![p] = "lvchange"]
    /\ call' = [call EXCEPT ![p] = NoCall]
    /\ UNCHANGED <<hostVars, own, nextCall, nextEpoch, daemonVars>>

\* Refused before lvchange: the local claim is rolled back, or that fails too.
PrepareFailed(p) ==
    /\ pc[p] = "waitPrepare"
    /\ CallFailed(p)
    /\ \/ tag' = [tag EXCEPT ![p] = IF @ = Foreign THEN @ ELSE 0]
       \/ UNCHANGED tag
    /\ Finish(p)
    /\ UNCHANGED <<loaded, qemu, quorum, daemonVars>>

\* The commit barrier and lvchange -ay; either may fail, the claim stays.
LvChange(p) ==
    /\ pc[p] = "lvchange"
    /\ \/ UNCHANGED loaded
       \/ tag[p] = own[p] /\ loaded' = loaded \cup {p}
    /\ Finish(p)
    /\ UNCHANGED <<tag, qemu, quorum, daemonVars>>

Deactivate(p) ==
    /\ Begin(p)
    /\ p \notin qemu
    /\ own' = [own EXCEPT ![p] = IF tag[p] = Foreign THEN 0 ELSE tag[p]]
    /\ pc' = [pc EXCEPT ![p] = "dPool"]
    /\ UNCHANGED <<hostVars, call, nextCall, nextEpoch, daemonVars>>

UnloadPool(p) ==
    /\ pc[p] = "dPool"
    /\ \/ p \in loaded /\ UNCHANGED loaded /\ Finish(p)
       \/ loaded' = loaded \ {p} /\ Advance(p, "dOwner")
    /\ UNCHANGED <<tag, qemu, quorum, daemonVars>>

ReleaseOwner(p) ==
    /\ pc[p] = "dOwner"
    /\ \/ UNCHANGED tag /\ Finish(p)
       \/ /\ tag' = [tag EXCEPT ![p] = IF @ = Foreign THEN @ ELSE 0]
          /\ IF own[p] # 0 THEN Advance(p, "release") ELSE Finish(p)
    /\ UNCHANGED <<loaded, qemu, quorum, daemonVars>>

SendRelease(p) == GuardCall(p, "release", "RELEASE", "waitRelease")

ReleaseEnds(p) ==
    /\ pc[p] = "waitRelease"
    /\ call[p].answer = "ok" \/ CallFailed(p)
    /\ Finish(p)
    /\ UNCHANGED <<hostVars, daemonVars>>

\* The worker is killed between two of its commands.
PluginDies(p) ==
    /\ pc[p] # "idle"
    /\ Finish(p)
    /\ UNCHANGED <<hostVars, daemonVars>>

PluginStep(p) ==
    \/ Claim(p) \/ SendPrepare(p) \/ PrepareAcked(p) \/ PrepareFailed(p)
    \/ LvChange(p) \/ Deactivate(p) \/ UnloadPool(p) \/ ReleaseOwner(p)
    \/ SendRelease(p) \/ ReleaseEnds(p) \/ Retry(p) \/ PluginDies(p)

-----------------------------------------------------------------------------
(* The daemon (sharedlvmthin-thin-guardd, GuardEngine, GuardState, Watchdog) *)

\* A fresh daemon never blesses an existing runtime.
Start ==
    /\ ~up
    /\ loaded = {}
    /\ up' = TRUE
    /\ UNCHANGED <<hostVars, pluginVars, inbox, dpc, job, replay, guardVars, mux>>

\* Mutant: the watchdog client is closed with V when the process ends.
ExitWithMagicClose ==
    /\ up' = FALSE
    /\ inbox' = <<>>
    /\ dpc' = "loop"
    /\ job' = NoJob
    /\ replay' = [i \in Call |-> "none"]
    /\ gstate' = "IDLE"
    /\ epochs' = [p \in Pool |-> NoEpoch]
    /\ bound' = {}
    /\ wd' = "DISARMED"
    /\ mux' = "none"
    /\ UNCHANGED unarmed

\* The process ends.  The kernel closes its watchdog socket, always without V;
\* what the process knew is gone with it.
Exit ==
    /\ up' = FALSE
    /\ inbox' = <<>>
    /\ dpc' = "loop"
    /\ job' = NoJob
    /\ replay' = [i \in Call |-> "none"]
    /\ gstate' = "IDLE"
    /\ epochs' = [p \in Pool |-> NoEpoch]
    /\ bound' = {}
    /\ wd' = "DISARMED"
    /\ mux' = IF mux = "none" THEN "none" ELSE "dropped"
    /\ UNCHANGED unarmed

\* SIGTERM at the loop's head, or a crash anywhere.
Stop ==
    /\ up
    /\ Exit
    /\ UNCHANGED <<hostVars, pluginVars>>

Observing == up /\ dpc = "loop" /\ gstate # "IDLE"

\* No protected epoch: the loop goes on to its requests.
LoopIdle ==
    /\ up /\ dpc = "loop" /\ gstate = "IDLE"
    /\ dpc' = "serve"
    /\ UNCHANGED <<hostVars, pluginVars, inbox, up, job, replay, guardVars, mux>>

\* Mutant: the loop refreshes the watchdog whatever the sample says.
RefreshAlways ==
    /\ Observing
    /\ wd = "ARMED"
    /\ mux' = IF mux = "dropped" THEN "dropped" ELSE "fresh"
    /\ dpc' = "serve"
    /\ UNCHANGED <<hostVars, pluginVars, inbox, up, job, replay, gstate, epochs, bound, wd,
                   unarmed>>

\* A safe sample: attached epochs become PROTECTED and the watchdog is
\* refreshed.
ObserveRefresh ==
    /\ Observing
    /\ bound # {} /\ ~InventoryDies
    /\ SampleSafe
    /\ wd = "ARMED"
    /\ epochs' = [p \in Pool |->
          IF p \in Registered /\ Attached(p)
          THEN [epochs[p] EXCEPT !.phase = "PROTECTED"] ELSE epochs[p]]
    /\ gstate' = IF \A p \in Registered : Attached(p)
                 THEN "PROTECTED" ELSE "ARMED_PENDING"
    /\ mux' = IF mux = "dropped" THEN "dropped" ELSE "fresh"
    /\ dpc' = "serve"
    /\ UNCHANGED <<hostVars, pluginVars, inbox, up, job, replay, bound, wd, unarmed>>

\* An unsafe sample latches FENCING; the client stays registered and is not
\* refreshed again.
ObserveFence ==
    /\ Observing
    /\ bound # {} /\ ~InventoryDies
    /\ ~SampleSafe
    /\ gstate' = "FENCING"
    /\ wd' = IF wd = "DISARMED" THEN wd ELSE "FENCING"
    /\ dpc' = "serve"
    /\ UNCHANGED <<hostVars, pluginVars, inbox, up, job, replay, epochs, bound, mux, unarmed>>

\* No sample, or no refresh (the write to a spent socket fails): the daemon gives
\* up.
ObserveDies ==
    /\ Observing
    /\ \/ bound = {}
       \/ InventoryDies
       \/ SampleSafe /\ wd # "ARMED"
       \/ HelperMayFail
    /\ Exit
    /\ UNCHANGED <<hostVars, pluginVars>>

\* No client connected within five seconds.
ServeNobody ==
    /\ up /\ dpc = "serve"
    /\ inbox = <<>>
    /\ dpc' = "loop"
    /\ UNCHANGED <<hostVars, pluginVars, inbox, up, job, replay, guardVars, mux>>

\* The answer reaches the client only while it waits on this very attempt.
Respond(r, answer) ==
    call' = IF /\ pc[r.pool] \in Waiting
               /\ call[r.pool].id = r.id /\ call[r.pool].try = r.try
            THEN [call EXCEPT ![r.pool].answer = answer] ELSE call

\* A request id that was answered before gets its recorded answer.
ServeReplay ==
    /\ up /\ dpc = "serve"
    /\ inbox # <<>>
    /\ replay[Head(inbox).id] # "none"
    /\ Respond(Head(inbox), replay[Head(inbox).id])
    /\ inbox' = Tail(inbox)
    /\ dpc' = "loop"
    /\ UNCHANGED <<hostVars, pc, own, nextCall, nextEpoch, up, job, replay, guardVars, mux>>

JournalFull == Cardinality({i \in Call : replay[i] # "none"}) >= ReplayLimit

\* The evidence for a new request is collected.
ServeCollect ==
    /\ up /\ dpc = "serve"
    /\ inbox # <<>>
    /\ LET r == Head(inbox) IN
        /\ replay[r.id] = "none"
        /\ \E proof \in BOOLEAN :
            /\ proof => /\ ~JournalFull
                        /\ IF r.op = "PREPARE" THEN PrepareEvidence(r.pool, r.epoch)
                                               ELSE ReleaseEvidence(r.pool)
            /\ job' = [req |-> r, proof |-> proof, late |-> FALSE]
        /\ dpc' = r.op
    /\ inbox' = Tail(inbox)
    /\ UNCHANGED <<hostVars, pluginVars, up, replay, guardVars, mux>>

\* The answer is recorded, sent, and the loop starts over.
Answer(answer) ==
    /\ replay' = [replay EXCEPT ![job.req.id] = answer]
    /\ Respond(job.req, answer)
    /\ job' = NoJob
    /\ dpc' = "loop"
    /\ UNCHANGED <<hostVars, pc, own, nextCall, nextEpoch, inbox, up>>

\* GuardState::prepare accepts the epoch.
Admitted ==
    /\ job.proof
    /\ gstate # "FENCING"
    /\ job.req.pool \in Registered => epochs[job.req.pool].epoch = job.req.epoch

PrepareRefused ==
    /\ up /\ dpc = "PREPARE"
    /\ ~Admitted
    /\ Answer("refused")
    /\ UNCHANGED <<guardVars, mux>>

\* The epoch is registered, its deadline counting from the request's arrival.
Register ==
    /\ epochs' = [epochs EXCEPT ![job.req.pool] =
          [phase |-> "PENDING_ATTACH", epoch |-> job.req.epoch, late |-> job.late]]
    /\ gstate' = "ARMED_PENDING"

\* The watchdog is armed, or its adapter says that it was, and the client may
\* load the pool.
PrepareArmed ==
    /\ up /\ dpc = "PREPARE"
    /\ Admitted
    /\ wd # "FENCING"
    /\ Register
    /\ bound' = bound \cup {job.req.pool}
    /\ wd' = IF wd = "DISARMED" THEN "ARMED" ELSE wd
    /\ unarmed' = IF wd = "SPENT" THEN unarmed \cup {job.req.pool} ELSE unarmed
    /\ mux' = IF wd = "DISARMED" /\ mux # "dropped" THEN "fresh" ELSE mux
    /\ Answer("ok")

\* Mutant: the failure to arm is swallowed and the client is told to go on.
PrepareUnarmedAcked ==
    /\ up /\ dpc = "PREPARE"
    /\ Admitted
    /\ wd \in {"DISARMED", "FENCING"}
    /\ Register
    /\ wd' = "FENCING"
    /\ mux' \in {mux, "dropped"}
    /\ Answer("ok")
    /\ UNCHANGED <<bound, unarmed>>

\* The watchdog cannot be armed: the epoch stays registered without a binding,
\* and a client watchdog-mux accepted before the error is dropped.
PrepareUnarmed ==
    /\ up /\ dpc = "PREPARE"
    /\ Admitted
    /\ wd \in {"DISARMED", "FENCING"}
    /\ Register
    /\ wd' = "FENCING"
    /\ mux' \in {mux, "dropped"}
    /\ Answer("refused")
    /\ UNCHANGED <<bound, unarmed>>

\* GuardState::release accepts the teardown proof.
Releasable ==
    /\ job.proof
    /\ job.req.pool \in bound \cap Registered
    /\ gstate # "FENCING"
    /\ epochs[job.req.pool].epoch = job.req.epoch

ReleaseRefused ==
    /\ up /\ dpc = "RELEASE"
    /\ ~Releasable
    /\ Answer("refused")
    /\ UNCHANGED <<guardVars, mux>>

Unregister == epochs' = [epochs EXCEPT ![job.req.pool] = NoEpoch]

\* Other epochs remain: the client stays armed.
ReleaseShared ==
    /\ up /\ dpc = "RELEASE"
    /\ Releasable
    /\ Registered # {job.req.pool}
    /\ Unregister
    /\ gstate' = "PROTECTED"
    /\ bound' = bound \ {job.req.pool}
    /\ Answer("ok")
    /\ UNCHANGED <<wd, mux, unarmed>>

\* Mutant: every release disarms the aggregate client.
ReleaseDisarms ==
    /\ up /\ dpc = "RELEASE"
    /\ Releasable
    /\ wd = "ARMED"
    /\ Unregister
    /\ gstate' = "IDLE"
    /\ bound' = bound \ {job.req.pool}
    /\ wd' = "DISARMED"
    /\ mux' = IF mux = "dropped" THEN "dropped" ELSE "none"
    /\ Answer("ok")
    /\ UNCHANGED unarmed

\* The last epoch: the client is disarmed with V.
ReleaseLast ==
    /\ up /\ dpc = "RELEASE"
    /\ Releasable
    /\ Registered = {job.req.pool}
    /\ wd = "ARMED"
    /\ Unregister
    /\ gstate' = "IDLE"
    /\ bound' = bound \ {job.req.pool}
    /\ wd' = "DISARMED"
    /\ mux' = IF mux = "dropped" THEN "dropped" ELSE "none"
    /\ Answer("ok")
    /\ UNCHANGED unarmed

\* V is written and retires the client, but closing the socket fails: the epoch
\* is gone, the binding stays, and the adapter still calls itself ARMED.
ReleaseSpent ==
    /\ up /\ dpc = "RELEASE"
    /\ Releasable
    /\ Registered = {job.req.pool}
    /\ wd = "ARMED"
    /\ Unregister
    /\ gstate' = "IDLE"
    /\ wd' = "SPENT"
    /\ mux' = IF mux = "dropped" THEN "dropped" ELSE "none"
    /\ Answer("refused")
    /\ UNCHANGED <<bound, unarmed>>

\* V cannot be written: the epoch is gone, the client is still armed, and
\* nobody refreshes it any more.
ReleaseStuck ==
    /\ up /\ dpc = "RELEASE"
    /\ Releasable
    /\ Registered = {job.req.pool}
    /\ Unregister
    /\ gstate' = "IDLE"
    /\ Answer("refused")
    /\ UNCHANGED <<bound, wd, mux, unarmed>>

DaemonStep ==
    \/ LoopIdle \/ ObserveRefresh \/ ObserveFence \/ ObserveDies
    \/ ServeNobody \/ ServeReplay \/ ServeCollect
    \/ PrepareRefused \/ PrepareArmed \/ PrepareUnarmed
    \/ ReleaseRefused \/ ReleaseShared \/ ReleaseLast \/ ReleaseSpent
    \/ ReleaseStuck

-----------------------------------------------------------------------------
(* Environment (external)                                                  *)

\* PVE starts QEMU on a loaded pool once its volumes are active.
StartQemu(p) ==
    /\ pc[p] = "idle" /\ p \in loaded \ qemu
    /\ qemu' = qemu \cup {p}
    /\ UNCHANGED <<tag, loaded, quorum, pluginVars, daemonVars>>

StopQemu(p) ==
    /\ p \in qemu
    /\ qemu' = qemu \ {p}
    /\ UNCHANGED <<tag, loaded, quorum, pluginVars, daemonVars>>

\* Another node takes the pool over while this host is outside the quorum, and
\* may release it again.
ForeignOwner(p) ==
    /\ \/ ~quorum /\ tag[p] \in Epoch /\ tag' = [tag EXCEPT ![p] = Foreign]
       \/ tag[p] = Foreign /\ tag' = [tag EXCEPT ![p] = 0]
    /\ UNCHANGED <<loaded, qemu, quorum, pluginVars, daemonVars>>

ChangeQuorum ==
    /\ quorum' = ~quorum
    /\ UNCHANGED <<tag, loaded, qemu, pluginVars, daemonVars>>

\* 45 seconds pass since p's PREPARE arrived.
DeadlinePasses(p) ==
    /\ \/ /\ epochs[p].phase = "PENDING_ATTACH" /\ ~epochs[p].late
          /\ epochs' = [epochs EXCEPT ![p].late = TRUE]
          /\ UNCHANGED job
       \/ /\ dpc = "PREPARE" /\ job.req.pool = p /\ ~job.late
          /\ job' = [job EXCEPT !.late = TRUE]
          /\ UNCHANGED epochs
    /\ UNCHANGED <<hostVars, pluginVars, inbox, up, dpc, replay, gstate, bound, wd, mux,
                   unarmed>>

\* watchdog-mux: a client that is not refreshed grows stale, and a stale or
\* dropped client stops the hardware watchdog's updates: the host resets.
MuxAge ==
    /\ mux = "fresh"
    /\ mux' = "stale"
    /\ UNCHANGED <<hostVars, pluginVars, inbox, up, dpc, job, replay, guardVars>>

HostReset ==
    /\ mux \in {"stale", "dropped"}
    /\ up' = FALSE
    /\ inbox' = <<>>
    /\ dpc' = "loop"
    /\ job' = NoJob
    /\ replay' = [i \in Call |-> "none"]
    /\ gstate' = "IDLE"
    /\ epochs' = [p \in Pool |-> NoEpoch]
    /\ bound' = {}
    /\ wd' = "DISARMED"
    /\ mux' = "none"
    /\ unarmed' = {}
    /\ loaded' = {}
    /\ qemu' = {}
    /\ pc' = [p \in Pool |-> "idle"]
    /\ own' = [p \in Pool |-> 0]
    /\ call' = [p \in Pool |-> NoCall]
    /\ UNCHANGED <<tag, quorum, nextCall, nextEpoch>>

Environment ==
    \/ \E p \in Pool : StartQemu(p) \/ StopQemu(p) \/ ForeignOwner(p) \/ DeadlinePasses(p)
    \/ ChangeQuorum \/ MuxAge \/ HostReset

Next ==
    \/ \E p \in Pool : PluginStep(p)
    \/ Start \/ Stop \/ DaemonStep
    \/ Environment

Spec == Init /\ [][Next]_vars

\* The daemon's loop is scheduled, and time passes for watchdog-mux.
FairSpec == Spec /\ WF_vars(DaemonStep) /\ WF_vars(MuxAge) /\ WF_vars(HostReset)

-----------------------------------------------------------------------------
(* Properties                                                              *)

\* docs/thin-guard-design.md: "The aggregate watchdog must already be armed before
\* local LVM activation is acknowledged."  No pool is loaded on a host without a
\* watchdog client that resets it unless refreshed, but for pools whose PREPARE
\* met an adapter that had failed to close its socket.  PREPARE precedes
\* lvchange -ay, RELEASE follows teardown, and lost answers, retries, late
\* requests and daemon crashes in between leave no unguarded runtime.
LoadedIsGuarded == loaded \ unarmed # {} => mux # "none"

\* One client guards all pools, so each loaded pool must be registered with the
\* daemon that refreshes it, and that daemon still have the client: releasing or
\* losing another pool's epoch never drops this one's protection.  A dropped
\* client has condemned the host.
EachPoolRegistered ==
    \A p \in loaded \ unarmed :
        \/ mux = "dropped"
        \/ up /\ p \in Registered /\ wd # "DISARMED" /\ mux # "none"

\* The magic close V, and a refresh, never follow the uncertainty latch.
FencingIsFinal ==
    [][gstate = "FENCING" /\ ~HostReset => mux' = mux \/ mux' \in {"stale", "dropped"}]_vars

\* A host that has lost a loaded pool to another owner stops running it: the
\* reset needs nobody on this host to cooperate, only the client that PREPARE
\* armed.
LostPoolUnloaded ==
    \A p \in Pool : (p \in loaded \ unarmed /\ tag[p] = Foreign) ~> p \notin loaded

\* docs/thin-guard-design.md: "The runtime state machine has a bounded
\* `ARMED_PENDING` phase. ... the exact mapper and an attached QEMU volume
\* reference must then appear before the deadline."  While every registered
\* epoch is pending, exact and in time, the next observation is a safe one.
PendingUntilDeadline ==
    /\ Observing /\ quorum
    /\ gstate # "FENCING" /\ wd = "ARMED"
    /\ loaded \subseteq Registered
    /\ \A p \in Registered :
        /\ epochs[p].phase = "PENDING_ATTACH" /\ ~epochs[p].late
        /\ tag[p] = epochs[p].epoch /\ p \notin qemu
    => ~InventoryDies /\ SampleSafe

=============================================================================
