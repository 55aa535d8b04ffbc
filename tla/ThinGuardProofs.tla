--------------------------- MODULE ThinGuardProofs ---------------------------
(***************************************************************************)
(* Proofs about ThinGuard, for any set of pools, any number of epochs and  *)
(* calls, with or without the VG lock that orders the operations.          *)
(*                                                                         *)
(* LoadedIsGuarded is not inductive: that the client is there when a pool  *)
(* is loaded rests on what the plugin was promised (Promises), on which    *)
(* requests may still be lying in the accept queue of a daemon that was    *)
(* given up on (Requests), and on owner epochs being fresh (Owners), so    *)
(* that a late RELEASE never names the epoch a pool is about to be loaded  *)
(* with.                                                                   *)
(***************************************************************************)
EXTENDS ThinGuard, TLAPS

\* The requests the daemon has not answered.
Pending ==
    {inbox[i] : i \in 1..Len(inbox)}
        \cup {r \in {job.req} : dpc \in {"PREPARE", "RELEASE"}}

\* Where the plugin waits for the answer to op.
WaitStep(op) == IF op = "PREPARE" THEN "waitPrepare" ELSE "waitRelease"

\* A host that is condemned, or a daemon that has p's epoch and a client.
Guarded(p) ==
    \/ mux = "dropped"
    \/ up /\ p \in Registered /\ wd # "DISARMED" /\ mux # "none"

\* ... under the owner epoch e.
GuardedAs(p, e) == Guarded(p) /\ (mux = "dropped" \/ epochs[p].epoch = e)

\* The plugin has, or can still get, a positive answer to its PREPARE.
Promised(p) ==
    \/ pc[p] = "lvchange"
    \/ pc[p] = "waitPrepare" /\ (call[p].answer = "ok" \/ replay[call[p].id] = "ok")

\* The daemon works on the kind of request its position says.
JobOp == dpc \in {"PREPARE", "RELEASE"} => job.req \in Request /\ job.req.op = dpc

\* Calls under way have ids of their own, and only ids already used are recorded.
Calls ==
    /\ \A p \in Pool : /\ pc[p] \in Waiting => call[p].id \in 1..(nextCall - 1)
                       /\ pc[p] \notin Waiting => call[p].id = 0
    /\ \A p, q \in Pool : p # q /\ call[p].id = call[q].id => call[p].id = 0
    /\ \A i \in Call : replay[i] # "none" => i < nextCall

\* Epochs are fresh: what a release names is no longer on the tags, and only an
\* idle pool or one about to be unloaded is loaded.
Owners ==
    \A p \in Pool :
        /\ own[p] < nextEpoch
        /\ tag[p] < nextEpoch \/ tag[p] = Foreign
        /\ pc[p] \in {"prepare", "waitPrepare", "lvchange"} => own[p] # 0
        /\ pc[p] \in {"release", "waitRelease"} => own[p] # 0 /\ tag[p] # own[p]
        /\ pc[p] \notin {"idle", "dPool"} => p \notin loaded

\* An unanswered request belongs to the call with its id, if that still runs.  A
\* RELEASE names an epoch its pool no longer carries, whoever sent it and however
\* long ago, and never the epoch a loaded pool is registered with.
Requests ==
    \A r \in Pending :
        /\ r.id < nextCall
        /\ \A p \in Pool : call[p].id = r.id =>
              p = r.pool /\ pc[p] = WaitStep(r.op) /\ own[p] = r.epoch
        /\ r.op = "RELEASE" =>
              /\ r.epoch \in 1..(nextEpoch - 1)
              /\ tag[r.pool] # r.epoch
              /\ r.pool \in loaded \ unarmed => mux = "dropped" \/ epochs[r.pool].epoch # r.epoch

\* An armed adapter has a client.
Armed == wd = "ARMED" => mux # "none"
\* Every loaded pool is guarded, but those a spent adapter acknowledged.
Loads == \A p \in loaded \ unarmed : Guarded(p)
\* So is every pool that may still be loaded on the strength of a PREPARE.
Promises ==
    \A p \in Pool \ unarmed : Promised(p) /\ tag[p] = own[p] => GuardedAs(p, own[p])

GuardInv ==
    TypeOK /\ JobOp /\ Calls /\ Owners /\ Requests /\ Armed /\ Loads /\ Promises

-----------------------------------------------------------------------------
(* The types of the values the steps assign                                *)

LEMMA NumberFacts ==
    /\ MaxEpoch \in Nat /\ MaxCall \in Nat /\ Attempts \in {1, 2}
    /\ Foreign = MaxEpoch + 1 /\ Epoch = 1..MaxEpoch /\ Call = 1..MaxCall
BY GuardAssumption DEF Foreign, Epoch, Call

LEMMA CallType ==
    /\ NoCall \in CallState
    /\ \A i \in Call : [id |-> i, try |-> 1, answer |-> "none"] \in CallState
    /\ \A c \in CallState, a \in Answers : [c EXCEPT !.answer = a] \in CallState
BY NumberFacts DEF CallState, NoCall, Answers

LEMMA RetryType ==
    ASSUME NEW c \in CallState, c.try < Attempts
    PROVE  [c EXCEPT !.try = @ + 1] \in CallState /\ c.try + 1 \in {1, 2}
BY NumberFacts DEF CallState

LEMMA EpochType ==
    /\ NoEpoch \in EpochState
    /\ \A e \in 0..MaxEpoch, b \in BOOLEAN :
          [phase |-> "PENDING_ATTACH", epoch |-> e, late |-> b] \in EpochState
    /\ \A x \in EpochState : [x EXCEPT !.phase = "PROTECTED"] \in EpochState
BY NumberFacts DEF EpochState, NoEpoch

LEMMA LateType == 
    /\ \A x \in EpochState : [x EXCEPT !.late = TRUE] \in EpochState
    /\ \A j \in JobState : [j EXCEPT !.late = TRUE] \in JobState
BY Zenon DEF EpochState, JobState

LEMMA JobType ==
    /\ NoJob \in JobState
    /\ \A r \in Request, b \in BOOLEAN : [req |-> r, proof |-> b, late |-> FALSE] \in JobState
BY DEF JobState, NoJob

LEMMA RequestType ==
    \A p \in Pool, op \in {"PREPARE", "RELEASE"}, e \in 0..MaxEpoch, i \in Call, n \in {1, 2} :
        [pool |-> p, op |-> op, epoch |-> e, id |-> i, try |-> n] \in Request
BY DEF Request

LEMMA RequestFields ==
    ASSUME NEW r \in Request
    PROVE  /\ r.pool \in Pool /\ r.op \in {"PREPARE", "RELEASE"} /\ r.epoch \in 0..MaxEpoch
           /\ r.id \in Call /\ r.try \in {1, 2}
BY DEF Request

LEMMA PendingType == ASSUME TypeOK, JobOp PROVE Pending \subseteq Request
BY DEF TypeOK, JobOp, Pending

LEMMA PendingKept ==
    ASSUME UNCHANGED <<inbox, dpc, job>>
    PROVE  Pending' = Pending
BY DEF Pending

LEMMA PendingSent ==
    ASSUME inbox \in Seq(Request), NEW r \in Request, inbox' = Append(inbox, r), UNCHANGED <<dpc, job>>
    PROVE  Pending' = Pending \cup {r}
<1>1. Len(inbox') = Len(inbox) + 1 /\ Len(inbox) \in Nat
  OBVIOUS
<1>2. \A i \in 1..Len(inbox) : inbox'[i] = inbox[i]
  OBVIOUS
<1>3. inbox'[Len(inbox) + 1] = r
  OBVIOUS
<1>4. {inbox'[i] : i \in 1..Len(inbox')} = {inbox[i] : i \in 1..Len(inbox)} \cup {r}
  BY <1>1, <1>2, <1>3
<1> QED BY <1>4 DEF Pending

LEMMA PendingServed ==
    ASSUME inbox \in Seq(Request), inbox # <<>>, inbox' = Tail(inbox), dpc \notin {"PREPARE", "RELEASE"}
    PROVE  /\ Head(inbox) \in Pending /\ Head(inbox) \in Request
           /\ {inbox'[i] : i \in 1..Len(inbox')} \subseteq Pending
<1>1. Len(inbox) \in Nat /\ Len(inbox) >= 1 /\ Head(inbox) = inbox[1] /\ inbox[1] \in Request
  OBVIOUS
<1>2. Len(inbox') = Len(inbox) - 1 /\ \A i \in 1..Len(inbox') : inbox'[i] = inbox[i + 1]
  OBVIOUS
<1>3. \A i \in 1..Len(inbox') : i + 1 \in 1..Len(inbox)
  BY <1>1, <1>2
<1> QED BY <1>1, <1>2, <1>3 DEF Pending

LEMMA PendingAnswered ==
    ASSUME UNCHANGED inbox, dpc' = "loop"
    PROVE  Pending' \subseteq Pending
BY DEF Pending

-----------------------------------------------------------------------------
(* What keeps the parts of the invariant                                   *)

\* The requests under way stay as true as they were while no call changes but by
\* ending, no epoch is claimed twice, and a loaded pool keeps its registration.
LEMMA RequestsKept ==
    ASSUME GuardInv, Pending' \subseteq Pending,
           nextCall' = nextCall, nextEpoch' \in Nat, nextEpoch' >= nextEpoch,
           \A p \in Pool : \/ call'[p].id = 0
                           \/ /\ call'[p].id = call[p].id
                              /\ pc'[p] = pc[p] /\ own'[p] = own[p],
           \A p \in Pool : \A e \in 1..(nextEpoch - 1) : tag[p] # e => tag'[p] # e,
           mux = "dropped" => mux' = "dropped" \/ loaded' = {},
           loaded' \ unarmed' \subseteq loaded \ unarmed,
           \A p \in loaded' \ unarmed' :
              mux' = "dropped" \/ epochs'[p].epoch = epochs[p].epoch
    PROVE  Requests'
<1>1. Pending \subseteq Request /\ nextEpoch \in Nat
  BY PendingType, NumberFacts DEF TypeOK, GuardInv
<1> SUFFICES ASSUME NEW r \in Pending'
             PROVE  /\ r.id < nextCall'
                    /\ \A p \in Pool : call'[p].id = r.id =>
                          p = r.pool /\ pc'[p] = WaitStep(r.op) /\ own'[p] = r.epoch
                    /\ r.op = "RELEASE" =>
                          /\ r.epoch \in 1..(nextEpoch' - 1)
                          /\ tag'[r.pool] # r.epoch
                          /\ r.pool \in loaded' \ unarmed' =>
                                mux' = "dropped" \/ epochs'[r.pool].epoch # r.epoch
  BY DEF Requests, WaitStep
<1>2. r \in Pending /\ r.pool \in Pool /\ r.id \in 1..MaxCall
  BY <1>1, RequestFields, NumberFacts
<1>3. r.id < nextCall'
  BY <1>2 DEF Requests, GuardInv
<1>4. ASSUME NEW p \in Pool, call'[p].id = r.id
      PROVE  p = r.pool /\ pc'[p] = WaitStep(r.op) /\ own'[p] = r.epoch
  BY <1>2, <1>4, NumberFacts DEF Requests, GuardInv, TypeOK, CallState
<1>5. ASSUME r.op = "RELEASE"
      PROVE  /\ r.epoch \in 1..(nextEpoch' - 1)
             /\ tag'[r.pool] # r.epoch
             /\ r.pool \in loaded' \ unarmed' => mux' = "dropped" \/ epochs'[r.pool].epoch # r.epoch
  <2>1. /\ r.epoch \in 1..(nextEpoch - 1) /\ tag[r.pool] # r.epoch
        /\ r.pool \in loaded \ unarmed => mux = "dropped" \/ epochs[r.pool].epoch # r.epoch
    BY <1>2, <1>5 DEF Requests, GuardInv
  <2>2. r.epoch \in 1..(nextEpoch' - 1)
    BY <1>1, <2>1
  <2> QED BY <1>2, <2>1, <2>2
<1> QED BY <1>3, <1>4, <1>5

\* Guards that stay, for the pools that need one.
LEMMA GuardsKept ==
    ASSUME GuardInv,
           loaded' \ unarmed' \subseteq loaded \ unarmed,
           \A p \in Pool \ unarmed' : Promised(p)' /\ tag'[p] = own'[p] =>
              p \notin unarmed /\ Promised(p) /\ tag[p] = own[p] /\ own'[p] = own[p],
           \A p \in Pool \ unarmed' :
              Guarded(p) /\ (p \in loaded' \/ (Promised(p) /\ tag[p] = own[p])) =>
                 Guarded(p)' /\ (mux' = "dropped" \/ epochs'[p].epoch = epochs[p].epoch),
           mux = "dropped" => mux' = "dropped"
    PROVE  Loads' /\ Promises'
<1>1. Loads'
  BY DEF Loads, TypeOK, GuardInv
<1>2. ASSUME NEW p \in Pool \ unarmed', Promised(p)', tag'[p] = own'[p]
      PROVE  Guarded(p)' /\ (mux' = "dropped" \/ epochs'[p].epoch = own'[p])
  BY <1>2 DEF Promises, GuardedAs, Guarded, GuardInv
<1> QED BY <1>1, <1>2 DEF Promises, GuardedAs

\* Nothing the daemon knows changes, and no pool is loaded.
LEMMA PluginGuards ==
    ASSUME GuardInv, UNCHANGED daemonVars, loaded' \subseteq loaded,
           \A p \in Pool : Promised(p)' /\ tag'[p] = own'[p] =>
                              Promised(p) /\ tag[p] = own[p] /\ own'[p] = own[p]
    PROVE  Armed' /\ Loads' /\ Promises'
<1>1. Armed'
  BY DEF GuardInv, Armed, daemonVars, guardVars
<1>2. \A p \in Pool : Guarded(p) => Guarded(p)'
  BY DEF Guarded, Registered, daemonVars, guardVars
<1>3. mux' = mux /\ epochs' = epochs /\ unarmed' = unarmed
  BY DEF daemonVars, guardVars
<1> QED BY <1>1, <1>2, <1>3, GuardsKept

\* What an answer does to the calls.
LEMMA RespondFacts ==
    ASSUME TypeOK, NEW r \in Request, NEW a \in Answers, Respond(r, a)
    PROVE  /\ call' \in [Pool -> CallState]
           /\ \A p \in Pool : call'[p].id = call[p].id
           /\ \A p \in Pool : call'[p].answer = "ok" =>
                 call[p].answer = "ok" \/ (a = "ok" /\ call[p].id = r.id)
<1>1. r.pool \in Pool
  BY RequestFields
<1>2. CASE call' = call
  BY <1>2 DEF TypeOK
<1>3. CASE /\ call[r.pool].id = r.id
           /\ call' = [call EXCEPT ![r.pool].answer = a]
  <2>1. call' \in [Pool -> CallState]
    BY <1>1, <1>3, CallType DEF TypeOK
  <2> QED BY <1>1, <1>3, <2>1 DEF TypeOK, CallState
<1> QED BY <1>2, <1>3 DEF Respond

-----------------------------------------------------------------------------
(* The steps of the plugin                                                 *)

USE DEF GuardInv, hostVars, pluginVars, daemonVars, guardVars

\* One pool's operation changes; the others keep theirs.
LEMMA CallFrame ==
    ASSUME GuardInv, UNCHANGED <<replay, nextCall>>, NEW p \in Pool,
           call' \in [Pool -> CallState],
           \A q \in Pool \ {p} : pc'[q] = pc[q] /\ call'[q] = call[q],
           \/ call'[p].id = 0 /\ pc'[p] \notin Waiting
           \/ call'[p].id = call[p].id /\ pc'[p] = pc[p]
    PROVE  Calls'
<1>1. \A q \in Pool : /\ pc'[q] \in Waiting => call'[q].id \in 1..(nextCall' - 1)
                      /\ pc'[q] \notin Waiting => call'[q].id = 0
  BY DEF Calls
<1>2. \A q, s \in Pool : q # s /\ call'[q].id = call'[s].id => call'[q].id = 0
  BY DEF Calls
<1> QED BY <1>1, <1>2 DEF Calls, Waiting

\* The operation on p ends.
LEMMA FinishFacts ==
    ASSUME GuardInv, NEW p \in Pool, Finish(p), UNCHANGED replay
    PROVE  /\ pc' \in [Pool -> PluginSteps] /\ own' \in [Pool -> 0..MaxEpoch]
           /\ call' \in [Pool -> CallState]
           /\ nextCall' = nextCall /\ nextEpoch' = nextEpoch
           /\ pc'[p] = "idle" /\ own'[p] = 0 /\ call'[p].id = 0
           /\ \A q \in Pool \ {p} : pc'[q] = pc[q] /\ own'[q] = own[q] /\ call'[q] = call[q]
           /\ Calls'
           /\ \A q \in Pool : Promised(q)' => q # p /\ Promised(q)
<1>1. /\ pc' \in [Pool -> PluginSteps] /\ own' \in [Pool -> 0..MaxEpoch]
      /\ call' \in [Pool -> CallState]
  BY CallType, NumberFacts DEF Finish, TypeOK, PluginSteps
<1>2. /\ pc'[p] = "idle" /\ own'[p] = 0 /\ call'[p].id = 0
      /\ nextCall' = nextCall /\ nextEpoch' = nextEpoch
      /\ \A q \in Pool \ {p} : pc'[q] = pc[q] /\ own'[q] = own[q] /\ call'[q] = call[q]
  BY DEF Finish, TypeOK, NoCall
<1>3. Calls'
  BY <1>1, <1>2, CallFrame DEF Waiting
<1>4. \A q \in Pool : Promised(q)' => q # p /\ Promised(q)
  BY <1>2 DEF Promised
<1> QED BY <1>1, <1>2, <1>3, <1>4

\* An ended operation leaves the requests and the guards as they were.
LEMMA FinishFrame ==
    ASSUME GuardInv, NEW p \in Pool, Finish(p), UNCHANGED daemonVars,
           tag' \in [Pool -> 0..Foreign], loaded' \subseteq loaded, qemu' = qemu, quorum' = quorum,
           \A q \in Pool : tag'[q] = tag[q] \/ (q = p /\ tag'[q] = 0)
    PROVE  GuardInv'
<1> USE FinishFacts
<1>1. TypeOK'
  BY DEF TypeOK
<1>2. JobOp' /\ Calls'
  BY DEF JobOp
<1>3. nextEpoch \in Nat /\ 0 < nextEpoch
  BY NumberFacts DEF TypeOK
<1>4. Owners'
  BY <1>3 DEF Owners
<1>5. Requests'
  <2>1. Pending' = Pending
    BY PendingKept
  <2>2. \A q \in Pool : \A e \in 1..(nextEpoch - 1) : tag[q] # e => tag'[q] # e
    BY <1>3
  <2> QED BY <1>3, <2>1, <2>2, RequestsKept
<1>6. Armed' /\ Loads' /\ Promises'
  BY PluginGuards
<1> QED BY <1>1, <1>2, <1>4, <1>5, <1>6

LEMMA ClaimKeeps == ASSUME GuardInv, NEW p \in Pool, Claim(p) PROVE GuardInv'
<1>1. /\ pc' \in [Pool -> PluginSteps] /\ own' \in [Pool -> 0..MaxEpoch]
      /\ tag' \in [Pool -> 0..Foreign] /\ nextEpoch' \in 1..(MaxEpoch + 1)
  <2>1. tag' \in [Pool -> 0..Foreign] /\ nextEpoch' \in 1..(MaxEpoch + 1)
    <3>1. CASE tag[p] = 0
      <4>1. /\ nextEpoch \in 0..Foreign /\ nextEpoch + 1 \in 1..(MaxEpoch + 1)
            /\ tag' = [tag EXCEPT ![p] = nextEpoch] /\ nextEpoch' = nextEpoch + 1
        BY <3>1, NumberFacts DEF Claim, TypeOK
      <4> QED BY <4>1 DEF TypeOK
    <3>2. CASE tag[p] # 0
      BY <3>2 DEF Claim, TypeOK
    <3> QED BY <3>1, <3>2
  <2>2. tag'[p] \in 0..MaxEpoch
    BY NumberFacts DEF Claim, TypeOK
  <2>3. pc' \in [Pool -> PluginSteps] /\ own' \in [Pool -> 0..MaxEpoch]
    BY <2>2 DEF Claim, TypeOK, PluginSteps
  <2> QED BY <2>1, <2>3
<1>2. /\ pc'[p] = "prepare" /\ own'[p] = tag'[p] /\ pc[p] = "idle" /\ p \notin loaded
      /\ tag'[p] # 0 /\ tag'[p] # Foreign /\ (tag[p] # 0 => tag'[p] = tag[p])
      /\ tag'[p] = tag[p] \/ tag'[p] = nextEpoch
      /\ tag'[p] = nextEpoch => nextEpoch' = nextEpoch + 1
      /\ nextEpoch' \in {nextEpoch, nextEpoch + 1}
      /\ \A q \in Pool \ {p} : pc'[q] = pc[q] /\ own'[q] = own[q] /\ tag'[q] = tag[q]
  BY NumberFacts DEF Claim, Begin, TypeOK, Owners
<1>3. /\ UNCHANGED <<loaded, qemu, quorum, call, nextCall, inbox, up, dpc, job, replay,
                    gstate, epochs, bound, wd, mux>>
      /\ unarmed' = unarmed \ {p}
  BY DEF Claim
<1>4. nextEpoch \in Nat /\ nextEpoch' \in Nat /\ nextEpoch' >= nextEpoch /\ nextEpoch > 0
  BY <1>2, NumberFacts DEF TypeOK
<1>5. TypeOK'
  BY <1>1, <1>3 DEF TypeOK
<1>6. call[p].id = 0
  BY <1>2 DEF Calls, Waiting
<1>7. JobOp' /\ Calls'
  <2>1. pc'[p] \notin Waiting
    BY <1>2 DEF Waiting
  <2> QED BY <1>2, <1>3, <1>6, <2>1, CallFrame DEF JobOp, TypeOK
<1>8. Owners'
  <2>1. \A q \in Pool : tag[q] \in Nat /\ own[q] \in Nat /\ tag'[q] \in Nat
    BY <1>1, NumberFacts DEF TypeOK
  <2>2. tag'[p] < nextEpoch'
    BY <1>2, <1>4, <2>1 DEF Owners
  <2>3. \A q \in Pool : /\ own'[q] < nextEpoch'
                        /\ tag'[q] < nextEpoch' \/ tag'[q] = Foreign
    BY <1>2, <1>4, <2>1, <2>2 DEF Owners
  <2>4. ASSUME NEW q \in Pool
        PROVE  /\ pc'[q] \in {"prepare", "waitPrepare", "lvchange"} => own'[q] # 0
               /\ pc'[q] \in {"release", "waitRelease"} => own'[q] # 0 /\ tag'[q] # own'[q]
               /\ pc'[q] \notin {"idle", "dPool"} => q \notin loaded'
    <3>1. CASE q = p
      BY <1>2, <1>3, <3>1
    <3>2. CASE q # p
      BY <1>2, <1>3, <3>2 DEF Owners
    <3> QED BY <3>1, <3>2
  <2> QED BY <2>3, <2>4 DEF Owners, Foreign
<1>9. Requests'
  <2>1. Pending' = Pending
    BY <1>3, PendingKept
  <2>2. \A q \in Pool : \A e \in 1..(nextEpoch - 1) : tag[q] # e => tag'[q] # e
    BY <1>2, <1>4
  <2> QED BY <1>2, <1>3, <1>4, <1>6, <2>1, <2>2, RequestsKept
<1>10. Armed' /\ Loads' /\ Promises'
  <2>1. \A q \in Pool : Guarded(q) => Guarded(q)'
    BY <1>3 DEF Guarded, Registered
  <2>2. \A q \in Pool : Promised(q)' => Promised(q) /\ q # p
    BY <1>2, <1>3 DEF Promised
  <2> QED BY <1>2, <1>3, <2>1, <2>2, GuardsKept DEF Armed
<1> QED BY <1>5, <1>7, <1>8, <1>9, <1>10

LEMMA PrepareAckedKeeps == ASSUME GuardInv, NEW p \in Pool, PrepareAcked(p) PROVE GuardInv'
<1>1. /\ pc' \in [Pool -> PluginSteps] /\ call' \in [Pool -> CallState]
  BY CallType DEF PrepareAcked, TypeOK, PluginSteps
<1>2. /\ pc'[p] = "lvchange" /\ pc[p] = "waitPrepare" /\ call[p].answer = "ok"
      /\ call'[p].id = 0
      /\ \A q \in Pool \ {p} : pc'[q] = pc[q] /\ call'[q] = call[q]
  BY DEF PrepareAcked, TypeOK, NoCall
<1>3. UNCHANGED <<hostVars, own, nextCall, nextEpoch, daemonVars>>
  BY DEF PrepareAcked
<1>4. TypeOK'
  BY <1>1, <1>3 DEF TypeOK
<1>5. JobOp' /\ Calls'
  <2>1. pc'[p] \notin Waiting
    BY <1>2 DEF Waiting
  <2> QED BY <1>1, <1>2, <1>3, <2>1, CallFrame DEF JobOp
<1>6. Owners'
  BY <1>2, <1>3 DEF Owners
<1>7. nextEpoch \in Nat
  BY NumberFacts DEF TypeOK
<1>8. Requests'
  <2>1. Pending' = Pending
    BY <1>3, PendingKept
  <2> QED BY <1>2, <1>3, <1>7, <2>1, RequestsKept
<1>9. Armed' /\ Loads' /\ Promises'
  BY <1>2, <1>3, PluginGuards DEF Promised
<1> QED BY <1>4, <1>5, <1>6, <1>8, <1>9

LEMMA PrepareFailedKeeps == ASSUME GuardInv, NEW p \in Pool, PrepareFailed(p) PROVE GuardInv'
<1>1. /\ tag' \in [Pool -> 0..Foreign]
      /\ \A q \in Pool : tag'[q] = tag[q] \/ (q = p /\ tag'[q] = 0)
  <2>1. tag \in [Pool -> 0..Foreign] /\ 0 \in 0..Foreign
    BY NumberFacts DEF TypeOK
  <2>2. CASE UNCHANGED tag
    BY <2>1, <2>2
  <2>3. CASE tag' = [tag EXCEPT ![p] = IF @ = Foreign THEN @ ELSE 0]
    BY <2>1, <2>3
  <2> QED BY <2>2, <2>3 DEF PrepareFailed
<1> QED BY <1>1, FinishFrame DEF PrepareFailed

LEMMA LvChangeKeeps == ASSUME GuardInv, NEW p \in Pool, LvChange(p) PROVE GuardInv'
<1>1. CASE UNCHANGED loaded
  BY <1>1, FinishFrame DEF LvChange, TypeOK
<1>2. CASE tag[p] = own[p] /\ loaded' = loaded \cup {p}
  <2> USE FinishFacts DEF LvChange
  <2>1. p \notin unarmed => GuardedAs(p, own[p])
    BY <1>2 DEF Promises, Promised
  <2>2. TypeOK'
    BY <1>2 DEF TypeOK
  <2>3. JobOp' /\ Calls'
    BY DEF JobOp
  <2>4. nextEpoch \in Nat /\ 0 < nextEpoch
    BY NumberFacts DEF TypeOK
  <2>5. Owners'
    BY <1>2, <2>4 DEF Owners
  <2>6. Requests'
    <3>1. Pending' = Pending /\ Pending \subseteq Request
      BY PendingKept, PendingType
    <3>2. ASSUME NEW r \in Pending
          PROVE  /\ r.id < nextCall
                 /\ \A q \in Pool : call'[q].id = r.id =>
                       q = r.pool /\ pc'[q] = WaitStep(r.op) /\ own'[q] = r.epoch
      <4>1. r.id # 0
        BY <3>1, RequestFields, NumberFacts
      <4> QED BY <4>1 DEF Requests
    <3>3. ASSUME NEW r \in Pending, r.op = "RELEASE"
          PROVE  /\ r.epoch \in 1..(nextEpoch - 1) /\ tag[r.pool] # r.epoch
                 /\ r.pool \in loaded' \ unarmed' => mux = "dropped" \/ epochs[r.pool].epoch # r.epoch
      <4>1. /\ r.epoch \in 1..(nextEpoch - 1) /\ tag[r.pool] # r.epoch
            /\ r.pool \in loaded \ unarmed => mux = "dropped" \/ epochs[r.pool].epoch # r.epoch
        BY <3>3 DEF Requests
      <4> QED BY <1>2, <2>1, <4>1 DEF GuardedAs
    <3> QED BY <3>1, <3>2, <3>3 DEF Requests, WaitStep
  <2>7. \A q \in Pool : Guarded(q) => Guarded(q)'
    BY DEF Guarded, Registered
  <2>8. Armed' /\ Loads'
    BY <1>2, <2>1, <2>7 DEF Armed, Loads, GuardedAs, TypeOK
  <2>9. Promises'
    <3>1. \A q \in Pool : q # p => own'[q] = own[q] /\ tag'[q] = tag[q] /\ epochs' = epochs /\ mux' = mux
      OBVIOUS
    <3> QED BY <2>7, <3>1 DEF Promises, GuardedAs
  <2> QED BY <2>2, <2>3, <2>5, <2>6, <2>8, <2>9
<1> QED BY <1>1, <1>2 DEF LvChange

LEMMA DeactivateKeeps == ASSUME GuardInv, NEW p \in Pool, Deactivate(p) PROVE GuardInv'
<1>1. pc' \in [Pool -> PluginSteps] /\ own' \in [Pool -> 0..MaxEpoch]
  BY NumberFacts DEF Deactivate, TypeOK, PluginSteps
<1>2. /\ pc'[p] = "dPool" /\ pc[p] = "idle" /\ own'[p] \in {0, tag[p]} /\ own'[p] # Foreign
      /\ \A q \in Pool \ {p} : pc'[q] = pc[q] /\ own'[q] = own[q]
  BY NumberFacts DEF Deactivate, Begin, TypeOK
<1>3. UNCHANGED <<hostVars, call, nextCall, nextEpoch, daemonVars>>
  BY DEF Deactivate
<1>4. nextEpoch \in Nat /\ 0 < nextEpoch
  BY NumberFacts DEF TypeOK
<1>5. TypeOK'
  BY <1>1, <1>3 DEF TypeOK
<1>6. call[p].id = 0
  BY <1>2 DEF Calls, Waiting
<1>7. JobOp' /\ Calls'
  <2>1. pc'[p] \notin Waiting
    BY <1>2 DEF Waiting
  <2> QED BY <1>2, <1>3, <1>6, <2>1, CallFrame DEF JobOp, TypeOK
<1>8. Owners'
  BY <1>1, <1>2, <1>3, <1>4 DEF Owners
<1>9. Requests'
  <2>1. Pending' = Pending
    BY <1>3, PendingKept
  <2> QED BY <1>2, <1>3, <1>4, <1>6, <2>1, RequestsKept
<1>10. Armed' /\ Loads' /\ Promises'
  BY <1>2, <1>3, PluginGuards DEF Promised
<1> QED BY <1>5, <1>7, <1>8, <1>9, <1>10

\* The operation on p goes on to a step that waits for nothing.
LEMMA AdvanceFrame ==
    ASSUME GuardInv, NEW p \in Pool, NEW step \in {"dOwner", "release"}, Advance(p, step),
           pc[p] \in {"dPool", "dOwner"}, UNCHANGED <<qemu, quorum, daemonVars>>,
           tag' \in [Pool -> 0..Foreign], loaded' \subseteq loaded, p \notin loaded',
           \A q \in Pool : tag'[q] = tag[q] \/ (q = p /\ tag'[q] = 0),
           step = "release" => own[p] # 0 /\ tag'[p] # own[p]
    PROVE  GuardInv'
<1>1. pc' \in [Pool -> PluginSteps] /\ UNCHANGED <<own, call, nextCall, nextEpoch>>
  BY DEF Advance, TypeOK, PluginSteps
<1>2. pc'[p] = step /\ \A q \in Pool \ {p} : pc'[q] = pc[q]
  BY DEF Advance, TypeOK
<1>3. nextEpoch \in Nat /\ 0 < nextEpoch
  BY NumberFacts DEF TypeOK
<1>4. TypeOK'
  BY <1>1 DEF TypeOK
<1>5. call[p].id = 0
  BY DEF Calls, Waiting
<1>6. JobOp' /\ Calls'
  <2>1. pc'[p] \notin Waiting
    BY <1>2 DEF Waiting
  <2> QED BY <1>1, <1>2, <1>5, <2>1, CallFrame DEF JobOp, TypeOK
<1>7. Owners'
  BY <1>1, <1>2, <1>3 DEF Owners
<1>8. Requests'
  <2>1. Pending' = Pending
    BY PendingKept
  <2>2. \A q \in Pool : \A e \in 1..(nextEpoch - 1) : tag[q] # e => tag'[q] # e
    BY <1>3
  <2> QED BY <1>1, <1>2, <1>3, <1>5, <2>1, <2>2, RequestsKept
<1>9. \A q \in Pool : Promised(q)' /\ tag'[q] = own'[q] =>
                         Promised(q) /\ tag[q] = own[q] /\ own'[q] = own[q]
  BY <1>1, <1>2 DEF Promised
<1>10. Armed' /\ Loads' /\ Promises'
  BY <1>9, PluginGuards
<1> QED BY <1>4, <1>6, <1>7, <1>8, <1>10

LEMMA UnloadPoolKeeps == ASSUME GuardInv, NEW p \in Pool, UnloadPool(p) PROVE GuardInv'
<1>1. CASE UNCHANGED loaded /\ Finish(p)
  BY <1>1, FinishFrame DEF UnloadPool, TypeOK
<1>2. CASE loaded' = loaded \ {p} /\ Advance(p, "dOwner")
  BY <1>2, AdvanceFrame DEF UnloadPool, TypeOK
<1> QED BY <1>1, <1>2 DEF UnloadPool

LEMMA ReleaseOwnerKeeps == ASSUME GuardInv, NEW p \in Pool, ReleaseOwner(p) PROVE GuardInv'
<1>1. /\ tag' \in [Pool -> 0..Foreign] /\ p \notin loaded
      /\ \A q \in Pool : tag'[q] = tag[q] \/ (q = p /\ tag'[q] = 0)
  BY NumberFacts DEF ReleaseOwner, TypeOK, Owners
<1>2. CASE Finish(p)
  BY <1>1, <1>2, FinishFrame DEF ReleaseOwner
<1>3. CASE Advance(p, "release") /\ own[p] # 0 /\ tag' = [tag EXCEPT ![p] = IF @ = Foreign THEN @ ELSE 0]
  <2>1. tag'[p] \in {0, Foreign} /\ own[p] \in 0..MaxEpoch
    BY <1>3 DEF TypeOK
  <2>2. tag'[p] # own[p]
    BY <1>3, <2>1, NumberFacts
  <2> QED BY <1>1, <1>3, <2>2, AdvanceFrame DEF ReleaseOwner
<1> QED BY <1>2, <1>3 DEF ReleaseOwner

LEMMA EndKeeps ==
    ASSUME GuardInv, NEW p \in Pool, ReleaseEnds(p) \/ PluginDies(p) PROVE GuardInv'
BY FinishFrame DEF ReleaseEnds, PluginDies, TypeOK

\* A request is sent, or the daemon is down and it is not.
LEMMA SendFacts ==
    ASSUME GuardInv, NEW p \in Pool, NEW op \in {"PREPARE", "RELEASE"}, NEW i \in Call,
           NEW n \in {1, 2}, Send(p, op, i, n), UNCHANGED <<dpc, job>>
    PROVE  /\ inbox' \in Seq(Request)
           /\ \A r \in Pending' : r \in Pending \/
                 (r.pool = p /\ r.op = op /\ r.epoch = own[p] /\ r.id = i)
<1> DEFINE s == [pool |-> p, op |-> op, epoch |-> own[p], id |-> i, try |-> n]
<1>1. own[p] \in 0..MaxEpoch /\ inbox \in Seq(Request)
  BY DEF TypeOK
<1>2. s \in Request
  BY <1>1, RequestType
<1>3. CASE up
  <2>1. inbox' = Append(inbox, s)
    BY <1>3 DEF Send
  <2>2. Pending' = Pending \cup {s}
    BY <1>1, <1>2, <2>1, PendingSent
  <2>3. inbox' \in Seq(Request)
    BY <1>1, <1>2, <2>1
  <2> QED BY <2>2, <2>3
<1>4. CASE ~up
  <2>1. inbox' = inbox
    BY <1>4 DEF Send
  <2> QED BY <1>1, <2>1, PendingKept
<1> QED BY <1>3, <1>4

\* A sent request keeps the account of the requests when its call is its own.
LEMMA SendKeeps ==
    ASSUME GuardInv, NEW p \in Pool, NEW op \in {"PREPARE", "RELEASE"}, NEW i \in Call,
           UNCHANGED <<hostVars, own, nextEpoch, epochs, mux, unarmed>>,
           \A r \in Pending' : r \in Pending \/
                 (r.pool = p /\ r.op = op /\ r.epoch = own[p] /\ r.id = i),
           op = "RELEASE" => pc[p] \in {"release", "waitRelease"},
           nextCall' \in Nat, nextCall' >= nextCall, i < nextCall', call'[p].id = i,
           pc'[p] = WaitStep(op), (i = call[p].id /\ pc'[p] = pc[p]) \/ i = nextCall,
           \A q \in Pool \ {p} : pc'[q] = pc[q] /\ call'[q].id = call[q].id /\ call[q].id # i
    PROVE  Requests'
<1>1. Pending \subseteq Request /\ nextEpoch \in Nat /\ nextCall \in Nat
  BY PendingType, NumberFacts DEF TypeOK
<1>2. ASSUME NEW r \in Pending
      PROVE  /\ r.id < nextCall'
             /\ \A q \in Pool : call'[q].id = r.id =>
                   q = r.pool /\ pc'[q] = WaitStep(r.op) /\ own'[q] = r.epoch
             /\ r.op = "RELEASE" =>
                   /\ r.epoch \in 1..(nextEpoch' - 1) /\ tag'[r.pool] # r.epoch
                   /\ r.pool \in loaded' \ unarmed' => mux' = "dropped" \/ epochs'[r.pool].epoch # r.epoch
  <2>1. r.id \in Nat /\ r.id < nextCall
    BY <1>1, RequestFields, NumberFacts DEF Requests
  <2>2. r.id # nextCall
    BY <1>1, <2>1
  <2>3. r.id < nextCall'
    BY <1>1, <2>1
  <2>4. ASSUME NEW q \in Pool, call'[q].id = r.id
        PROVE  q = r.pool /\ pc'[q] = WaitStep(r.op) /\ own'[q] = r.epoch
    <3>1. call[q].id = r.id /\ pc'[q] = pc[q]
      BY <2>2, <2>4
    <3> QED BY <3>1 DEF Requests
  <2> QED BY <2>3, <2>4 DEF Requests
<1>3. ASSUME NEW r \in Pending', r.pool = p, r.op = op, r.epoch = own[p], r.id = i
      PROVE  /\ r.id < nextCall'
             /\ \A q \in Pool : call'[q].id = r.id =>
                   q = r.pool /\ pc'[q] = WaitStep(r.op) /\ own'[q] = r.epoch
             /\ r.op = "RELEASE" =>
                   /\ r.epoch \in 1..(nextEpoch' - 1) /\ tag'[r.pool] # r.epoch
                   /\ r.pool \in loaded' \ unarmed' => mux' = "dropped" \/ epochs'[r.pool].epoch # r.epoch
  <2>1. \A q \in Pool : call'[q].id = r.id => q = r.pool /\ pc'[q] = WaitStep(r.op) /\ own'[q] = r.epoch
    BY <1>3
  <2>2. ASSUME op = "RELEASE"
        PROVE  own[p] \in 1..(nextEpoch - 1) /\ tag[p] # own[p] /\ p \notin loaded
    <3>1. own[p] \in Nat
      BY NumberFacts DEF TypeOK
    <3>2. own[p] # 0 /\ own[p] < nextEpoch /\ tag[p] # own[p] /\ p \notin loaded
      BY <2>2 DEF Owners
    <3> QED BY <1>1, <3>1, <3>2
  <2> QED BY <1>3, <2>1, <2>2
<1> QED BY <1>2, <1>3 DEF Requests, WaitStep

LEMMA GuardCallKeeps ==
    ASSUME GuardInv, NEW p \in Pool, NEW op \in {"PREPARE", "RELEASE"}, NEW from,
           from = IF op = "PREPARE" THEN "prepare" ELSE "release",
           GuardCall(p, from, op, WaitStep(op))
    PROVE  GuardInv'
<1>1. /\ nextCall \in Call /\ nextCall \in Nat /\ nextCall # 0 /\ nextCall' = nextCall + 1
      /\ nextCall' \in 1..(MaxCall + 1)
  BY NumberFacts DEF GuardCall, TypeOK
<1>2. WaitStep(op) \in Waiting /\ WaitStep(op) \in PluginSteps /\ from \notin Waiting
  BY DEF WaitStep, Waiting, PluginSteps
<1>3. pc' \in [Pool -> PluginSteps] /\ call' \in [Pool -> CallState]
  BY <1>1, <1>2, CallType DEF GuardCall, TypeOK
<1>4. /\ pc[p] = from /\ pc'[p] = WaitStep(op)
      /\ call'[p].id = nextCall /\ call'[p].answer = "none"
      /\ \A q \in Pool \ {p} : pc'[q] = pc[q] /\ call'[q] = call[q]
  BY DEF GuardCall, TypeOK
<1>5. UNCHANGED <<hostVars, own, nextEpoch, up, dpc, job, replay, guardVars, mux>>
  BY DEF GuardCall
<1>6. /\ inbox' \in Seq(Request)
      /\ \A r \in Pending' : r \in Pending \/
            (r.pool = p /\ r.op = op /\ r.epoch = own[p] /\ r.id = nextCall)
  BY <1>1, <1>5, SendFacts DEF GuardCall
<1>7. TypeOK'
  BY <1>1, <1>3, <1>5, <1>6 DEF TypeOK
<1>8. \A q \in Pool : call[q].id \in Nat /\ call[q].id < nextCall
  <2>1. \A q \in Pool : call[q].id \in Nat
    BY NumberFacts DEF TypeOK, CallState
  <2>2. \A q \in Pool : call[q].id = 0 \/ call[q].id \in 1..(nextCall - 1)
    BY DEF Calls
  <2> QED BY <1>1, <2>1, <2>2
<1>9. JobOp' /\ Calls'
  <2>1. \A q \in Pool : /\ pc'[q] \in Waiting => call'[q].id \in 1..(nextCall' - 1)
                        /\ pc'[q] \notin Waiting => call'[q].id = 0
    BY <1>1, <1>2, <1>4, <1>8 DEF Calls
  <2>2. \A q, s \in Pool : q # s /\ call'[q].id = call'[s].id => call'[q].id = 0
    BY <1>1, <1>4, <1>8 DEF Calls
  <2>3. \A i \in Call : replay'[i] # "none" => i < nextCall'
    BY <1>1, <1>5, NumberFacts DEF Calls
  <2> QED BY <1>5, <2>1, <2>2, <2>3 DEF Calls, JobOp, Waiting, Call
<1>10. Owners'
  BY <1>4, <1>5 DEF Owners, WaitStep
<1>11. Requests'
  <2>1. \A q \in Pool \ {p} : call[q].id # nextCall
    BY <1>1, <1>8
  <2> QED BY <1>1, <1>4, <1>5, <1>6, <2>1, SendKeeps
<1>12. \A q \in Pool : Promised(q)' => Promised(q)
  <2>1. replay'[nextCall] = "none"
    BY <1>1, <1>5, NumberFacts DEF Calls, TypeOK
  <2> QED BY <1>4, <1>5, <2>1 DEF Promised, WaitStep
<1>13. Armed' /\ Loads' /\ Promises'
  <2>1. Armed'
    BY <1>5 DEF Armed
  <2>2. \A q \in Pool : Guarded(q) => Guarded(q)'
    BY <1>5 DEF Guarded, Registered
  <2> QED BY <1>5, <1>12, <2>1, <2>2, GuardsKept
<1> QED BY <1>7, <1>9, <1>10, <1>11, <1>13

LEMMA SendPrepareKeeps == ASSUME GuardInv, NEW p \in Pool, SendPrepare(p) PROVE GuardInv'
BY GuardCallKeeps DEF SendPrepare, WaitStep

LEMMA SendReleaseKeeps == ASSUME GuardInv, NEW p \in Pool, SendRelease(p) PROVE GuardInv'
BY GuardCallKeeps DEF SendRelease, WaitStep

LEMMA RetryKeeps == ASSUME GuardInv, NEW p \in Pool, Retry(p) PROVE GuardInv'
<1> DEFINE op == IF pc[p] = "waitPrepare" THEN "PREPARE" ELSE "RELEASE"
<1>1. /\ call[p].id \in 1..(nextCall - 1) /\ call[p].id \in Call
      /\ nextCall \in Nat /\ call[p].id < nextCall
  BY NumberFacts DEF Retry, Calls, TypeOK
<1>2. call[p] \in CallState /\ call[p].try < Attempts
  BY DEF Retry, TypeOK
<1>3. [call[p] EXCEPT !.try = @ + 1] \in CallState /\ call[p].try + 1 \in {1, 2}
  BY <1>2, RetryType
<1>4. /\ call' \in [Pool -> CallState] /\ call'[p].try \in {1, 2}
      /\ call'[p].id = call[p].id /\ call'[p].answer = call[p].answer
      /\ \A q \in Pool \ {p} : call'[q] = call[q]
  BY <1>2, <1>3 DEF Retry, TypeOK, CallState
<1>5. UNCHANGED <<hostVars, pc, own, nextCall, nextEpoch, up, dpc, job, replay, guardVars, mux>>
  BY DEF Retry
<1>6. op \in {"PREPARE", "RELEASE"} /\ pc[p] = WaitStep(op)
  BY DEF Retry, Waiting, WaitStep
<1>7. /\ inbox' \in Seq(Request)
      /\ \A r \in Pending' : r \in Pending \/
            (r.pool = p /\ r.op = op /\ r.epoch = own[p] /\ r.id = call[p].id)
  <2>1. PICK n \in {1, 2} : n = call'[p].try
    BY <1>4
  <2>2. Send(p, op, call[p].id, n)
    BY <2>1 DEF Retry, Send
  <2> HIDE DEF op
  <2> QED BY <1>1, <1>5, <1>6, <2>2, SendFacts
<1> HIDE DEF op
<1>8. TypeOK'
  BY <1>4, <1>5, <1>7 DEF TypeOK
<1>9. JobOp' /\ Calls'
  BY <1>4, <1>5, CallFrame DEF JobOp
<1>10. Owners'
  BY <1>5 DEF Owners
<1>11. Requests'
  <2>1. \A q \in Pool \ {p} : call[q].id # call[p].id
    BY <1>1 DEF Calls
  <2>2. op = "RELEASE" => pc[p] = "waitRelease"
    BY <1>6 DEF WaitStep
  <2> QED BY <1>1, <1>4, <1>5, <1>6, <1>7, <2>1, <2>2, SendKeeps
<1>12. Armed' /\ Loads' /\ Promises'
  <2>1. Armed'
    BY <1>5 DEF Armed
  <2>2. \A q \in Pool : Guarded(q) => Guarded(q)'
    BY <1>5 DEF Guarded, Registered
  <2>3. \A q \in Pool : Promised(q)' => Promised(q)
    BY <1>4, <1>5 DEF Promised
  <2> QED BY <1>5, <2>1, <2>2, <2>3, GuardsKept
<1> QED BY <1>8, <1>9, <1>10, <1>11, <1>12

-----------------------------------------------------------------------------
(* The environment                                                         *)

LEMMA ForeignOwnerKeeps == ASSUME GuardInv, NEW p \in Pool, ForeignOwner(p) PROVE GuardInv'
<1>1. /\ UNCHANGED <<loaded, qemu, quorum, pluginVars, daemonVars>>
      /\ tag' \in [Pool -> 0..Foreign] /\ tag'[p] \in {0, Foreign}
      /\ \A q \in Pool \ {p} : tag'[q] = tag[q]
  <2>1. 0 \in 0..Foreign /\ Foreign \in 0..Foreign
    BY NumberFacts
  <2> QED BY <2>1 DEF ForeignOwner, TypeOK
<1>2. nextEpoch \in Nat /\ 0 < nextEpoch /\ nextEpoch - 1 < Foreign /\ Foreign \in Nat
  BY NumberFacts DEF TypeOK
<1>3. \A q \in Pool : own[q] \in Nat /\ own[q] # Foreign
  BY NumberFacts DEF TypeOK
<1>4. TypeOK'
  BY <1>1 DEF TypeOK
<1>5. JobOp' /\ Calls'
  BY <1>1, CallFrame DEF JobOp, TypeOK
<1>6. Owners'
  BY <1>1, <1>2, <1>3 DEF Owners
<1>7. Requests'
  <2>1. Pending' = Pending
    BY <1>1, PendingKept
  <2>2. \A q \in Pool : \A e \in 1..(nextEpoch - 1) : tag[q] # e => tag'[q] # e
    BY <1>1, <1>2
  <2> QED BY <1>1, <1>2, <2>1, <2>2, RequestsKept
<1>8. \A q \in Pool : Promised(q)' /\ tag'[q] = own'[q] =>
                         Promised(q) /\ tag[q] = own[q] /\ own'[q] = own[q]
  BY <1>1, <1>3 DEF Promised, Owners
<1>9. Armed' /\ Loads' /\ Promises'
  BY <1>1, <1>8, PluginGuards
<1> QED BY <1>4, <1>5, <1>6, <1>7, <1>9

\* What QEMU and the quorum do is nothing the invariant is about.
LEMMA SurroundingsKeep ==
    ASSUME GuardInv, UNCHANGED <<tag, loaded, pluginVars, daemonVars>>,
           qemu' \subseteq Pool, quorum' \in BOOLEAN
    PROVE  GuardInv'
<1>1. TypeOK'
  BY DEF TypeOK
<1>2. JobOp' /\ Calls'
  BY DEF JobOp, Calls
<1>3. Owners'
  BY DEF Owners
<1>4. Requests'
  <2>1. Pending' = Pending /\ nextEpoch \in Nat
    BY PendingKept, NumberFacts DEF TypeOK
  <2> QED BY <2>1, RequestsKept
<1>5. Armed' /\ Loads' /\ Promises'
  BY PluginGuards DEF Promised
<1> QED BY <1>1, <1>2, <1>3, <1>4, <1>5

LEMMA HostResetKeeps == ASSUME GuardInv, HostReset PROVE GuardInv'
<1> USE DEF HostReset
<1>1. TypeOK'
  <2>1. inbox' \in Seq(Request) /\ replay' \in [Call -> Answers \cup {"none"}]
    OBVIOUS
  <2>2. job' \in JobState /\ epochs' \in [Pool -> EpochState]
    BY EpochType, JobType
  <2>3. /\ pc' \in [Pool -> PluginSteps] /\ own' \in [Pool -> 0..MaxEpoch]
        /\ call' \in [Pool -> CallState]
    BY CallType, NumberFacts DEF PluginSteps
  <2> QED BY <2>1, <2>2, <2>3 DEF TypeOK
<1>2. JobOp'
  BY DEF JobOp
<1>3. Calls'
  BY NumberFacts DEF Calls, Waiting, NoCall
<1>4. nextEpoch \in Nat /\ 0 < nextEpoch
  BY NumberFacts DEF TypeOK
<1>5. Owners'
  BY <1>4 DEF Owners
<1>6. Requests'
  <2>1. Pending' = {}
    BY DEF Pending
  <2> QED BY <2>1 DEF Requests
<1>7. Armed' /\ Loads' /\ Promises'
  BY DEF Armed, Loads, Promises, Promised
<1> QED BY <1>1, <1>2, <1>3, <1>5, <1>6, <1>7

-----------------------------------------------------------------------------
(* The steps of the daemon                                                 *)

\* A step of the daemon that ends or keeps the requests under way.
LEMMA DaemonFrame ==
    ASSUME GuardInv, UNCHANGED <<hostVars, pc, own, nextCall, nextEpoch>>,
           call' \in [Pool -> CallState], \A p \in Pool : call'[p].id = call[p].id,
           \A i \in Call : replay'[i] # "none" => replay[i] # "none" \/ i < nextCall,
           Pending' \subseteq Pending, mux = "dropped" => mux' = "dropped",
           unarmed \subseteq unarmed',
           \A p \in loaded \ unarmed' :
              mux' = "dropped" \/ epochs'[p].epoch = epochs[p].epoch
    PROVE  Calls' /\ Owners' /\ Requests'
<1>1. Calls'
  <2>1. \A q \in Pool : /\ pc'[q] \in Waiting => call'[q].id \in 1..(nextCall' - 1)
                        /\ pc'[q] \notin Waiting => call'[q].id = 0
    BY DEF Calls
  <2>2. \A q, s \in Pool : q # s /\ call'[q].id = call'[s].id => call'[q].id = 0
    BY DEF Calls
  <2>3. \A i \in Call : replay'[i] # "none" => i < nextCall'
    BY DEF Calls
  <2> QED BY <2>1, <2>2, <2>3 DEF Calls, Waiting, Call
<1>2. Owners'
  BY DEF Owners
<1>3. nextEpoch \in Nat
  BY NumberFacts DEF TypeOK
<1>4. Requests'
  BY <1>3, RequestsKept
<1> QED BY <1>1, <1>2, <1>4

\* The daemon's position changes and nothing else.
LEMMA LoopKeeps ==
    ASSUME GuardInv, Start \/ LoopIdle \/ ServeNobody
    PROVE  GuardInv'
<1>1. /\ UNCHANGED <<hostVars, pluginVars, inbox, job, replay, guardVars, mux>>
      /\ up' \in BOOLEAN /\ (up => up')
      /\ dpc' = dpc \/ dpc' \in {"loop", "serve"}
  BY DEF Start, LoopIdle, ServeNobody, TypeOK
<1>2. TypeOK' /\ JobOp'
  BY <1>1 DEF TypeOK, JobOp
<1>3. Pending' \subseteq Pending
  BY <1>1 DEF Pending
<1>4. Calls' /\ Owners' /\ Requests'
  BY <1>1, <1>3, DaemonFrame DEF TypeOK
<1>5. \A p \in Pool : Guarded(p) => Guarded(p)'
  BY <1>1 DEF Guarded, Registered
<1>6. Armed' /\ Loads' /\ Promises'
  BY <1>1, <1>5, GuardsKept DEF Armed, Promised
<1> QED BY <1>2, <1>4, <1>6

LEMMA ExitKeeps ==
    ASSUME GuardInv, Exit, UNCHANGED <<hostVars, pluginVars>>
    PROVE  GuardInv'
<1> USE DEF Exit
<1>1. TypeOK' /\ JobOp'
  <2>1. inbox' \in Seq(Request) /\ replay' \in [Call -> Answers \cup {"none"}]
    OBVIOUS
  <2>2. job' \in JobState /\ epochs' \in [Pool -> EpochState]
    BY EpochType, JobType
  <2> QED BY <2>1, <2>2 DEF TypeOK, JobOp
<1>2. Pending' \subseteq Pending
  BY DEF Pending
<1>3. \A p \in loaded \ unarmed : mux' = "dropped"
  BY DEF Loads, Guarded
<1>4. \A i \in Call : replay'[i] = "none"
  OBVIOUS
<1>5. Calls' /\ Owners' /\ Requests'
  BY <1>2, <1>3, <1>4, DaemonFrame DEF TypeOK
<1>6. \A p \in Pool : Guarded(p) => mux' = "dropped" /\ Guarded(p)'
  BY DEF Guarded
<1>7. \A p \in Pool : call[p].id = 0 \/ call[p].id \in Call
  BY NumberFacts DEF TypeOK, CallState
<1>8. \A p \in Pool : Promised(p)' => Promised(p)
  <2>1. ASSUME NEW p \in Pool, pc[p] = "waitPrepare" PROVE call[p].id \in Call
    <3>1. call[p].id # 0
      BY <2>1, NumberFacts DEF Calls, Waiting, TypeOK
    <3> QED BY <1>7, <3>1
  <2> QED BY <1>4, <2>1 DEF Promised
<1>9. Armed' /\ Loads' /\ Promises'
  BY <1>6, <1>8, GuardsKept DEF Armed
<1> QED BY <1>1, <1>5, <1>9

LEMMA ObserveRefreshKeeps == ASSUME GuardInv, ObserveRefresh PROVE GuardInv'
<1>1. /\ UNCHANGED <<hostVars, pluginVars, inbox, up, job, replay, bound, wd, unarmed>>
      /\ dpc = "loop" /\ dpc' = "serve" /\ wd = "ARMED"
      /\ gstate' \in {"PROTECTED", "ARMED_PENDING"}
      /\ mux' = IF mux = "dropped" THEN "dropped" ELSE "fresh"
  BY DEF ObserveRefresh, Observing
<1>2. /\ epochs' \in [Pool -> EpochState]
      /\ \A p \in Pool : /\ epochs'[p].epoch = epochs[p].epoch
                         /\ p \in Registered => epochs'[p].phase # "none"
  <2>1. \A p \in Pool : \/ epochs'[p] = epochs[p]
                        \/ epochs'[p] = [epochs[p] EXCEPT !.phase = "PROTECTED"]
    BY DEF ObserveRefresh
  <2>2. \A x \in EpochState : /\ [x EXCEPT !.phase = "PROTECTED"] \in EpochState
                              /\ [x EXCEPT !.phase = "PROTECTED"].epoch = x.epoch
                              /\ [x EXCEPT !.phase = "PROTECTED"].phase = "PROTECTED"
    BY EpochType DEF EpochState
  <2>3. epochs \in [Pool -> EpochState]
    BY DEF TypeOK
  <2>4. \A p \in Pool : epochs'[p] \in EpochState
    BY <2>1, <2>2, <2>3
  <2>5. epochs' \in [Pool -> EpochState]
    BY <2>4 DEF ObserveRefresh
  <2> QED BY <2>1, <2>2, <2>3, <2>5 DEF Registered
<1>3. TypeOK' /\ JobOp'
  BY <1>1, <1>2 DEF TypeOK, JobOp
<1>4. Pending' \subseteq Pending
  BY <1>1 DEF Pending
<1>5. Calls' /\ Owners' /\ Requests'
  BY <1>1, <1>2, <1>4, DaemonFrame DEF TypeOK
<1>6. \A p \in Pool : Guarded(p) => Guarded(p)'
  BY <1>1, <1>2 DEF Guarded, Registered
<1>7. \A p \in Pool : Promised(p)' => Promised(p)
  BY <1>1 DEF Promised
<1>8. Armed' /\ Loads' /\ Promises'
  BY <1>1, <1>2, <1>6, <1>7, GuardsKept DEF Armed
<1> QED BY <1>3, <1>5, <1>8

LEMMA ObserveFenceKeeps == ASSUME GuardInv, ObserveFence PROVE GuardInv'
<1>1. /\ UNCHANGED <<hostVars, pluginVars, inbox, up, job, replay, epochs, bound, mux, unarmed>>
      /\ dpc = "loop" /\ dpc' = "serve" /\ gstate' = "FENCING"
      /\ wd' = IF wd = "DISARMED" THEN wd ELSE "FENCING"
  BY DEF ObserveFence, Observing
<1>2. TypeOK' /\ JobOp'
  BY <1>1 DEF TypeOK, JobOp
<1>3. Pending' \subseteq Pending
  BY <1>1 DEF Pending
<1>4. Calls' /\ Owners' /\ Requests'
  BY <1>1, <1>3, DaemonFrame DEF TypeOK
<1>5. \A p \in Pool : Guarded(p) => Guarded(p)'
  BY <1>1 DEF Guarded, Registered
<1>6. \A p \in Pool : Promised(p)' => Promised(p)
  BY <1>1 DEF Promised
<1>7. Armed' /\ Loads' /\ Promises'
  BY <1>1, <1>5, <1>6, GuardsKept DEF Armed
<1> QED BY <1>2, <1>4, <1>7

LEMMA MuxAgeKeeps == ASSUME GuardInv, MuxAge PROVE GuardInv'
<1>1. /\ UNCHANGED <<hostVars, pluginVars, inbox, up, dpc, job, replay, guardVars>>
      /\ mux = "fresh" /\ mux' = "stale"
  BY DEF MuxAge
<1>2. TypeOK' /\ JobOp'
  BY <1>1 DEF TypeOK, JobOp
<1>3. Pending' \subseteq Pending
  BY <1>1 DEF Pending
<1>4. Calls' /\ Owners' /\ Requests'
  BY <1>1, <1>3, DaemonFrame DEF TypeOK
<1>5. \A p \in Pool : Guarded(p) => Guarded(p)'
  BY <1>1 DEF Guarded, Registered
<1>6. \A p \in Pool : Promised(p)' => Promised(p)
  BY <1>1 DEF Promised
<1>7. Armed' /\ Loads' /\ Promises'
  BY <1>1, <1>5, <1>6, GuardsKept DEF Armed
<1> QED BY <1>2, <1>4, <1>7

LEMMA DeadlinePassesKeeps == ASSUME GuardInv, NEW p \in Pool, DeadlinePasses(p) PROVE GuardInv'
<1>1. UNCHANGED <<hostVars, pluginVars, inbox, up, dpc, replay, gstate, bound, wd, mux, unarmed>>
  BY DEF DeadlinePasses
<1>2. /\ epochs' \in [Pool -> EpochState]
      /\ \A q \in Pool : epochs'[q].epoch = epochs[q].epoch /\ epochs'[q].phase = epochs[q].phase
  <2>1. epochs \in [Pool -> EpochState] /\ epochs[p] \in EpochState
    BY DEF TypeOK
  <2>2. CASE epochs' = [epochs EXCEPT ![p].late = TRUE]
    <3>1. [epochs[p] EXCEPT !.late = TRUE] \in EpochState
      BY <2>1, LateType
    <3>2. /\ [epochs[p] EXCEPT !.late = TRUE].epoch = epochs[p].epoch
          /\ [epochs[p] EXCEPT !.late = TRUE].phase = epochs[p].phase
      BY <2>1 DEF EpochState
    <3>3. epochs' \in [Pool -> EpochState] /\ epochs'[p] = [epochs[p] EXCEPT !.late = TRUE]
      BY <2>1, <2>2, <3>1, Zenon
    <3>4. \A q \in Pool \ {p} : epochs'[q] = epochs[q]
      BY <2>1, <2>2
    <3> QED BY <3>2, <3>3, <3>4
  <2> QED BY <2>1, <2>2 DEF DeadlinePasses
<1>3. job' \in JobState /\ job'.req = job.req
  <2>1. job \in JobState
    BY DEF TypeOK
  <2>2. [job EXCEPT !.late = TRUE] \in JobState
    BY <2>1, LateType
  <2>3. [job EXCEPT !.late = TRUE].req = job.req
    BY <2>1 DEF JobState
  <2> QED BY <2>1, <2>2, <2>3 DEF DeadlinePasses
<1>4. TypeOK' /\ JobOp'
  BY <1>1, <1>2, <1>3 DEF TypeOK, JobOp
<1>5. Pending' \subseteq Pending
  BY <1>1, <1>3 DEF Pending
<1>6. Calls' /\ Owners' /\ Requests'
  BY <1>1, <1>2, <1>5, DaemonFrame DEF TypeOK
<1>7. \A q \in Pool : Guarded(q) => Guarded(q)'
  BY <1>1, <1>2 DEF Guarded, Registered
<1>8. \A q \in Pool : Promised(q)' => Promised(q)
  BY <1>1 DEF Promised
<1>9. Armed' /\ Loads' /\ Promises'
  BY <1>1, <1>2, <1>7, <1>8, GuardsKept DEF Armed
<1> QED BY <1>4, <1>6, <1>9

\* A recorded answer is given again: who gets it had it coming.
LEMMA ServeReplayKeeps == ASSUME GuardInv, ServeReplay PROVE GuardInv'
<1>1. /\ UNCHANGED <<hostVars, pc, own, nextCall, nextEpoch, up, job, replay, guardVars, mux>>
      /\ inbox # <<>> /\ inbox' = Tail(inbox) /\ dpc = "serve" /\ dpc' = "loop"
      /\ inbox \in Seq(Request)
  BY DEF ServeReplay, TypeOK
<1>2. PICK r \in Request : r = Head(inbox) /\ r \in Pending
  BY <1>1, PendingServed
<1>3. r.id \in Call /\ replay[r.id] \in Answers /\ Respond(r, replay[r.id])
  <2>1. r.id \in Call
    BY RequestFields
  <2>2. replay[r.id] # "none" /\ Respond(r, replay[r.id])
    BY <1>2 DEF ServeReplay
  <2> QED BY <2>1, <2>2 DEF TypeOK
<1>4. PICK a \in Answers : a = replay[r.id]
  BY <1>3
<1>5. /\ call' \in [Pool -> CallState] /\ \A p \in Pool : call'[p].id = call[p].id
      /\ \A p \in Pool : call'[p].answer = "ok" =>
            call[p].answer = "ok" \/ (a = "ok" /\ call[p].id = r.id)
  BY <1>3, <1>4, RespondFacts
<1>6. TypeOK' /\ JobOp'
  <2>1. inbox' \in Seq(Request)
    BY <1>1
  <2> QED BY <1>1, <1>5, <2>1 DEF TypeOK, JobOp
<1>7. Pending' \subseteq Pending
  <2>1. {inbox'[i] : i \in 1..Len(inbox')} \subseteq Pending
    BY <1>1, PendingServed
  <2> QED BY <1>1, <2>1 DEF Pending
<1>8. Calls' /\ Owners' /\ Requests'
  BY <1>1, <1>5, <1>7, DaemonFrame
<1>9. \A p \in Pool : Promised(p)' => Promised(p)
  BY <1>1, <1>4, <1>5 DEF Promised
<1>10. \A p \in Pool : Guarded(p) => Guarded(p)'
  BY <1>1 DEF Guarded, Registered
<1>11. Armed' /\ Loads' /\ Promises'
  BY <1>1, <1>9, <1>10, GuardsKept DEF Armed
<1> QED BY <1>6, <1>8, <1>11

LEMMA ServeCollectKeeps == ASSUME GuardInv, ServeCollect PROVE GuardInv'
<1>1. /\ UNCHANGED <<hostVars, pluginVars, up, replay, guardVars, mux>>
      /\ inbox # <<>> /\ inbox' = Tail(inbox) /\ dpc = "serve"
      /\ inbox \in Seq(Request)
  BY DEF ServeCollect, TypeOK
<1>2. PICK r \in Request : r = Head(inbox) /\ r \in Pending
  BY <1>1, PendingServed
<1>3. PICK b \in BOOLEAN : job' = [req |-> r, proof |-> b, late |-> FALSE]
  BY <1>2 DEF ServeCollect
<1>4. dpc' = r.op /\ job'.req = r /\ job' \in JobState /\ r.op \in {"PREPARE", "RELEASE"}
  BY <1>2, <1>3, JobType, RequestFields DEF ServeCollect
<1>5. TypeOK' /\ JobOp'
  <2>1. inbox' \in Seq(Request)
    BY <1>1
  <2> QED BY <1>1, <1>4, <2>1 DEF TypeOK, JobOp
<1>6. Pending' \subseteq Pending
  <2>1. {inbox'[i] : i \in 1..Len(inbox')} \subseteq Pending
    BY <1>1, PendingServed
  <2> QED BY <1>2, <1>4, <2>1 DEF Pending
<1>7. Calls' /\ Owners' /\ Requests'
  BY <1>1, <1>6, DaemonFrame DEF TypeOK
<1>8. \A p \in Pool : Promised(p)' => Promised(p)
  BY <1>1 DEF Promised
<1>9. \A p \in Pool : Guarded(p) => Guarded(p)'
  BY <1>1 DEF Guarded, Registered
<1>10. Armed' /\ Loads' /\ Promises'
  BY <1>1, <1>8, <1>9, GuardsKept DEF Armed
<1> QED BY <1>5, <1>7, <1>10

\* The request the daemon works on is pending, and its answer ends it.  A
\* positive answer promises only what its own call asked for.
LEMMA AnswerFacts ==
    ASSUME GuardInv, NEW a \in Answers, Answer(a), NEW r \in Request, r = job.req,
           dpc \in {"PREPARE", "RELEASE"}
    PROVE  /\ UNCHANGED <<hostVars, pc, own, nextCall, nextEpoch, inbox, up>>
           /\ job' = NoJob /\ dpc' = "loop" /\ r \in Pending /\ r.op = dpc
           /\ call' \in [Pool -> CallState] /\ \A p \in Pool : call'[p].id = call[p].id
           /\ replay' \in [Call -> Answers \cup {"none"}]
           /\ Pending' \subseteq Pending
           /\ \A i \in Call : replay'[i] # "none" => replay[i] # "none" \/ i < nextCall
           /\ \A p \in Pool : Promised(p)' => Promised(p) \/
                 (a = "ok" /\ dpc = "PREPARE" /\ p = r.pool /\ own[p] = r.epoch)
<1>1. /\ UNCHANGED <<hostVars, pc, own, nextCall, nextEpoch, inbox, up>>
      /\ job' = NoJob /\ dpc' = "loop" /\ r.id \in Call
      /\ replay' = [replay EXCEPT ![r.id] = a] /\ Respond(r, a)
  BY RequestFields DEF Answer
<1>2. r \in Pending /\ r.op = dpc
  BY DEF Pending, JobOp
<1>3. /\ call' \in [Pool -> CallState] /\ \A p \in Pool : call'[p].id = call[p].id
      /\ \A p \in Pool : call'[p].answer = "ok" =>
            call[p].answer = "ok" \/ (a = "ok" /\ call[p].id = r.id)
  BY <1>1, RespondFacts
<1>4. Pending' \subseteq Pending
  BY <1>1, PendingAnswered
<1>5. replay \in [Call -> Answers \cup {"none"}]
  BY DEF TypeOK
<1>6. replay' \in [Call -> Answers \cup {"none"}]
  BY <1>1, <1>5
<1>7. r.id < nextCall
  BY <1>2 DEF Requests
<1>8. \A i \in Call : replay'[i] # "none" => replay[i] # "none" \/ i < nextCall
  BY <1>1, <1>5, <1>7
<1>9. ASSUME NEW p \in Pool, Promised(p)', ~Promised(p)
      PROVE  a = "ok" /\ dpc = "PREPARE" /\ p = r.pool /\ own[p] = r.epoch
  <2>1. pc[p] = "waitPrepare" /\ call[p].answer # "ok" /\ replay[call[p].id] # "ok"
    BY <1>1, <1>9 DEF Promised
  <2>2. call'[p].answer = "ok" \/ replay'[call[p].id] = "ok"
    BY <1>1, <1>3, <1>9, <2>1 DEF Promised
  <2>3. call[p].id \in Call
    <3>1. call[p].id \in 1..(nextCall - 1) /\ nextCall \in 1..(MaxCall + 1)
      BY <2>1 DEF Calls, Waiting, TypeOK
    <3> QED BY <3>1, NumberFacts
  <2>4. a = "ok" /\ call[p].id = r.id
    BY <1>1, <1>3, <1>5, <2>1, <2>2, <2>3
  <2>5. p = r.pool /\ pc[p] = WaitStep(r.op) /\ own[p] = r.epoch
    BY <1>2, <2>4 DEF Requests
  <2> QED BY <1>2, <2>1, <2>4, <2>5 DEF WaitStep
<1> QED BY <1>1, <1>2, <1>3, <1>4, <1>6, <1>8, <1>9

\* An answer that changes nothing the daemon knows.
LEMMA RefusedKeeps == ASSUME GuardInv, PrepareRefused \/ ReleaseRefused PROVE GuardInv'
<1>1. /\ dpc \in {"PREPARE", "RELEASE"} /\ Answer("refused") /\ UNCHANGED <<guardVars, mux>>
      /\ "refused" \in Answers
  BY DEF PrepareRefused, ReleaseRefused, Answers
<1>2. PICK r \in Request : r = job.req
  BY <1>1 DEF JobOp
<1>3. /\ UNCHANGED <<hostVars, pc, own, nextCall, nextEpoch, inbox, up>>
      /\ job' = NoJob /\ dpc' = "loop"
      /\ call' \in [Pool -> CallState] /\ \A p \in Pool : call'[p].id = call[p].id
      /\ replay' \in [Call -> Answers \cup {"none"}]
      /\ Pending' \subseteq Pending
      /\ \A i \in Call : replay'[i] # "none" => replay[i] # "none" \/ i < nextCall
      /\ \A p \in Pool : Promised(p)' => Promised(p)
  BY <1>1, <1>2, AnswerFacts
<1>4. TypeOK' /\ JobOp'
  BY <1>1, <1>3, JobType DEF TypeOK, JobOp
<1>5. Calls' /\ Owners' /\ Requests'
  BY <1>1, <1>3, DaemonFrame
<1>6. \A p \in Pool : Guarded(p) => Guarded(p)'
  BY <1>1, <1>3 DEF Guarded, Registered
<1>7. Armed' /\ Loads' /\ Promises'
  BY <1>1, <1>3, <1>6, GuardsKept DEF Armed
<1> QED BY <1>4, <1>5, <1>7

\* Registering an admitted epoch changes no registered one.
LEMMA RegisterFacts ==
    ASSUME GuardInv, NEW r \in Request, r = job.req, Admitted, Register
    PROVE  /\ epochs' \in [Pool -> EpochState] /\ gstate' = "ARMED_PENDING"
           /\ epochs'[r.pool].epoch = r.epoch /\ r.pool \in Registered'
           /\ \A p \in Registered : p \in Registered' /\ epochs'[p].epoch = epochs[p].epoch
<1>1. r.pool \in Pool /\ r.epoch \in 0..MaxEpoch /\ epochs \in [Pool -> EpochState]
  BY RequestFields DEF TypeOK
<1>2. PICK b \in BOOLEAN : b = job.late
  BY DEF TypeOK, JobState
<1> DEFINE x == [phase |-> "PENDING_ATTACH", epoch |-> r.epoch, late |-> b]
<1>3. x \in EpochState /\ x.epoch = r.epoch /\ x.phase # "none"
  BY <1>1, <1>2, EpochType
<1>4. epochs' = [epochs EXCEPT ![r.pool] = x] /\ gstate' = "ARMED_PENDING"
  BY <1>2 DEF Register
<1> HIDE DEF x
<1>5. epochs' \in [Pool -> EpochState] /\ epochs'[r.pool] = x
  BY <1>1, <1>3, <1>4
<1>6. \A p \in Pool \ {r.pool} : epochs'[p] = epochs[p]
  BY <1>1, <1>4
<1>7. r.pool \in Registered'
  BY <1>1, <1>3, <1>5 DEF Registered
<1>8. r.pool \in Registered => epochs[r.pool].epoch = r.epoch
  BY DEF Admitted
<1> QED BY <1>3, <1>4, <1>5, <1>6, <1>7, <1>8 DEF Registered

LEMMA PrepareArmedKeeps == ASSUME GuardInv, PrepareArmed PROVE GuardInv'
<1>1. /\ dpc = "PREPARE" /\ up /\ Answer("ok") /\ Admitted /\ Register /\ "ok" \in Answers
      /\ wd # "FENCING" /\ wd' = (IF wd = "DISARMED" THEN "ARMED" ELSE wd)
      /\ bound' = bound \cup {job.req.pool}
      /\ unarmed' = IF wd = "SPENT" THEN unarmed \cup {job.req.pool} ELSE unarmed
      /\ mux' = IF wd = "DISARMED" /\ mux # "dropped" THEN "fresh" ELSE mux
  BY DEF PrepareArmed, Answers
<1>2. PICK r \in Request : r = job.req
  BY <1>1 DEF JobOp
<1>3. /\ UNCHANGED <<hostVars, pc, own, nextCall, nextEpoch, inbox, up>>
      /\ job' = NoJob /\ dpc' = "loop"
      /\ call' \in [Pool -> CallState] /\ \A p \in Pool : call'[p].id = call[p].id
      /\ replay' \in [Call -> Answers \cup {"none"}]
      /\ Pending' \subseteq Pending
      /\ \A i \in Call : replay'[i] # "none" => replay[i] # "none" \/ i < nextCall
      /\ \A p \in Pool : Promised(p)' => Promised(p) \/ (p = r.pool /\ own[p] = r.epoch)
  BY <1>1, <1>2, AnswerFacts
<1>4. /\ epochs' \in [Pool -> EpochState] /\ gstate' = "ARMED_PENDING"
      /\ epochs'[r.pool].epoch = r.epoch /\ r.pool \in Registered'
      /\ \A p \in Registered : p \in Registered' /\ epochs'[p].epoch = epochs[p].epoch
  BY <1>1, <1>2, RegisterFacts
<1>5. /\ wd' \in {"ARMED", "SPENT"} /\ (wd' = "ARMED" => mux' # "none" /\ unarmed' = unarmed)
      /\ mux # "none" => mux' # "none"
      /\ mux = "dropped" => mux' = "dropped"
      /\ mux' \in {"none", "fresh", "stale", "dropped"}
      /\ unarmed \subseteq unarmed' /\ (wd' = "SPENT" => r.pool \in unarmed')
  BY <1>1, <1>2 DEF Armed, TypeOK
<1>6. TypeOK' /\ JobOp'
  <2>1. bound' \subseteq Pool /\ unarmed' \subseteq Pool
    BY <1>1, <1>2, RequestFields DEF TypeOK
  <2> QED BY <1>1, <1>3, <1>4, <1>5, <2>1, JobType DEF TypeOK, JobOp
<1>7. \A p \in Pool : Guarded(p) =>
         Guarded(p)' /\ (mux' = "dropped" \/ epochs'[p].epoch = epochs[p].epoch)
  BY <1>1, <1>3, <1>4, <1>5 DEF Guarded
<1>8. Calls' /\ Owners' /\ Requests'
  BY <1>3, <1>5, <1>7, DaemonFrame DEF Loads, TypeOK
<1>9. r.pool \notin unarmed' => Guarded(r.pool)'
  BY <1>1, <1>3, <1>4, <1>5 DEF Guarded
<1>10. Armed' /\ Loads'
  BY <1>3, <1>5, <1>7 DEF Armed, Loads, TypeOK
<1>11. Promises'
  <2>1. ASSUME NEW p \in Pool \ unarmed', Promised(p)', tag[p] = own[p]
        PROVE  Guarded(p)' /\ (mux' = "dropped" \/ epochs'[p].epoch = own[p])
    <3>1. CASE Promised(p)
      BY <1>5, <1>7, <2>1, <3>1 DEF Promises, GuardedAs
    <3>2. CASE p = r.pool /\ own[p] = r.epoch
      BY <1>4, <1>9, <3>2
    <3> QED BY <1>3, <2>1, <3>1, <3>2
  <2> QED BY <1>3, <2>1 DEF Promises, GuardedAs
<1> QED BY <1>6, <1>8, <1>10, <1>11

LEMMA PrepareUnarmedKeeps == ASSUME GuardInv, PrepareUnarmed PROVE GuardInv'
<1>1. /\ dpc = "PREPARE" /\ up /\ Answer("refused") /\ Admitted /\ Register
      /\ "refused" \in Answers
      /\ wd' = "FENCING" /\ mux' \in {mux, "dropped"} /\ UNCHANGED <<bound, unarmed>>
  BY DEF PrepareUnarmed, Answers
<1>2. PICK r \in Request : r = job.req
  BY <1>1 DEF JobOp
<1>3. /\ UNCHANGED <<hostVars, pc, own, nextCall, nextEpoch, inbox, up>>
      /\ job' = NoJob /\ dpc' = "loop"
      /\ call' \in [Pool -> CallState] /\ \A p \in Pool : call'[p].id = call[p].id
      /\ replay' \in [Call -> Answers \cup {"none"}]
      /\ Pending' \subseteq Pending
      /\ \A i \in Call : replay'[i] # "none" => replay[i] # "none" \/ i < nextCall
      /\ \A p \in Pool : Promised(p)' => Promised(p)
  BY <1>1, <1>2, AnswerFacts
<1>4. /\ epochs' \in [Pool -> EpochState] /\ gstate' = "ARMED_PENDING"
      /\ \A p \in Registered : p \in Registered' /\ epochs'[p].epoch = epochs[p].epoch
  BY <1>1, <1>2, RegisterFacts
<1>5. TypeOK' /\ JobOp'
  BY <1>1, <1>3, <1>4, JobType DEF TypeOK, JobOp
<1>6. \A p \in Pool : Guarded(p) =>
         Guarded(p)' /\ (mux' = "dropped" \/ epochs'[p].epoch = epochs[p].epoch)
  BY <1>1, <1>3, <1>4 DEF Guarded
<1>7. Calls' /\ Owners' /\ Requests'
  BY <1>1, <1>3, <1>6, DaemonFrame DEF Loads, TypeOK
<1>8. Armed' /\ Loads' /\ Promises'
  BY <1>1, <1>3, <1>6, GuardsKept DEF Armed
<1> QED BY <1>5, <1>7, <1>8

\* A release that is accepted takes no registration a loaded pool or a waiting
\* lvchange needs: their epochs are newer than any that can still be released.
LEMMA UnregisterFacts ==
    ASSUME GuardInv, NEW r \in Request, r = job.req, r \in Pending, r.op = "RELEASE",
           Releasable, Unregister
    PROVE  /\ epochs' \in [Pool -> EpochState]
           /\ \A p \in Pool \ {r.pool} : epochs'[p] = epochs[p]
           /\ r.pool \in Registered
           /\ r.pool \in loaded \ unarmed => mux = "dropped"
           /\ Promised(r.pool) /\ tag[r.pool] = own[r.pool] => mux = "dropped" \/ r.pool \in unarmed
<1>1. r.pool \in Pool /\ epochs \in [Pool -> EpochState]
  BY RequestFields DEF TypeOK
<1>2. epochs' = [epochs EXCEPT ![r.pool] = NoEpoch] /\ NoEpoch \in EpochState
  BY EpochType DEF Unregister
<1>3. epochs[r.pool].epoch = r.epoch /\ r.pool \in Registered
  BY DEF Releasable
<1>4. /\ tag[r.pool] # r.epoch
      /\ r.pool \in loaded \ unarmed => mux = "dropped" \/ epochs[r.pool].epoch # r.epoch
  BY DEF Requests
<1>5. Promised(r.pool) /\ tag[r.pool] = own[r.pool] => mux = "dropped" \/ r.pool \in unarmed
  BY <1>1, <1>3, <1>4 DEF Promises, GuardedAs
<1> QED BY <1>1, <1>2, <1>3, <1>4, <1>5

LEMMA ReleasedKeeps ==
    ASSUME GuardInv, ReleaseShared \/ ReleaseLast \/ ReleaseSpent \/ ReleaseStuck
    PROVE  GuardInv'
<1>1. PICK a \in Answers : Answer(a)
  BY DEF ReleaseShared, ReleaseLast, ReleaseSpent, ReleaseStuck, Answers
<1>2. /\ dpc = "RELEASE" /\ up /\ Releasable /\ Unregister /\ unarmed' = unarmed
      /\ gstate' \in {"PROTECTED", "IDLE"}
      /\ bound' = bound \/ bound' = bound \ {job.req.pool}
      /\ \/ wd' = wd /\ mux' = mux
         \/ /\ Registered = {job.req.pool}
            /\ wd' \in {"DISARMED", "SPENT"}
            /\ mux' = IF mux = "dropped" THEN "dropped" ELSE "none"
  BY DEF ReleaseShared, ReleaseLast, ReleaseSpent, ReleaseStuck
<1>3. PICK r \in Request : r = job.req
  BY <1>2 DEF JobOp
<1>4. /\ UNCHANGED <<hostVars, pc, own, nextCall, nextEpoch, inbox, up>>
      /\ job' = NoJob /\ dpc' = "loop" /\ r \in Pending /\ r.op = "RELEASE"
      /\ call' \in [Pool -> CallState] /\ \A p \in Pool : call'[p].id = call[p].id
      /\ replay' \in [Call -> Answers \cup {"none"}]
      /\ Pending' \subseteq Pending
      /\ \A i \in Call : replay'[i] # "none" => replay[i] # "none" \/ i < nextCall
      /\ \A p \in Pool : Promised(p)' => Promised(p)
  BY <1>1, <1>2, <1>3, AnswerFacts
<1>5. /\ epochs' \in [Pool -> EpochState]
      /\ \A p \in Pool \ {r.pool} : epochs'[p] = epochs[p]
      /\ r.pool \in Registered
      /\ r.pool \in loaded \ unarmed => mux = "dropped"
      /\ Promised(r.pool) /\ tag[r.pool] = own[r.pool] => mux = "dropped" \/ r.pool \in unarmed
  BY <1>2, <1>3, <1>4, UnregisterFacts
<1>6. (mux = "dropped" => mux' = "dropped") /\ mux' \in {mux, "none", "dropped"}
  BY <1>2
<1>7. TypeOK' /\ JobOp'
  <2>1. bound' \subseteq Pool /\ wd' \in {"DISARMED", "ARMED", "SPENT", "FENCING"}
        /\ mux' \in {"none", "fresh", "stale", "dropped"}
    BY <1>2, <1>6 DEF TypeOK
  <2> QED BY <1>2, <1>4, <1>5, <2>1, JobType DEF TypeOK, JobOp
<1>8. ASSUME NEW p \in Pool \ unarmed, Guarded(p),
             p \in loaded \/ (Promised(p) /\ tag[p] = own[p])
      PROVE  Guarded(p)' /\ (mux' = "dropped" \/ epochs'[p].epoch = epochs[p].epoch)
  <2>1. CASE mux = "dropped"
    BY <1>6, <2>1 DEF Guarded
  <2>2. CASE mux # "dropped"
    <3>1. p # r.pool /\ p \in Registered /\ wd # "DISARMED" /\ mux # "none"
      BY <1>5, <1>8, <2>2 DEF Guarded
    <3>2. wd' = wd /\ mux' = mux /\ epochs'[p] = epochs[p]
      BY <1>2, <1>3, <1>5, <3>1
    <3>3. p \in Registered'
      BY <3>1, <3>2 DEF Registered
    <3> QED BY <1>2, <1>4, <3>1, <3>2, <3>3 DEF Guarded
  <2> QED BY <2>1, <2>2
<1>9. Calls' /\ Owners' /\ Requests'
  BY <1>2, <1>4, <1>6, <1>8, DaemonFrame DEF Loads, TypeOK
<1>10. Armed'
  BY <1>2 DEF Armed
<1>11. Loads' /\ Promises'
  BY <1>2, <1>4, <1>6, <1>8, GuardsKept
<1> QED BY <1>7, <1>9, <1>10, <1>11

-----------------------------------------------------------------------------
(* The theorems                                                            *)

LEMMA GuardInit == Init => GuardInv
<1> SUFFICES ASSUME Init PROVE GuardInv
  OBVIOUS
<1> USE DEF Init
<1>1. TypeOK
  <2>1. inbox \in Seq(Request) /\ replay \in [Call -> Answers \cup {"none"}]
    OBVIOUS
  <2>2. job \in JobState /\ epochs \in [Pool -> EpochState]
    BY EpochType, JobType
  <2>3. /\ pc \in [Pool -> PluginSteps] /\ own \in [Pool -> 0..MaxEpoch]
        /\ call \in [Pool -> CallState] /\ tag \in [Pool -> 0..Foreign]
    BY CallType, NumberFacts DEF PluginSteps
  <2>4. nextEpoch \in 1..(MaxEpoch + 1) /\ nextCall \in 1..(MaxCall + 1)
    BY NumberFacts
  <2> QED BY <2>1, <2>2, <2>3, <2>4 DEF TypeOK
<1>2. JobOp /\ Calls /\ Owners
  BY DEF JobOp, Calls, Owners, Waiting, NoCall
<1>3. Requests
  <2>1. Pending = {}
    BY DEF Pending
  <2> QED BY <2>1 DEF Requests
<1>4. Armed /\ Loads /\ Promises
  BY DEF Armed, Loads, Promises, Promised
<1> QED BY <1>1, <1>2, <1>3, <1>4

LEMMA GuardStep == GuardInv /\ [Next]_vars => GuardInv'
<1> SUFFICES ASSUME GuardInv, [Next]_vars PROVE GuardInv'
  OBVIOUS
<1>1. ASSUME NEW p \in Pool, PluginStep(p) PROVE GuardInv'
  BY <1>1, ClaimKeeps, SendPrepareKeeps, PrepareAckedKeeps, PrepareFailedKeeps, LvChangeKeeps,
     DeactivateKeeps, UnloadPoolKeeps, ReleaseOwnerKeeps, SendReleaseKeeps, EndKeeps, RetryKeeps
     DEF PluginStep
<1>2. CASE Start \/ LoopIdle \/ ServeNobody
  BY <1>2, LoopKeeps
<1>3. CASE Stop \/ ObserveDies
  BY <1>3, ExitKeeps DEF Stop, ObserveDies
<1>4. CASE DaemonStep
  BY <1>2, <1>3, <1>4, ObserveRefreshKeeps, ObserveFenceKeeps, ServeReplayKeeps,
     ServeCollectKeeps, RefusedKeeps, PrepareArmedKeeps, PrepareUnarmedKeeps, ReleasedKeeps
     DEF DaemonStep
<1>5. ASSUME NEW p \in Pool,
             StartQemu(p) \/ StopQemu(p) \/ ForeignOwner(p) \/ DeadlinePasses(p)
      PROVE  GuardInv'
  <2>1. CASE StartQemu(p) \/ StopQemu(p)
    BY <2>1, SurroundingsKeep DEF StartQemu, StopQemu, TypeOK
  <2> QED BY <1>5, <2>1, ForeignOwnerKeeps, DeadlinePassesKeeps
<1>6. CASE MuxAge \/ HostReset
  BY <1>6, MuxAgeKeeps, HostResetKeeps
<1>7. CASE ChangeQuorum
  BY <1>7, SurroundingsKeep DEF ChangeQuorum, TypeOK
<1>8. CASE UNCHANGED vars
  BY <1>8, SurroundingsKeep DEF vars, TypeOK
<1> QED BY <1>1, <1>2, <1>3, <1>4, <1>5, <1>6, <1>7, <1>8 DEF Next, Environment

\* Every reachable state satisfies the inductive invariant.
THEOREM GuardInvariant == Spec => []GuardInv
BY GuardInit, GuardStep, PTL DEF Spec

\* Every variable keeps its type; in particular a daemon collecting evidence
\* always has the request it collects it for.
THEOREM GuardTypes == Spec => []TypeOK
BY GuardInvariant, PTL

\* No pool is ever loaded without a watchdog client (PREPARE before lvchange -ay,
\* RELEASE after teardown), but for pools a spent adapter acknowledged: for any number of pools, retries, late requests and
\* daemon crashes, and whether or not the VG lock orders the operations.
THEOREM GuardLoaded == Spec => []LoadedIsGuarded
<1>1. GuardInv => LoadedIsGuarded
  BY DEF LoadedIsGuarded, Loads, Guarded, TypeOK
<1> QED BY <1>1, GuardInvariant, PTL

\* Each loaded pool is registered with the running daemon, whose adapter is not
\* disarmed, unless the host is condemned already: releasing one pool never takes
\* the protection of another.
THEOREM GuardEachPool == Spec => []EachPoolRegistered
<1>1. GuardInv => EachPoolRegistered
  BY DEF EachPoolRegistered, Loads, Guarded, TypeOK
<1> QED BY <1>1, GuardInvariant, PTL

\* The magic close V, and a refresh, never follow the uncertainty latch (the
\* FENCING state of GuardState): ObserveRefresh, PrepareArmed and ReleaseLast are
\* behind it, so is ReleaseSpent, a daemon that ends drops its client, and every other step leaves the
\* client alone or lets it age.
THEOREM GuardFinal == Spec => FencingIsFinal
<1> DEFINE A == gstate = "FENCING" /\ ~HostReset => mux' = mux \/ mux' \in {"stale", "dropped"}
<1>1. [Next]_vars => [A]_vars
  <2> SUFFICES ASSUME Next, gstate = "FENCING", ~HostReset
               PROVE  mux' = mux \/ mux' \in {"stale", "dropped"}
    OBVIOUS
  <2>1. ASSUME NEW p \in Pool, PluginStep(p) PROVE mux' = mux
    BY <2>1 DEF PluginStep, Claim, SendPrepare, PrepareAcked, PrepareFailed, LvChange, Deactivate,
       UnloadPool, ReleaseOwner, SendRelease, ReleaseEnds, Retry, PluginDies, GuardCall
  <2>2. CASE Start \/ Stop
    BY <2>2 DEF Start, Stop, Exit
  <2>3. CASE DaemonStep
    BY <2>3 DEF DaemonStep, LoopIdle, ObserveRefresh, SampleSafe, ObserveFence, ObserveDies, Exit,
       ServeNobody, ServeReplay, ServeCollect, PrepareRefused, PrepareArmed, PrepareUnarmed,
       Admitted, ReleaseRefused, ReleaseShared, ReleaseLast, ReleaseSpent, ReleaseStuck, Releasable
  <2>4. CASE Environment
    BY <2>4 DEF Environment, StartQemu, StopQemu, ForeignOwner, DeadlinePasses, ChangeQuorum, MuxAge
  <2> QED BY <2>1, <2>2, <2>3, <2>4 DEF Next
<1> QED BY <1>1, PTL DEF Spec, FencingIsFinal

=============================================================================
