---------------------------- MODULE NoGrantAbort ----------------------------
(***************************************************************************)
(* What the no-grant launcher promises, after the model the repository     *)
(* keeps of it (prelive_no_grant_abort_model): one controller that takes   *)
(* one child from a verified INTENT to an exact reap, in a fixed order of  *)
(* calls, and that any failure turns into UNKNOWN for good.                *)
(*                                                                         *)
(* A call is two steps, into its busy state and out of it; the binding of  *)
(* the pidfd changes nothing outside the controller and is one.  "NEW"     *)
(* stands for the calls before the INTENT is verified: none of them        *)
(* touches a process.                                                      *)
(***************************************************************************)
EXTENDS Integers, Sequences

VARIABLES
    state,     \* of the controller
    forked,    \* _fork_attempt_epoch > 0
    up,        \* the controller's process exists
    proc,      \* the child: "none", "running", "exited" or "gone"
    code       \* its exit status, 0 before

vars == <<state, forked, up, proc, code>>

EXPECTED_EXIT == 73

\* run(): after INTENT_VERIFIED, each ready state with its busy state.
Ready ==
    <<"INTENT_VERIFIED", "CHILD_RECORDED", "PIDFD_BOUND", "READY_CAPTURED",
      "GRANT_WRITER_CLOSED", "ABORT_EXIT_OBSERVED", "REAPED_EXACT", "COMPLETE">>
Busy ==
    <<"FORKING_ABORT_CHILD", "BINDING_PIDFD", "OBSERVING_READY",
      "CLOSING_GRANT_WRITER", "OBSERVING_ABORT_EXIT", "REAPING_EXACT">>

Unknown == {"UNKNOWN", "UNKNOWN_SURVIVOR"}

Init ==
    /\ state = "NEW" /\ forked = FALSE /\ up = TRUE
    /\ proc = "none" /\ code = 0

VerifyIntent ==
    /\ up /\ state = "NEW"
    /\ state' = "INTENT_VERIFIED"
    /\ UNCHANGED <<forked, up, proc, code>>

\* The phase, and a child that may exist exactly when its fork was attempted.
_validate(phase) == state = phase /\ (proc # "none" => forked)

\* _call, up to the backend's method.  The fork epoch starts before its call.
_call(i) ==
    /\ up /\ i # 2 /\ _validate(Ready[i])
    /\ state' = Busy[i]
    /\ forked' = (forked \/ i = 1)
    /\ UNCHANGED <<up, proc, code>>

\* The method returned what run() requires of it.  The streams, ECHILD after
\* the reap and the count of other children are the backend's word in the
\* model, with nothing in its state behind them; what the launcher knows of
\* them is what VerifiedIsTrue is about.
Returns(i) ==
    /\ up /\ _validate(Busy[i])
    /\ state' = Ready[i + 1]
    /\ CASE i = 1 -> proc' = "running"
         [] i = 5 -> proc = "exited" /\ code = EXPECTED_EXIT /\ UNCHANGED proc
         [] i = 6 -> proc = "exited" /\ proc' = "gone"
         [] OTHER -> UNCHANGED proc
    /\ UNCHANGED <<forked, up, code>>

BindPidfd ==
    /\ up /\ state = "CHILD_RECORDED"
    /\ state' = "PIDFD_BOUND"
    /\ UNCHANGED <<forked, up, proc, code>>

\* _reap_proven: the child may not exist any more.
Complete ==
    /\ up /\ state = "REAPED_EXACT"
    /\ state' = "COMPLETE"
    /\ UNCHANGED <<forked, up, proc, code>>

\* A child that may have been forked is a survivor until its reap is proven.
\* After COMPLETE the model's controller says UNKNOWN; the launcher, which
\* never takes fork_attempted back, still says UNKNOWN_SURVIVOR.  That claims
\* less of the child, and is admitted here.
_poison ==
    /\ up /\ state \notin Unknown
    /\ \/ ~forked /\ state' = "UNKNOWN"
       \/ forked /\ state' = "UNKNOWN_SURVIVOR"
       \/ state = "COMPLETE" /\ state' = "UNKNOWN"
    /\ \/ UNCHANGED proc
       \/ state = "FORKING_ABORT_CHILD" /\ proc = "none" /\ proc' = "running"
       \/ state = "REAPING_EXACT" /\ proc = "exited" /\ proc' = "gone"
    /\ UNCHANGED <<forked, up, code>>

\* The child leaves by itself, with any status; without the controller nobody
\* keeps its zombie.
ChildExits ==
    /\ proc = "running"
    /\ proc' = IF up THEN "exited" ELSE "gone"
    /\ code' \in {9, 73, 74, 75}
    /\ UNCHANGED <<state, forked, up>>

\* The world around the controller, like ChildExits: the cleanup that follows
\* a failed run may still reap the survivor, and claims nothing for it.
SurvivorReaped ==
    /\ state = "UNKNOWN_SURVIVOR" /\ proc = "exited"
    /\ proc' = "gone"
    /\ UNCHANGED <<state, forked, up, code>>

ControllerDies ==
    /\ up /\ up' = FALSE
    /\ proc' = IF proc = "exited" THEN "gone" ELSE proc
    /\ UNCHANGED <<state, forked, code>>

Next ==
    \/ VerifyIntent \/ BindPidfd \/ Complete \/ _poison
    \/ \E i \in 1..6 : _call(i) \/ Returns(i)
    \/ ChildExits \/ SurvivorReaped \/ ControllerDies

Spec == Init /\ [][Next]_vars
=============================================================================
