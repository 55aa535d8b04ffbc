----------------------------- MODULE AbortChild -----------------------------
(***************************************************************************)
(* The forked side of the no-grant launcher: AbortChildRoutine over the    *)
(* Linux calls, in a process that inherited all eight endpoints.  It       *)
(* closes the launcher's four, writes the ready byte and the two canaries, *)
(* and waits for the grant pipe to end without a byte; every step it takes *)
(* is inside the unarmed deadline, and every other way out is exit 75.     *)
(*                                                                         *)
(* Beside it the environment: a process that reopened one of the child's   *)
(* write ends, the death of the launcher, a signal, and the clock.         *)
(***************************************************************************)
EXTENDS NoGrantGraph

VARIABLES
    child,    \* the forked process: program counter and wait status
    holder    \* the foreign process: "no", "holding", "wrote", "gone"

EXIT_ABORT_EOF == 73
EXIT_GRANT_DATA == 74
EXIT_CHILD_ERROR == 75
Signaled == 9

ExitCodes == {EXIT_ABORT_EOF, EXIT_GRANT_DATA, EXIT_CHILD_ERROR, Signaled}

\* "ready", "stdout" and "stderr" name the pipe the child writes next.
RunningPc == {"start", "closing", "ready", "stdout", "stderr", "wait_grant"}

Running == child.pc \in RunningPc
Zombie == child.pc = "zombie"

NoChild == [pc |-> "none", code |-> 0]

Forked == [pc |-> "start", code |-> 0]

\* _close_unlisted_fds leaves exactly the eight endpoints of the descriptor.
Inherited == fds["launcher"] \cap Roles

Exit(code) ==
    /\ child' = [pc |-> IF alive THEN "zombie" ELSE "gone", code |-> code]
    /\ fds' = [fds EXCEPT !["child"] = {}]

Goto(next) == child' = [child EXCEPT !.pc = next]

\* _clock inside the child: every step starts before the deadline.
ChildClock == Running /\ InTime

\* INIT: the child is still the launcher's, and the graph is the descriptor's.
current_child_identity ==
    /\ child.pc = "start" /\ ChildClock
    /\ Working
    /\ IF alive THEN Goto("closing") /\ UNCHANGED fds ELSE Exit(EXIT_CHILD_ERROR)
    /\ UNCHANGED <<clock, alive, pipe, graph, enrol, record, holder>>

\* CHILD_CLOSE_ROLES, each closed once after its identity was read again.
ChildClosesParentEnds ==
    /\ child.pc = "closing" /\ ChildClock
    /\ Working
    /\ fds' = [fds EXCEPT !["child"] = @ \ ParentEnds]
    /\ Goto("ready")
    /\ UNCHANGED <<clock, alive, pipe, graph, enrol, record, holder>>

\* poll() adds POLLERR when nobody reads, and the write is refused.
_write_exact(p, at, token, next) ==
    /\ child.pc = at /\ ChildClock
    /\ Working
    /\ IF HasReader(p)
       THEN pipe' = [pipe EXCEPT ![p] = Append(@, token)] /\ Goto(next) /\ UNCHANGED fds
       ELSE Exit(EXIT_CHILD_ERROR) /\ UNCHANGED pipe
    /\ UNCHANGED <<clock, alive, graph, enrol, record, holder>>

ChildWrites ==
    \/ _write_exact("status", "ready", "R", "stdout")
    \/ _write_exact("stdout", "stdout", "C", "stderr")
    \/ _write_exact("stderr", "stderr", "C", "wait_grant")

\* read_grant returns at once on data or hang-up, and never otherwise.
read_grant ==
    /\ child.pc = "wait_grant" /\ ChildClock
    /\ Working
    /\ \/ pipe["grant"] # <<>> /\ Exit(EXIT_GRANT_DATA)
       \/ Eof("grant") /\ Exit(EXIT_ABORT_EOF)
    /\ UNCHANGED <<clock, alive, pipe, graph, enrol, record, holder>>

\* Mutant: only the last wait is bounded.
ChildDeadlineAtWait ==
    /\ child.pc = "wait_grant" /\ ~InTime
    /\ Working
    /\ Exit(EXIT_CHILD_ERROR)
    /\ UNCHANGED <<clock, alive, pipe, graph, enrol, record, holder>>

\* The deadline passed at any step, or a poll that waited for it returned.
ChildDeadline ==
    /\ Running /\ ~InTime
    /\ Working
    /\ Exit(EXIT_CHILD_ERROR)
    /\ UNCHANGED <<clock, alive, pipe, graph, enrol, record, holder>>

\* An exception anywhere in the routine.
_exit_once ==
    /\ Running
    /\ Failing
    /\ Exit(EXIT_CHILD_ERROR)
    /\ UNCHANGED <<clock, alive, pipe, graph, enrol, record, holder>>

\* A signal from outside.
Killed ==
    /\ Running
    /\ Failing
    /\ Exit(Signaled)
    /\ UNCHANGED <<clock, alive, pipe, graph, enrol, record, holder>>

-----------------------------------------------------------------------------
(***************************************************************************)
(* The environment.                                                        *)
(***************************************************************************)
\* /proc/<child>/fd opened by somebody else: a second writer of one stream.
HolderOpens ==
    /\ holder = "no" /\ Running
    /\ Failing
    /\ \E role \in fds["child"] \cap (ChildEnds \ {"grant_child"}) :
            fds' = [fds EXCEPT !["holder"] = {role}]
    /\ holder' = "holding"
    /\ UNCHANGED <<clock, alive, pipe, graph, enrol, record, child>>

HolderWrites ==
    /\ holder = "holding"
    /\ Working
    /\ \E p \in Pipes :
            /\ Writer(p) \in fds["holder"] /\ HasReader(p)
            /\ pipe' = [pipe EXCEPT ![p] = Append(@, "x")]
    /\ holder' = "wrote"
    /\ UNCHANGED <<clock, alive, fds, graph, enrol, record, child>>

HolderCloses ==
    /\ holder \in {"holding", "wrote"}
    /\ Working
    /\ fds' = [fds EXCEPT !["holder"] = {}]
    /\ holder' = "gone"
    /\ UNCHANGED <<clock, alive, pipe, graph, enrol, record, child>>

\* The launcher dies: its descriptors close and init inherits the child.
LauncherDies ==
    /\ alive
    /\ Failing
    /\ alive' = FALSE
    /\ fds' = [fds EXCEPT !["launcher"] = {}]
    /\ child' = IF Zombie THEN [child EXCEPT !.pc = "gone"] ELSE child
    /\ UNCHANGED <<clock, pipe, graph, enrol, record, holder>>

Tick ==
    /\ clock < HardLimit
    /\ clock' = clock + 1
    /\ UNCHANGED <<faults, alive, fds, pipe, graph, enrol, record, child, holder>>

ChildInit ==
    /\ child = NoChild
    /\ holder = "no"

ChildSteps ==
    \/ current_child_identity \/ ChildClosesParentEnds \/ ChildWrites
    \/ read_grant \/ ChildDeadline

ChildNext ==
    \/ ChildSteps \/ _exit_once \/ Killed
    \/ HolderOpens \/ HolderWrites \/ HolderCloses
    \/ LauncherDies \/ Tick

ChildTypeOK ==
    /\ child \in [pc : RunningPc \cup {"none", "zombie", "gone"},
                  code : ExitCodes \cup {0}]
    /\ holder \in {"no", "holding", "wrote", "gone"}
=============================================================================
