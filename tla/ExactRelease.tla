----------------------------- MODULE ExactRelease -----------------------------
(***************************************************************************)
(* What ExactFDReleaseBinding (prelive_exact_resource_release) promises of *)
(* a pidfd that is closed behind an anchor of the same open file: one      *)
(* attempt, in which a comparison before the deadline comes before the     *)
(* close, ownership is given up before the close is asked for, and what    *)
(* the backend disturbed by calling back is never reported as confirmed.   *)
(*                                                                         *)
(* The close and the clock read after it are one step: a call back from    *)
(* either has the same result.                                             *)
(***************************************************************************)
VARIABLES
    state,           \* of the binding
    running,         \* release_primary_once has not returned yet
    poisoned,        \* reentrant_poisoned
    primary_owned,   \* the descriptor has not been given up
    late             \* the deadline has passed

vars == <<state, running, poisoned, primary_owned, late>>

Init ==
    /\ state = "UNBOUND" /\ running = FALSE /\ poisoned = FALSE
    /\ primary_owned = TRUE /\ late = FALSE

record_exact_pidfd_binding ==
    /\ state = "UNBOUND"
    /\ state' = "BOUND_UNQUALIFIED"
    /\ UNCHANGED <<running, poisoned, primary_owned, late>>

\* The binding is in the state this point of the call expects, undisturbed.
_preflight(expected) == state = expected /\ ~poisoned

release_primary_once ==
    /\ _preflight("BOUND_UNQUALIFIED") /\ primary_owned /\ ~running
    /\ state' = "VERIFYING_RESOURCE_BINDING" /\ running' = TRUE
    /\ UNCHANGED <<poisoned, primary_owned, late>>

\* Owner, thread, clock and comparison agree, before the deadline.
SameDescription ==
    /\ running /\ _preflight("VERIFYING_RESOURCE_BINDING") /\ ~late
    /\ state' = "CLOSING_PRIMARY" /\ primary_owned' = FALSE
    /\ UNCHANGED <<running, poisoned, late>>

\* Two different open files: nothing is closed.
DifferentDescription ==
    /\ running /\ _preflight("VERIFYING_RESOURCE_BINDING") /\ ~late
    /\ state' = "QUARANTINED_RESOURCE_IDENTITY" /\ running' = FALSE
    /\ UNCHANGED <<poisoned, primary_owned, late>>

\* Anything that is refused before the close: never tried again.
VerificationFails ==
    /\ primary_owned
    /\ running \/ state = "BOUND_UNQUALIFIED"
    /\ state' = "RESOURCE_RELEASE_UNKNOWN" /\ running' = FALSE
    /\ UNCHANGED <<poisoned, primary_owned, late>>

CloseRaises ==
    /\ running /\ ~primary_owned
    /\ state' = "PRIMARY_CLOSE_UNKNOWN" /\ running' = FALSE
    /\ UNCHANGED <<poisoned, primary_owned, late>>

\* The close is confirmed; what was disturbed since is said to be unknown.
CloseReturns ==
    /\ running /\ ~primary_owned
    /\ \/ /\ _preflight("CLOSING_PRIMARY")
          /\ state' = IF late THEN "PRIMARY_CLOSED_CONFIRMED_LATE"
                      ELSE "PRIMARY_CLOSED_ANCHOR_OWNED"
       \/ state' = "PRIMARY_CLOSED_AUTHORITY_UNKNOWN"
    /\ running' = FALSE
    /\ UNCHANGED <<poisoned, primary_owned, late>>

\* release_primary_once called again from a callback of the backend.
Reentered ==
    /\ running
    /\ state' = "RESOURCE_RELEASE_UNKNOWN" /\ poisoned' = TRUE
    /\ UNCHANGED <<running, primary_owned, late>>

Expires == ~late /\ late' = TRUE /\ UNCHANGED <<state, running, poisoned, primary_owned>>

Next ==
    \/ record_exact_pidfd_binding \/ release_primary_once
    \/ SameDescription \/ DifferentDescription \/ VerificationFails
    \/ CloseRaises \/ CloseReturns \/ Reentered \/ Expires

Spec == Init /\ [][Next]_vars
===============================================================================
