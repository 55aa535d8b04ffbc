------------------------------ MODULE ThickVolume ------------------------------
(***************************************************************************)
(* What a Thick Generations volume promises its guest and its operator: a  *)
(* disk that reads back what was written, snapshots that never change, and *)
(* a rollback that restores exactly the content of the snapshot.           *)
(*                                                                         *)
(* Nothing happens to the content when a worker or a host dies, and no     *)
(* step of a transition is visible in it but the one that commits.         *)
(***************************************************************************)
CONSTANTS
    Region,     \* regions of the disk
    Data,       \* what a guest writes
    Zero,       \* what a discarded or never written region reads as
    Snap,       \* snapshot names
    Missing     \* no such snapshot

VARIABLES disk, snaps

Content == [Region -> Data \cup {Zero}]

Init ==
    /\ disk = [r \in Region |-> Zero]
    /\ snaps = [s \in Snap |-> Missing]

Write(r, v) ==
    /\ disk' = [disk EXCEPT ![r] = v]
    /\ UNCHANGED snaps

\* A snapshot name is used once.
TakeSnapshot(s) ==
    /\ snaps[s] = Missing
    /\ snaps' = [snaps EXCEPT ![s] = disk]
    /\ UNCHANGED disk

Rollback(s) ==
    /\ snaps[s] # Missing
    /\ disk' = snaps[s]
    /\ UNCHANGED snaps

Next ==
    \/ \E r \in Region, v \in Data \cup {Zero} : Write(r, v)
    \/ \E s \in Snap : TakeSnapshot(s) \/ Rollback(s)

Spec == Init /\ [][Next]_<<disk, snaps>>

=============================================================================
