----------------------------- MODULE SnapshotStore -----------------------------
(***************************************************************************)
(* What the tables checkpoint_files and checkpoint_blobs promise to the code *)
(* that restores files: a snapshot reads as what was written for as long as it *)
(* is there, and at worst it disappears. How rows share blobs, and when blobs   *)
(* are collected, is the business of Checkpoints.                               *)
(***************************************************************************)
CONSTANTS
    Keys,       \* checkpoints
    Versions,   \* contents a worktree can have
    None

VARIABLE snap   \* what reading the snapshot of a checkpoint returns

Snapshots == [Keys -> Versions \cup {None}]

Init == snap \in Snapshots

KeptOrLost(j) == snap'[j] \in {snap[j], None}

(* Retention and purges drop snapshots. *)
Drop ==
    /\ snap' \in Snapshots
    /\ \A j \in Keys : KeptOrLost(j)

(* One snapshot is written; retention may drop others with it. *)
Take(k) ==
    /\ snap[k] = None
    /\ snap' \in Snapshots
    /\ \A j \in Keys \ {k} : KeptOrLost(j)

Next == Drop \/ \E k \in Keys : Take(k)

Spec == Init /\ [][Next]_snap
==============================================================================
