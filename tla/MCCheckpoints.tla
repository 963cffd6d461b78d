----------------------------- MODULE MCCheckpoints -----------------------------
(* Instances of Checkpoints for TLC. *)
EXTENDS Checkpoints

(* Bound: while the work of the last event goes on, the maintenance is between  *)
(* a read and its write, or over; it starts late beside the events before.        *)
Timely ==
    left = 0 /\ maint.pc \in {"backfill", "sweep"} =>
        op = NoOp /\ \A n \in Turns : task[n] = NoTask
==============================================================================
