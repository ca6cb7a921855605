---------------------------- MODULE MCCheckpoints ----------------------------
(* Instances of Checkpoints for TLC. *)
EXTENDS Checkpoints, TLC

(* A user who waits, with four turns and two reverts; and one who does not *)
(* wait, with two turns, a reported diff and a failure on the way.         *)
Patient   == [turns |-> 4, edits |-> 4, diffs |-> 0, reverts |-> 2, failures |-> 0, patient |-> TRUE]
Impatient == [turns |-> 2, edits |-> 1, diffs |-> 1, reverts |-> 2, failures |-> 1, patient |-> FALSE]
Both == {Patient, Impatient}

(* One turn, one reported diff. *)
Diff == {[turns |-> 1, edits |-> 1, diffs |-> 1, reverts |-> 0, failures |-> 0, patient |-> TRUE]}
=============================================================================
