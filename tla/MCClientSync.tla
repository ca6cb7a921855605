----------------------------- MODULE MCClientSync -----------------------------
(* Instances of ClientSync for TLC. *)
EXTENDS ClientSync, TLC

(* Two sends and a fault; commits of others with one fault or two. *)
MCScopes == {[sends |-> 2, others |-> 0, faults |-> 1],
             [sends |-> 0, others |-> 3, faults |-> 1],
             [sends |-> 0, others |-> 1, faults |-> 2]}
=============================================================================
