----------------------------- MODULE LogFollower -----------------------------
(***************************************************************************)
(* What a client of the event log is promised, without sockets, requests   *)
(* or restarts: it shows the state a prefix of the log adds up to, never   *)
(* more than was committed, and never goes back to an earlier state.       *)
(***************************************************************************)
EXTENDS Integers, Sequences

CONSTANT Entries   \* what is ever committed

VARIABLES
  log,     \* orchestration_events
  shown    \* how many of its entries the client's state adds up

followerVars == <<log, shown>>

Init == log = << >> /\ shown = 0

Commit(e) == log' = Append(log, e) /\ UNCHANGED shown

Follow == /\ shown' \in shown + 1 .. Len(log)
          /\ UNCHANGED log

Next == Follow \/ \E e \in Entries : Commit(e)

Spec == Init /\ [][Next]_followerVars
=============================================================================
