-------------------------- MODULE MCTerminalManager --------------------------
(***************************************************************************)
(* Instances of TerminalManager for TLC: two threads with one or two      *)
(* terminals each.                                                         *)
(***************************************************************************)
EXTENDS TerminalManager, TLC

CONSTANTS h1, h2, a1, a2, b1
TwoThreads == a1 :> h1 @@ a2 :> h1 @@ b1 :> h2
=============================================================================
