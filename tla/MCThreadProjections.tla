------------------------- MODULE MCThreadProjections -------------------------
(***************************************************************************)
(* Instances of ThreadProjections for TLC.  Turns and the messages of each *)
(* role are interchangeable.                                               *)
(***************************************************************************)
EXTENDS ThreadProjections, TLC

Symmetry == Permutations(Turns) \cup Permutations(UserMessages)
              \cup Permutations(AssistantMessages)
=============================================================================
