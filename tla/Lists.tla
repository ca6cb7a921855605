-------------------------------- MODULE Lists --------------------------------
(***************************************************************************)
(* Filtering, in a form that can be reasoned about.                        *)
(***************************************************************************)
EXTENDS Naturals, Sequences

(* list.filter: what stands at these places, in its order. *)
Keep(list, places) ==
  LET kept[n \in 0 .. Len(list)] ==
        IF n = 0 THEN << >>
        ELSE IF n \in places THEN Append(kept[n - 1], list[n])
        ELSE kept[n - 1]
  IN kept[Len(list)]
=============================================================================
