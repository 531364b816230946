----------------------------- MODULE MCBoardFetch ------------------------------
(***************************************************************************)
(* A board of four postings for TLC.  f1 splits off one of them; of f2 one *)
(* posting has two values, and one has none.                               *)
(***************************************************************************)
EXTENDS BoardFetch

CONSTANTS p1, p2, p3, p4, f1, f2

FacetOrderValue == <<f1>>

FacetsValue ==
  [f \in {f1, f2} |->
     [p \in {p1, p2, p3, p4} |->
        IF f = f1 THEN {IF p = p4 THEN "b" ELSE "a"}
        ELSE CASE p = p1 -> {"c", "d"} [] p = p2 -> {} [] OTHER -> {"d"}]]
=============================================================================
