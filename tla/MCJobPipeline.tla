--------------------------- MODULE MCJobPipeline ----------------------------
(***************************************************************************)
(* Instances of JobPipeline for TLC.                                       *)
(***************************************************************************)
EXTENDS JobPipeline, TLC

CONSTANTS s1, e1, c1, c2, narrow, wide, t1, t2

(* One board with every posting.                                           *)
OneBoard == [j \in Job |-> s1]
OneEmployer == [s \in Source |-> e1]

(* The two contents have different tags.                                   *)
TwoTags == [c \in Content |-> IF c = c1 THEN t1 ELSE t2]

(* The narrow criteria admit only the first content.                       *)
NarrowAndWide == {<<wide, c>> : c \in Content} \cup {<<narrow, c1>>}

SlotSymmetry == Permutations(Worker)

(* Without users the contents are alike: the second one comes by a change. *)
ConvergenceInit == Init /\ board \in [Job -> {c1, None}]
ConvergenceSpec == ConvergenceInit /\ [][Next]_vars /\ Fairness
=============================================================================
