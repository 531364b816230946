---------------------------- MODULE MCAutoApply -----------------------------
(***************************************************************************)
(* Instances of AutoApply for TLC.                                         *)
(***************************************************************************)
EXTENDS AutoApplyInvariant, TLC

CONSTANT v1

(* What drafting infers in the runs: nothing, a confident guess that goes  *)
(* out as it is, or a remembered answer that must be confirmed.            *)
Unanswered == [value |-> Blank, review |-> TRUE, hold |-> FALSE,
               bank |-> FALSE, confirmed |-> FALSE]
Guessed    == [value |-> v1, review |-> FALSE, hold |-> FALSE,
               bank |-> FALSE, confirmed |-> FALSE]
Remembered == [value |-> v1, review |-> TRUE, hold |-> TRUE,
               bank |-> TRUE, confirmed |-> FALSE]

Unconfirmed == {Unanswered, Remembered}
OnlyGuesses == {Guessed}

(* Primary keys, worker slots and request slots are interchangeable.       *)
Symmetry == Permutations(Draft) \cup Permutations(Worker) \cup Permutations(Request)
=============================================================================
