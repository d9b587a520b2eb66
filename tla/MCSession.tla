----------------------------- MODULE MCSession ------------------------------
(* A bounded instance of Session. *)
EXTENDS Session

CONSTANTS ana, ben

Budget == [call |-> 3, push |-> 4, back |-> 2, save |-> 2, midnight |-> 1, fault |-> 2, death |-> 1]

Symmetry == Permutations(Users)
=============================================================================
