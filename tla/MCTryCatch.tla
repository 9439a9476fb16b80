------------------------------ MODULE MCTryCatch ------------------------------
(* Three errors, of which one wraps another, and a value that is no error. *)
EXTENDS TryCatch

CONSTANTS e1, e2, e3

MCWraps == {<<e2, e1>>}

==============================================================================
