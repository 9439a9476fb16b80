--------------------------- MODULE MCMessageSender ---------------------------
(* MessageSender with few calls and a channel small enough to fill up.     *)
EXTENDS MessageSender, TLC

CallSymmetry == Permutations(Calls)

==============================================================================
