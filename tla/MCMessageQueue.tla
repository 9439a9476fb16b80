--------------------------- MODULE MCMessageQueue ---------------------------
(* The two halves of package queue together, on small channels.  A frame   *)
(* is its place in the peer's sequence of frames.  All of them are read by *)
(* a receiver that only has a consumer of messageChan, so that two queue   *)
(* up and a third is dropped; the first MaxProcessed of them by one with a *)
(* processor, whose goroutines then reply.                                 *)
EXTENDS MessageQueue

CONSTANT MaxProcessed   \* bound: frames read by a receiver with a processor

MCFrames == 1 .. 3

InOrder == \A i \in DOMAIN read' : read'[i] = i /\ (processor => i <= MaxProcessed)

MCSpec == Init /\ [][Next /\ InOrder]_vars /\ Fairness

==============================================================================
