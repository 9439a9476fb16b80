--------------------------- MODULE MCClientManager ---------------------------
(* Two clients that register under one session id, as a peer that connects *)
(* again does, each of a user of its own.                                  *)
EXTENDS ClientManager, TLC

CONSTANTS c1, c2, s1, s2, u1, u2

OneSession == c1 :> s1 @@ c2 :> s1
OwnUsers == c1 :> u1 @@ c2 :> u2

==============================================================================
