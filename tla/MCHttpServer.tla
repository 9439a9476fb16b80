----------------------------- MODULE MCHttpServer -----------------------------
(* Two calls of up to two attempts to one route: one complete, in the      *)
(* query, of the first login; one with a body, part of the fields and      *)
(* values that the validator refuses, of the second login.                 *)
EXTENDS HttpServer, TLC

CONSTANTS c1, c2, x, y, t1, t2

MCBody == c1 :> {x, y} @@ c2 :> {x}
MCTokenOf == c1 :> t1 @@ c2 :> t2

==============================================================================
