------------------------------ MODULE MCDatabase ------------------------------
(* A unit of each kind with two keys in opposite orders, a batch of both   *)
(* keys, and an upsert by id or a deletion; or an entity with two sharers. *)
EXTENDS Database, TLC

CONSTANTS w1, s1, u1, b1, d1, x, y

MCKeyOf == w1 :> <<x, y>> @@ s1 :> <<y, x>>
MCBatch == u1 :> <<x, y>> @@ b1 :> <<x>> @@ d1 :> <<x>>

\* Bounds: a row with the bean of b1 is there before only where b1 looks for it,
\* and of the upsert by id and the deletion a behaviour has one.
MCInit == DatabaseInit /\ rows[y] # <<b1>>

OneOfThem == place[b1] = "look" \/ place[d1] = "look"

MCSpec == MCInit /\ [][DatabaseNext /\ OneOfThem']_databaseVars

==============================================================================
