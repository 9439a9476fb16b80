----------------------------- MODULE MCRedisView -----------------------------
(* Two views, of prefixes with a first part in common, with two keys, and  *)
(* two distances being calculated in one of them.                          *)
EXTENDS RedisView, TLC

CONSTANTS v1, v2, app, a, b, c1, c2

MCPrefix == v1 :> <<app, a>> @@ v2 :> <<app, b>>
\* The two distances are of one view, so their uuids may be exchanged.
Uuids == Permutations({c1, c2})

MCGeoView == c1 :> v1 @@ c2 :> v1

==============================================================================
