-------------------------- MODULE MCNatsConnManager --------------------------
(* Three configurations with two names, and two with a name each.          *)
EXTENDS NatsConnManager

MCConfigs == <<"a", "b", "a">>
TwoConfigs == <<"a", "b">>

==============================================================================
