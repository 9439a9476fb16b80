------------------------ MODULE MCRetryNotification ------------------------
(* RetryNotification with two nodes and three values, one of which is the  *)
(* last part of another.                                                   *)
EXTENDS RetryNotification

MCValues == {<<"b">>, <<"a", "b">>, <<"c">>}

==============================================================================
